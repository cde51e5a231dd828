\* A restore or an undo races an AI turn, in a project whose files all came from revisions.
SPECIFICATION FairSpec
CONSTANTS
    pa = pa
    pb = pb
    c1 = c1
    c2 = c2
    b1 = b1
    b2 = b2
    s1 = s1
    r1 = r1
    e1 = e1
    user = user
    Absent = Absent
    NoHash = NoHash
    Path = {pa, pb}
    Content = {c1, c2}
    Template <- NoTemplateFile
    Builders = {b1}
    Savers = {}
    Restorers = {r1}
    Editors = {}
    Turns <- OneTurn
    Faults = {"storage", "ambiguous", "rollback"}
    MaxRevision = 3
INVARIANTS TypeOK LinearHistory ConflictHasOneWinner PreviousIsWhatWasReplaced Linear RestoresAreExact
PROPERTIES ImplementsRevisionLog EveryRevisionSettles
CHECK_DEADLOCK FALSE
