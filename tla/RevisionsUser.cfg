\* One person builds, saves, restores and undoes over a starter template file, beside an AI turn of another.
SPECIFICATION Spec
CONSTANTS
    pa = pa
    pb = pb
    c1 = c1
    c2 = c2
    b1 = b1
    b2 = b2
    s1 = s1
    r1 = r1
    e1 = e1
    user = user
    Absent = Absent
    NoHash = NoHash
    Path = {pa, pb}
    Content = {c1, c2}
    Template <- OneTemplateFile
    Builders = {user, b2}
    Savers = {user}
    Restorers = {user}
    Editors = {}
    Turns <- UserTurns
    Faults = {"storage"}
    MaxRevision = 3
INVARIANTS RestoresAreExact UncontendedPathsAreFaithful
CHECK_DEADLOCK FALSE
