\* Two AI turns publish at once: the loser puts back what it had replaced.
SPECIFICATION Spec
CONSTANTS
    pa = pa
    pb = pb
    c1 = c1
    c2 = c2
    b1 = b1
    b2 = b2
    s1 = s1
    r1 = r1
    e1 = e1
    user = user
    Absent = Absent
    NoHash = NoHash
    Path = {pa, pb}
    Content = {c1, c2}
    Template <- OneTemplateFile
    Builders = {b1, b2}
    Savers = {}
    Restorers = {}
    Editors = {}
    Turns <- SameFile
    Faults = {}
    MaxRevision = 2
INVARIANTS LandsCompletelyOrNotAtAll
CHECK_DEADLOCK FALSE
