\* A rename writes back the project row while AI turns publish.
SPECIFICATION Spec
CONSTANTS
    pa = pa
    pb = pb
    c1 = c1
    c2 = c2
    b1 = b1
    b2 = b2
    s1 = s1
    r1 = r1
    e1 = e1
    user = user
    Absent = Absent
    NoHash = NoHash
    Path = {pa, pb}
    Content = {c1, c2}
    Template <- OneTemplateFile
    Builders = {b1, b2}
    Savers = {}
    Restorers = {}
    Editors = {e1}
    Turns <- SharedPath
    Faults = {"storage", "database", "crash"}
    MaxRevision = 3
INVARIANTS ChainIsApplied Consistent
PROPERTIES OutcomesAreFinal
CHECK_DEADLOCK FALSE
