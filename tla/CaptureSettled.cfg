\* A project is read for a publish while AI turns land.
SPECIFICATION CaptureSpec
CONSTANTS
    pa = pa
    pb = pb
    c1 = c1
    c2 = c2
    b1 = b1
    b2 = b2
    s1 = s1
    r1 = r1
    e1 = e1
    user = user
    Absent = Absent
    NoHash = NoHash
    Path = {pa, pb}
    Content = {c1, c2}
    Template <- OneTemplateFile
    Builders = {b1}
    Savers = {}
    Restorers = {}
    Editors = {}
    Turns <- OneTurn
    Faults = {}
    MaxRevision = 5
INVARIANTS CaptureTypeOK CaptureIsOneRevision
CHECK_DEADLOCK FALSE
