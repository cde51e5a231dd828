\* An owner publishes two projects on a plan for one.
SPECIFICATION Spec
CONSTANTS
    p1 = p1
    p2 = p2
    page = page
    asset = asset
    App = {p1, p2}
    File = {page}
    Limit = 1
    MaxBuild = 1
    Requests = {"publish"}
    Faults = {}
INVARIANTS WithinPlan
CHECK_DEADLOCK FALSE
