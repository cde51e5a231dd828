\* Three builds of an app that is published, updated, shared and unpublished.
SPECIFICATION Spec
CONSTANTS
    p1 = p1
    p2 = p2
    page = page
    asset = asset
    App = {p1}
    File = {page, asset}
    Limit = 1
    MaxBuild = 3
    Requests = {"publish", "unpublish", "share"}
    Faults = {}
INVARIANTS LiveIsServed
CHECK_DEADLOCK FALSE
