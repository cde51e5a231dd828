\* Every request but sharing and every fault, two builds of one app.
SPECIFICATION FairSpec
CONSTANTS
    p1 = p1
    p2 = p2
    page = page
    asset = asset
    App = {p1}
    File = {page}
    Limit = 1
    MaxBuild = 2
    Requests = {"publish", "unpublish", "delete"}
    Faults = {"storage", "ambiguous", "database", "overtake", "crash"}
INVARIANTS TypeOK EndedBuildsNeverGoLive OneBuildUnderWay
PROPERTIES LiveOnlyAdvances BuildsEnd
CHECK_DEADLOCK FALSE
