CONSTANTS
    Events = {"a", "b", "d", "e"}
    VendorOf <- SplitVendor
    TimeOf <- SplitTime
    IdsOf <- SplitIds
    ShapeOf <- SplitShape
    NoShape = "none"
    Window = 5
    Closers = {"k1"}
    Limit = 2
    FetchLimit = 4
    MaxFailures = 0
    Expires = {}
SPECIFICATION FairSpec
PROPERTIES EveryEventRecorded
CHECK_DEADLOCK FALSE
