CONSTANTS
    Events = {"f", "c", "n"}
    VendorOf <- PairVendor
    TimeOf <- PairTime
    IdsOf <- PairIds
    ShapeOf <- PairShape
    NoShape = "none"
    Window = 5
    Closers = {"k1"}
    Limit = 2
    FetchLimit = 2
    MaxFailures = 0
    Expires = {}
SPECIFICATION Spec
INVARIANTS OneRecordPerEvent
CHECK_DEADLOCK FALSE
