CONSTANTS
    Events = {"a", "b", "c"}
    VendorOf <- ShapeVendor
    TimeOf <- ShapeTime
    IdsOf <- ShapeIds
    ShapeOf <- ShapeShape
    NoShape = "none"
    Window = 5
    Closers = {"k1", "k2"}
    Limit = 2
    FetchLimit = 2
    MaxFailures = 0
    Expires = {}
SPECIFICATION Spec
PROPERTIES AmendmentsAdd
CHECK_DEADLOCK FALSE
