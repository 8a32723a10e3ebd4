CONSTANTS
    Events = {"f", "c", "n"}
    VendorOf <- PairVendor
    TimeOf <- PairTime
    IdsOf <- PairIds
    ShapeOf <- PairShape
    NoShape = "none"
    Window = 5
    Closers = {"k1", "k2"}
    Limit = 2
    FetchLimit = 1
    MaxFailures = 0
    Expires = {"members", "identities"}
    FiledEvents = {1, 2, 3}
    SaidDetails <- MCDetails
    TrustOrder <- MCTrust
    PartitionLength = 2
    LookAround = 3
SPECIFICATION RecordSpec
INVARIANT MatchedRulesKept
CHECK_DEADLOCK FALSE
