CONSTANTS
    Events = {"f", "c", "n"}
    VendorOf <- PairVendor
    TimeOf <- PairTime
    IdsOf <- PairIds
    ShapeOf <- PairShape
    NoShape = "none"
    Window = 5
    Closers = {"k1", "k2"}
    Limit = 2
    FetchLimit = 1
    MaxFailures = 0
    Expires = {"identities"}
    FiledEvents = {1, 2, 3}
    SaidDetails <- MCDetails
    TrustOrder <- MCTrust
    PartitionLength = 2
    LookAround = 3
SPECIFICATION MCSpec
INVARIANTS PairNoFalseJoin BridgeRecordsStayFindable RecordTellsOfItsEvents DisagreementFound
PROPERTIES ShapeAmendmentsAdd
CHECK_DEADLOCK FALSE
