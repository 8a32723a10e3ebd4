CONSTANTS
    Deliveries = {"d1"}
    Events = {"b", "bad", "noise"}
    Records <- MCFilteredRecords
    Probes = {}
    Unparseable = {"bad"}
    Dropped = {"noise"}
    MaxCrashes = 0
    Sizes <- MCSizes
    FeedLimits <- MCLimits
    Workers = {"v", "w"}
    Requests = {"q"}
SPECIFICATION ReceiverSpec
INVARIANTS AckedIsDurable
CHECK_DEADLOCK FALSE
