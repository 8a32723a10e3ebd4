CONSTANTS
    Deliveries = {"d1", "d2", "probe"}
    Events = {"a", "b", "bad", "noise"}
    Records <- MCRecords
    Probes = {"probe"}
    Unparseable = {"bad"}
    Dropped = {"noise"}
    MaxCrashes = 1
    Sizes <- MCSizes
    FeedLimits <- MCLimits
    Workers = {"v", "w"}
    Requests = {"q"}
SPECIFICATION MCSpec
INVARIANTS AckedIsDurable MarkedIsDurable RejectedIsParked LimitsHold ClosedAfterUse
PROPERTIES KeepsPromise DurableInTheEnd EveryoneGetsThrough NoStageStaysDown
CHECK_DEADLOCK FALSE
