CONSTANTS
    Processes = {"p", "q"}
    Feeds <- MCFeeds
    MaxBatches = 2
    Lookback = 2
    MaxFaults = 2
    AlertGroups = {"g"}
    Triagers = {"op"}
    AlertCooldown = 1
    AlertAttempts = 2
    AlertBatch = 1
    AlertHooks = {"open"}
    AlertsFired = 1
    AlertTime = 2
    AlertEdits = 0
    AlertFaults = 1
SPECIFICATION MCSpec
INVARIANTS PassedIsDurable
PROPERTIES PulledInTheEnd WritersKeepApart EveryAlertSettles NamesCatchUp
CHECK_DEADLOCK FALSE
