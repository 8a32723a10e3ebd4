CONSTANTS
    Processes = {"p"}
    Feeds <- MCQuietFeeds
    MaxBatches = 2
    Lookback = 2
    MaxFaults = 0
    AlertGroups = {"g"}
    Triagers = {"op"}
    AlertCooldown = 1
    AlertAttempts = 2
    AlertBatch = 1
    AlertHooks = {"open"}
    AlertsFired = 1
    AlertTime = 2
    AlertEdits = 0
    AlertFaults = 1
SPECIFICATION PullSpec
PROPERTIES PulledInTheEnd
CHECK_DEADLOCK FALSE
