CONSTANTS
    Processors = {p, q}
    Fit = {"x"}
    Unfit = {}
    Broken = {"b"}
    Refused = {"r"}
    TenantOf <- MCTenantOf
    None = none
    MaxFaults = 1
SPECIFICATION MCSpec
INVARIANTS NothingSkipped StoredInOrder
PROPERTIES AtLeastOnceGroups NothingIsLost
CHECK_DEADLOCK FALSE
