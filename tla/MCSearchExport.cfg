CONSTANTS
    Handlers = {h1, h2}
    Users = {a, b, c}
    Founders = {a}
    Addresses = {x, y}
    Edits <- MCEdits
    NoUser = NoUser
    Nobody = Nobody
    MaxRequests = 4
    MaxTokens = 2
    MaxFaults = 1
    FeedOperators = {"o"}
    FeedReceivers = {"i", "j"}
    FeedRefs = 2
    FeedChanges = 2
    FeedRestarts = 1
    FeedFaults = 1
    Auditors = {"v", "w"}
    TrailLength = 4
    ClockSkew = 0
    TrailFaults = 2
    Askers = {"c", "d"}
    CacheTTL = 2
    ReadTime = 1
    CacheTime = 5
    CacheEdits = 2
    CacheFaults = 1
    Customers = {"t", "u"}
    AskedPeriods = {0, 2}
    KeptTTL <- MCTableTTL
    AtFirst <- MCFounded
    DefaultPeriod = 2
    LongestPeriod = 5
    KeptTime = 3
    KeptRows = 1
    KeptEdits = 1
    KeptFaults = 1
    BrowserTabs = {"c", "d"}
    SigningTabs = {"c"}
    SessionRoles = {"admin", "analyst"}
    CodeTTL = 1
    BearerTTL = 1
    CookieTTL = 2
    Cookies = {1, 2}
    Visits = {"r", "q"}
    VariedVisits = {"r"}
    Alerters = {"p", "q"}
    AlertGroups = {"g", "h"}
    AlertCooldown = 2
    AlertAttempts = 2
    AlertBatch = 1
    AlertHooks = {"none", "refused"}
    AlertOperators = {}
    AlertsStored = 2
    AlertTime = 4
    AlertEdits = 1
    AlertFaults = 1
    SearchIds = {1, 2, 3}
    SearchTimes = 2
    SearchPage = 1
    SearchCap = 2
    SearchChanges = 2
    SearchFaults = 1
    EditedGroups = {"g"}
SPECIFICATION SearchSpec
INVARIANTS TruncationIsTold
CHECK_DEADLOCK FALSE
