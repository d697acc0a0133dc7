SPECIFICATION MCSpec
CONSTANTS
    Calls = {"c1", "c2"}
    MustFail = {"c1"}
    Features = {"args", "files", "rate"}
    Configured = {"args"}
    MonthlyActionLimit = 1
    Licensed = TRUE
    Switches = 1
    CallFaults = TRUE

    Checks = {"p", "q", "r"}
    Agents = {"a"}
    RateTools = {"t"}
    DefaultConfig <- CodeLimits
    TenantConfig <- TenantLimits
    LimitConfigs <- MCConfigs
    Overrides <- MCOverrides
    SecondTicks = 2
    MinuteSeconds = 1
    DayMinutes = 2
    MaxRateTime = 2
    MaxSets = 1
    Unset = Unset

    Tools = {1, 2, 3, 4}
    McpTools = {2, 3, 4}
    DevTools = {2}
    SpecTools = {1}
    DevAutoTools = FALSE
    JsonIds = {"p", "q"}
    Messages = {"m"}
    MaxToolChanges = 4
    None = None

    Gateways = {"g"}
    Tenants = {"t", "u"}
    Clients = {"c"}
    IPs = {"p", "q"}
    UnknownIP = "noip"
    SessionTTL = 1
    SessionCachePadding = 1
    MaxSessionTime = 3
    MaxSessionBoot = 2
    MaxSessions = 1
    MaxChanges = 1
    Ops = {"restart", "revoke", "disable", "delete", "flag", "fail"}

    ChainGateways = {"p", "q"}
    Chains = {"k", "l"}
    MaxChainDepth = 2
    ChainTTL = 1
    MaxChainTime = 3
    MaxChainBoot = 2
    MaxHops = 4

    TokenCalls = {"p", "q"}
    OAuthTools = {"t"}
    ScopeOf <- OneScope
    Lives = {0, 3}
    CacheTTL = 5
    Buffer = 1
    Timeout = 1
    MaxTokenTime = 2
    MaxTokens = 3
    NoCall = NoCall

    SecretCalls = {"p", "q"}
    SecretTTL = 2
    MaxSecretTime = 3
    MaxValues = 3

    Sends = {"p", "q"}
    Events = {"e"}
    TestEvent = "e"
    Channels = {1, 2}
    Cooldown = 1
    MaxNoticeTime = 2

    Approvals = {"a"}
    TicketTenants = {"t"}
    TenantOf <- OneTenant
    TicketConfigs <- Trackers
    Workflow = {"Open", "Closed", "Done"}
    Moves = {"Done", "8"}
    Hooks = {"p", "q"}
    Admins = {"x"}
    Secrets = {"s"}
    TicketFaults = TRUE
    Nothing = Nothing

    Nodes = {"n1", "n2"}
    PoolSize = 2
    JobFaults = TRUE
    MaxStops = 1
    MaxDepth = 2
    MaxLate = 1
    NoConn = NoConn

    Writers = {"p", "q"}
    TrailTenants = {"t"}
    EventIds = {1, 2}
    Allowlist <- ListedFields
    ResourceTypes = {"listed", "unlisted"}
    EventBodies <- AllFields
    Res = 1
    FreeWindow = 1
    Retention = 1
    PageSize = 1
    Froms = {0}
    Tiers = {"free", "paid"}
    MaxTrailTime = 2
    NoFloor = NoFloor
CHECK_DEADLOCK FALSE
INVARIANTS
    CallsAreGoverned
    LimitsHold
    
    SessionsAreExact
    
    CredentialsAreCurrent
    NoticesArrive
    
    JobIsExclusive
    
