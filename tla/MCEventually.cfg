SPECIFICATION MCFairSpec
CONSTANTS
    Nodes = {"n1", "n2"}
    PoolSize = 2
    JobFaults = FALSE
    MaxStops = 1
    MaxDepth = 2
    MaxLate = 1
    NoConn = NoConn

    Setups = {"r1", "r2", "r3"}
    SetupKeys = {"k"}
    Payloads = {"p"}
    BadPayloads = {}
    OldPayloads = {}
    TokenRequired = TRUE
    Migrated = {TRUE}
    MaxOpenConns = 2
    SetupFaults = FALSE
    Blank = Blank

    Calls = {"c"}
    MustFail = {"c"}
    Features = {"args", "files", "rate"}
    Configured = {"files"}
    MonthlyActionLimit = 1
    Licensed = FALSE
    Switches = 1
    CallFaults = TRUE

    Approvals = {"a"}
    TicketTenants = {"t"}
    TenantOf <- OneTenant
    TicketConfigs <- OneTracker
    Workflow = {"Open", "Closed", "Done"}
    Moves = {"Done"}
    Hooks = {"h1", "h2"}
    Admins = {}
    Secrets = {"s"}
    TicketFaults = FALSE
    Nothing = Nothing

    TokenCalls = {"c1", "c2"}
    OAuthTools = {"t"}
    ScopeOf <- OneScope
    Lives = {0, 3}
    CacheTTL = 5
    Buffer = 1
    Timeout = 1
    MaxTokenTime = 2
    MaxTokens = 2
    NoCall = NoCall
CHECK_DEADLOCK FALSE
PROPERTIES
    JobRunsAgain
    EverythingIsAnswered
    LinkedDecisionArrives
