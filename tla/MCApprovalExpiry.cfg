SPECIFICATION SchedulerSpec
CONSTANTS
    Approvals = {a1, a2}
    RestCalls = {r1}
    McpCalls = {}
    Admins = {x1}
    TTLs = {1}
    RetryWindow = 1
    ExpiringWindow = 1
    MaxClock = 2
    None = None
    Faults = {"call", "admin"}
    Observed = {}
PROPERTIES
    OverdueResolved
