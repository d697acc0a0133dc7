SPECIFICATION Spec
CONSTANTS
    Approvals = {a1}
    RestCalls = {r1}
    McpCalls = {m1}
    Admins = {x1}
    TTLs = {2}
    RetryWindow = 1
    ExpiringWindow = 1
    MaxClock = 3
    None = None
    Faults = {"create", "call"}
    Observed = {}
INVARIANTS
    RunOnlyUnderClaim
    RunWithinWindow
    SingleSuccess
    ExecutedIsReal
    RunHasEvidence
    IndInv
PROPERTIES
    LifecycleSpec
