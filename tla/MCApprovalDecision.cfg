SPECIFICATION Spec
CONSTANTS
    Approvals = {a1}
    RestCalls = {r1}
    McpCalls = {}
    Admins = {x1, x2}
    TTLs = {0, 1}
    RetryWindow = 1
    ExpiringWindow = 1
    MaxClock = 2
    None = None
    Faults = {"admin", "scheduler"}
    Observed = {"approval_expired", "ticket_decided", "ticket_expired"}
SYMMETRY AdminSymmetry
INVARIANTS
    DecisionStands
    AuditFaithful
    NoEarlyExpiry
    ExpiredIsFinal
    EventsAreTrue
