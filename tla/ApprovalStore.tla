---------------------------- MODULE ApprovalStore ----------------------------
(***************************************************************************)
(* The rows of rbitr.approval_requests and rbitr.action_decisions that the *)
(* approval workflow reads and writes (src/internal/store/store.go), one   *)
(* variable per column.  Every SQL statement is atomic: the WHERE clause   *)
(* of an UPDATE is a predicate, its SET list an action, and the error      *)
(* store.ErrInvalidState is the negation of the predicate.  Rows are never *)
(* deleted, so store.ErrNotFound means that the row was not inserted yet.  *)
(*                                                                         *)
(* Times are ticks of one clock shared by the gateways: the code compares  *)
(* timestamps taken by different processes with each other.  Columns that  *)
(* no handler reads back (decided_at, failed_at, last_error_code, ...) are *)
(* left out.                                                               *)
(***************************************************************************)
EXTENDS Integers, FiniteSets

CONSTANTS
    Approvals,      \* approval request ids
    RestCalls,      \* resubmissions of a tool call over the REST API
    McpCalls,       \* resubmissions of a tool call over MCP
    Admins,         \* requests to the approval endpoints of the admin API
    TTLs,           \* lifetimes approvalTTL can return
    RetryWindow,    \* approvalExecutionRetryWindow
    MaxClock,       \* bound on the clock
    None            \* SQL NULL in a column that names a request

Calls == RestCalls \cup McpCalls

ASSUME ConstantsAssumption ==
    /\ TTLs \subseteq Nat
    /\ RetryWindow \in Nat
    /\ MaxClock \in Nat
    /\ RestCalls \cap McpCalls = {}
    /\ None \notin Approvals
    /\ None \notin Calls
    /\ None \notin Admins

VARIABLES
    clock,          \* time.Now()
    status,         \* status, "NONE" while the row does not exist
    expiresAt,      \* expires_at
    executingAt,    \* executing_at, NoTime for NULL
    executedBy,     \* executed_request_id / executed_decision_id
    decidedBy,      \* decided_by
    adrs            \* action_decisions rows that carry an approval id

columns == <<status, expiresAt, executingAt, executedBy, decidedBy>>
storeVars == <<columns, adrs>>

NoTime == -1

Decisions == {"APPROVED", "DENIED", "REVOKED"}
Undecided == {"NONE", "PENDING"}
Statuses == Undecided \cup Decisions
            \cup {"EXECUTING", "EXECUTED", "FAILED", "EXPIRED"}

\* Statuses of an approval that some request has claimed for execution.
Claimed == {"EXECUTING", "EXECUTED", "FAILED"}

\* An ADR is the approval it names and the request that wrote it: the call
\* that executed the approval, or None for the one that asked for approval.
ADRs == Approvals \X (Calls \cup {None})

StoreTypeOK ==
    /\ clock \in 0..MaxClock
    /\ status \in [Approvals -> Statuses]
    /\ expiresAt \in [Approvals -> Nat]
    /\ executingAt \in [Approvals -> Nat \cup {NoTime}]
    /\ executedBy \in [Approvals -> Calls \cup {None}]
    /\ decidedBy \in [Approvals -> Admins \cup {None}]
    /\ adrs \subseteq ADRs

StoreInit ==
    /\ clock = 0
    /\ status = [a \in Approvals |-> "NONE"]
    /\ expiresAt = [a \in Approvals |-> 0]
    /\ executingAt = [a \in Approvals |-> NoTime]
    /\ executedBy = [a \in Approvals |-> None]
    /\ decidedBy = [a \in Approvals |-> None]
    /\ adrs = {}

-----------------------------------------------------------------------------
(* Slips that the properties are tested against: each is one of the        *)
(* definitions below with a condition missing or too weak.                 *)

DecidableTwice(a) == status[a] \in {"PENDING", "APPROVED"}

MarkableExecutedTwice(a) == status[a] \in {"EXECUTING", "EXECUTED"}

MarkableFailedLate(a) == status[a] \in {"EXECUTING", "EXECUTED"}

MarkableExpiredLate(a) == status[a] \in {"PENDING", "APPROVED", "EXECUTING"}

RetryAllowedAnyTime(executing, now) == executing # NoTime

ApprovalExpiredAnyTime(seen, expires, now) == seen \in {"PENDING", "APPROVED"}

-----------------------------------------------------------------------------
(* The WHERE clauses. *)

Decidable(a) == status[a] = "PENDING"

\* A valid credential is an approval token and a request hash that match.
Claimable(a, cred, now) ==
    /\ status[a] = "APPROVED"
    /\ expiresAt[a] > now
    /\ cred = "valid"

MarkableExecuted(a) == status[a] = "EXECUTING" /\ executedBy[a] = None

MarkableFailed(a) == status[a] = "EXECUTING"

MarkableExpired(a) == status[a] \in {"PENDING", "APPROVED"}

(* The statements, for a row that the WHERE clause selects. *)

InsertApprovalRequest(a, expires) ==
    /\ status' = [status EXCEPT ![a] = "PENDING"]
    /\ expiresAt' = [expiresAt EXCEPT ![a] = expires]
    /\ UNCHANGED <<executingAt, executedBy, decidedBy>>

UpdateApprovalDecision(a, decision, by) ==
    /\ Decidable(a)
    /\ status' = [status EXCEPT ![a] = decision]
    /\ decidedBy' = [decidedBy EXCEPT ![a] = by]
    /\ UNCHANGED <<expiresAt, executingAt, executedBy>>

ClaimApprovalExecution(a, cred, now) ==
    /\ Claimable(a, cred, now)
    /\ status' = [status EXCEPT ![a] = "EXECUTING"]
    /\ executingAt' = [executingAt EXCEPT ![a] = now]
    /\ UNCHANGED <<expiresAt, executedBy, decidedBy>>

MarkApprovalExecuted(a, c) ==
    /\ MarkableExecuted(a)
    /\ status' = [status EXCEPT ![a] = "EXECUTED"]
    /\ executedBy' = [executedBy EXCEPT ![a] = c]
    /\ UNCHANGED <<expiresAt, executingAt, decidedBy>>

MarkApprovalExecutionFailed(a) ==
    /\ MarkableFailed(a)
    /\ status' = [status EXCEPT ![a] = "FAILED"]
    /\ UNCHANGED <<expiresAt, executingAt, executedBy, decidedBy>>

MarkApprovalExpired(a) ==
    /\ MarkableExpired(a)
    /\ status' = [status EXCEPT ![a] = "EXPIRED"]
    /\ UNCHANGED <<expiresAt, executingAt, executedBy, decidedBy>>

\* InsertADR skips the insert when some ADR names the approval already.
InsertADR(a, by) ==
    adrs' = IF \E r \in adrs : r[1] = a THEN adrs ELSE adrs \cup {<<a, by>>}

\* When the EXISTS query of InsertADR fails, the record is inserted anyway.
InsertADRUnchecked(a, by) == adrs' = adrs \cup {<<a, by>>}

-----------------------------------------------------------------------------
(* The conditions the handlers evaluate on a row they have read. *)

\* approvalRetryAllowed
RetryAllowed(executing, now) ==
    executing # NoTime /\ now - executing <= RetryWindow

\* approvalExpired
ApprovalExpired(seen, expires, now) ==
    seen \in {"PENDING", "APPROVED"} /\ now > expires
=============================================================================
