---------------------------- MODULE ApprovedCall -----------------------------
(***************************************************************************)
(* An agent resubmits a tool call with the id and the token of an approval *)
(* (handleApprovedToolCall for REST, handleMCPApprovedCall for MCP).  A    *)
(* call is one run of the handler; every store call and every message to   *)
(* or from the upstream tool is a step, so that the steps of several calls *)
(* interleave.  Between two steps a call holds what it has read: the row   *)
(* as it was loaded (seen) and the time it took once (now).                *)
(*                                                                         *)
(* When "call" is in Faults a store statement of a call may return an      *)
(* error, whether or not the database applied it.  A gateway that dies, or *)
(* a request whose client goes away, is a call that takes no more steps:   *)
(* the specification never forces a call to take one.                      *)
(***************************************************************************)
EXTENDS ApprovalStore

CONSTANTS
    Faults,         \* the kinds of process whose store statements may fail
    Observed        \* the kinds of event that are recorded

EventKinds == {"token_abuse", "approval_expiring", "approval_expired",
               "ticket_created", "ticket_decided", "ticket_expired"}

ASSUME FaultsAssumption ==
    /\ Faults \subseteq {"create", "call", "admin", "scheduler"}
    /\ Observed \subseteq EventKinds

VARIABLES
    issued,         \* approvals whose token has been sent to the agent
    pc,             \* the next step of a call
    target,         \* the approval the call names, None before it starts
    cred,           \* what the call presents: its token and request hash
    seen,           \* the row the call has read
    now,            \* the time the call took after reading the row
    resp,           \* what the call was answered, "none" before that
    received,       \* calls whose request reached the upstream tool
    answered,       \* calls for which the connector returned a response
    events          \* notifications sent and ticket jobs started

localVars == <<pc, target, cred, seen, now, resp>>
callVars == <<localVars, received, answered>>

Credentials == {"valid", "wrongToken", "wrongHash"}

PCs == {"idle", "validate", "expire", "claim", "reload", "execute",
        "upstream", "markFailed", "markExecuted", "record", "done"}

Responses == {"none", "ok", "invalid", "expired", "conflict", "window",
              "upstream", "internal"}

Views == [status : Statuses, executingAt : Nat \cup {NoTime}]

CallTypeOK ==
    /\ issued \subseteq Approvals
    /\ pc \in [Calls -> PCs]
    /\ target \in [Calls -> Approvals \cup {None}]
    /\ cred \in [Calls -> Credentials]
    /\ seen \in [Calls -> Views]
    /\ now \in [Calls -> 0..MaxClock]
    /\ resp \in [Calls -> Responses]
    /\ received \subseteq Calls
    /\ answered \subseteq received
    /\ events \subseteq EventKinds \X Approvals

NotRead == [status |-> "NONE", executingAt |-> NoTime]

CallInit ==
    /\ issued = {}
    /\ pc = [c \in Calls |-> "idle"]
    /\ target = [c \in Calls |-> None]
    /\ cred = [c \in Calls |-> "valid"]
    /\ seen = [c \in Calls |-> NotRead]
    /\ now = [c \in Calls |-> 0]
    /\ resp = [c \in Calls |-> "none"]
    /\ received = {}
    /\ answered = {}
    /\ events = {}

-----------------------------------------------------------------------------

\* The row as GetApprovalForExecution returns it.  It does not select
\* executed_at, so the ExecutedAt of the handlers is always nil.
GetApprovalForExecution(a) ==
    [status |-> status[a], executingAt |-> executingAt[a]]

Goto(c, label) ==
    /\ pc' = [pc EXCEPT ![c] = label]
    /\ UNCHANGED resp

Answer(c, r) ==
    /\ pc' = [pc EXCEPT ![c] = "done"]
    /\ resp' = [resp EXCEPT ![c] = r]

\* A notification or a goroutine of the ticketing service that is started
\* here and runs on its own.
Emit(kinds, a) == events' = events \cup ((kinds \cap Observed) \X {a})

\* The agent knows the token of an approval once it was answered with it.
Load(c, a, k) ==
    /\ pc[c] = "idle"
    /\ k # "wrongToken" => a \in issued
    /\ target' = [target EXCEPT ![c] = a]
    /\ cred' = [cred EXCEPT ![c] = k]
    /\ \/ /\ status[a] # "NONE"
          /\ seen' = [seen EXCEPT ![c] = GetApprovalForExecution(a)]
          /\ Goto(c, "validate")
          /\ UNCHANGED events
       \/ /\ status[a] = "NONE"
          /\ Answer(c, "invalid")
          /\ IF c \in RestCalls THEN Emit({"token_abuse"}, a)
                               ELSE UNCHANGED events
          /\ UNCHANGED seen
    /\ UNCHANGED <<clock, storeVars, issued, now, received, answered>>

\* What the handler does with a row whose status it has read as s, the
\* switch on approval.Status: claim it, run it as a retry, or refuse.
Dispatch(c, s, executing, t) ==
    \/ s = "APPROVED" /\ Goto(c, "claim")
    \/ s = "EXECUTING" /\ RetryAllowed(executing, t) /\ Goto(c, "execute")
    \/ s = "EXECUTING" /\ ~RetryAllowed(executing, t) /\ Answer(c, "window")
    \/ s \notin {"APPROVED", "EXECUTING"} /\ Answer(c, "conflict")

RestValidate(c) ==
    LET a == target[c] IN
    /\ c \in RestCalls
    /\ pc[c] = "validate"
    /\ now' = [now EXCEPT ![c] = clock]
    /\ \/ /\ cred[c] # "valid"
          /\ Answer(c, "invalid")
          /\ Emit({"token_abuse"}, a)
       \/ /\ cred[c] = "valid"
          /\ \/ /\ seen[c].status = "EXPIRED" \/ clock > expiresAt[a]
                /\ Goto(c, "expire")
             \/ /\ seen[c].status # "EXPIRED" /\ clock <= expiresAt[a]
                /\ Dispatch(c, seen[c].status, seen[c].executingAt, clock)
          /\ UNCHANGED events
    /\ UNCHANGED <<clock, storeVars, issued, target, cred, seen, received,
                   answered>>

McpValidate(c) ==
    LET a == target[c] IN
    /\ c \in McpCalls
    /\ pc[c] = "validate"
    /\ \/ /\ cred[c] # "valid"
          /\ Answer(c, "invalid")
          /\ UNCHANGED now
       \/ /\ cred[c] = "valid"
          /\ now' = [now EXCEPT ![c] = clock]
          /\ \/ /\ seen[c].status = "EXPIRED" \/ clock > expiresAt[a]
                /\ Goto(c, "expire")
             \/ /\ seen[c].status # "EXPIRED" /\ clock <= expiresAt[a]
                /\ Dispatch(c, seen[c].status, seen[c].executingAt, clock)
    /\ UNCHANGED <<clock, storeVars, issued, target, cred, seen, received,
                   answered, events>>

\* Slip: the call is refused but the row is left as it is.
ExpireUnmarked(c) ==
    /\ pc[c] = "expire"
    /\ Answer(c, "expired")
    /\ UNCHANGED <<clock, storeVars, issued, target, cred, seen, now,
                   received, answered, events>>

\* The result of MarkApprovalExpired is ignored.
Expire(c) ==
    LET a == target[c] IN
    /\ pc[c] = "expire"
    /\ Answer(c, "expired")
    /\ \/ MarkApprovalExpired(a)
       \/ /\ ~MarkableExpired(a) \/ "call" \in Faults
          /\ UNCHANGED columns
    /\ UNCHANGED <<clock, adrs, issued, target, cred, seen, now, received,
                   answered, events>>

Claim(c) ==
    LET a == target[c] IN
    /\ pc[c] = "claim"
    /\ \/ /\ ClaimApprovalExecution(a, cred[c], now[c])
          /\ Goto(c, "execute")
       \/ /\ ~Claimable(a, cred[c], now[c])
          /\ UNCHANGED columns
          /\ Goto(c, "reload")
    /\ UNCHANGED <<clock, adrs, issued, target, cred, seen, now, received,
                   answered, events>>

\* The claim failed with ErrInvalidState: the row is read again, and the
\* retry window is checked against the time taken before the claim.
RestReload(c) ==
    LET latest == GetApprovalForExecution(target[c]) IN
    /\ c \in RestCalls
    /\ pc[c] = "reload"
    /\ seen' = [seen EXCEPT ![c] = latest]
    /\ \/ /\ latest.status = "EXECUTING"
          /\ IF RetryAllowed(latest.executingAt, now[c])
             THEN Goto(c, "execute")
             ELSE Answer(c, "window")
       \/ latest.status # "EXECUTING" /\ Answer(c, "conflict")
    /\ UNCHANGED <<clock, storeVars, issued, target, cred, now, received,
                   answered, events>>

McpReload(c) ==
    LET latest == GetApprovalForExecution(target[c]) IN
    /\ c \in McpCalls
    /\ pc[c] = "reload"
    /\ seen' = [seen EXCEPT ![c] = latest]
    /\ \/ /\ latest.status # "EXECUTING"
          /\ Answer(c, "conflict")
       \/ /\ latest.status = "EXECUTING"
          /\ ~RetryAllowed(latest.executingAt, now[c])
          /\ Answer(c, "window")
       \/ /\ latest.status = "EXECUTING"
          /\ RetryAllowed(latest.executingAt, now[c])
          /\ Goto(c, "execute")
    /\ UNCHANGED <<clock, storeVars, issued, target, cred, now, received,
                   answered, events>>

-----------------------------------------------------------------------------

\* executeToolCall, and the same lookups in the MCP handler: the tool may be
\* missing or not configured, its credential unresolved or its host
\* unreachable; otherwise the upstream tool receives the request.
Execute(c) ==
    /\ pc[c] = "execute"
    /\ \/ /\ received' = received \cup {c}
          /\ Goto(c, "upstream")
       \/ /\ UNCHANGED received
          /\ Goto(c, "markFailed")
    /\ UNCHANGED <<clock, storeVars, issued, target, cred, seen, now,
                   answered, events>>

\* Slip: the error of the connector is not looked at.
UpstreamReplyUnchecked(c) ==
    /\ pc[c] = "upstream"
    /\ Goto(c, "markExecuted")
    /\ UNCHANGED answered \/ answered' = answered \cup {c}
    /\ UNCHANGED <<clock, storeVars, issued, target, cred, seen, now,
                   received, events>>

\* The connector returns a response, whatever its status, or an error or a
\* timeout, which does not tell whether the tool has acted on the request.
UpstreamReply(c) ==
    /\ pc[c] = "upstream"
    /\ \/ /\ answered' = answered \cup {c}
          /\ Goto(c, "markExecuted")
       \/ /\ UNCHANGED answered
          /\ Goto(c, "markFailed")
    /\ UNCHANGED <<clock, storeVars, issued, target, cred, seen, now,
                   received, events>>

\* Slip: the failure is answered but not stored.
MarkFailedSkipped(c) ==
    /\ pc[c] = "markFailed"
    /\ Answer(c, "upstream")
    /\ UNCHANGED <<clock, storeVars, issued, target, cred, seen, now,
                   received, answered, events>>

\* The result of MarkApprovalExecutionFailed is ignored.
MarkFailed(c) ==
    LET a == target[c] IN
    /\ pc[c] = "markFailed"
    /\ Answer(c, "upstream")
    /\ \/ MarkApprovalExecutionFailed(a)
       \/ /\ ~MarkableFailed(a) \/ "call" \in Faults
          /\ UNCHANGED columns
    /\ UNCHANGED <<clock, adrs, issued, target, cred, seen, now, received,
                   answered, events>>

MarkExecuted(c) ==
    LET a == target[c] IN
    /\ pc[c] = "markExecuted"
    /\ \/ /\ MarkApprovalExecuted(a, c)
          /\ Goto(c, "record")
       \/ /\ ~MarkableExecuted(a)
          /\ UNCHANGED columns
          /\ Answer(c, "conflict")
    /\ UNCHANGED <<clock, adrs, issued, target, cred, seen, now, received,
                   answered, events>>

\* InsertADR returns no error: its EXISTS query answered, or failed and the
\* insert succeeded all the same.
RecordADR(c) ==
    /\ pc[c] = "record"
    /\ Answer(c, "ok")
    /\ \/ InsertADR(target[c], c)
       \/ "call" \in Faults /\ InsertADRUnchecked(target[c], c)
    /\ UNCHANGED <<clock, columns, issued, target, cred, seen, now, received,
                   answered, events>>

\* InsertADR returns an error, which the MCP handler only logs.
RecordADRError(c) ==
    /\ "call" \in Faults
    /\ pc[c] = "record"
    /\ Answer(c, IF c \in McpCalls THEN "ok" ELSE "internal")
    /\ UNCHANGED adrs \/ InsertADR(target[c], c)
    /\ UNCHANGED <<clock, columns, issued, target, cred, seen, now, received,
                   answered, events>>

\* A store call that the handler answers with an internal error.
StoreError(c) ==
    LET a == target[c] IN
    /\ "call" \in Faults
    /\ Answer(c, "internal")
    /\ \/ /\ pc[c] \in {"idle", "reload", "claim", "markExecuted"}
          /\ UNCHANGED columns
       \/ pc[c] = "claim" /\ ClaimApprovalExecution(a, cred[c], now[c])
       \/ pc[c] = "markExecuted" /\ MarkApprovalExecuted(a, c)
    /\ UNCHANGED <<clock, adrs, issued, target, cred, seen, now, received,
                   answered, events>>

CallStep(c) ==
    \/ RestValidate(c) \/ McpValidate(c)
    \/ Expire(c) \/ Claim(c)
    \/ RestReload(c) \/ McpReload(c)
    \/ Execute(c) \/ UpstreamReply(c)
    \/ MarkFailed(c) \/ MarkExecuted(c) \/ RecordADR(c)

CallNext(c) ==
    \/ \E a \in Approvals, k \in Credentials : Load(c, a, k)
    \/ CallStep(c)
    \/ RecordADRError(c) \/ StoreError(c)
=============================================================================
