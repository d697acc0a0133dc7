-------------------------- MODULE ApprovalWorkflow ---------------------------
(***************************************************************************)
(* The approval workflow of the gateway: a tool call that policy answers   *)
(* with REQUIRE_APPROVAL creates a pending approval (below), operators     *)
(* decide it, the scheduler expires it, and the agent resubmits the call   *)
(* to have it executed.  All of them run concurrently and meet only in the *)
(* store.                                                                  *)
(***************************************************************************)
EXTENDS ApprovalDecision

VARIABLES
    creator,        \* the next step of the request that creates an approval
    draftExpiry     \* the expiry it has computed

creatorVars == <<creator, draftExpiry>>
vars == <<clock, storeVars, issued, callVars, events, adminVars,
          schedulerVars, creatorVars>>

TypeOK ==
    /\ StoreTypeOK
    /\ CallTypeOK
    /\ DecisionTypeOK
    /\ creator \in [Approvals -> {"idle", "insert", "record", "done"}]
    /\ draftExpiry \in [Approvals -> Nat]

Init ==
    /\ StoreInit
    /\ CallInit
    /\ DecisionInit
    /\ creator = [a \in Approvals |-> "idle"]
    /\ draftExpiry = [a \in Approvals |-> 0]

-----------------------------------------------------------------------------
(* The REQUIRE_APPROVAL branch of handleToolCall and handleToolsCall. *)

\* The bound keeps every expiry within reach of the clock.
RequireApproval(a, ttl) ==
    /\ creator[a] = "idle"
    /\ clock + ttl < MaxClock
    /\ creator' = [creator EXCEPT ![a] = "insert"]
    /\ draftExpiry' = [draftExpiry EXCEPT ![a] = clock + ttl]
    /\ UNCHANGED <<clock, storeVars, issued, callVars, events, adminVars,
                   schedulerVars>>

\* Slip: the agent is sent the token before the decision is recorded.
InsertApprovalEager(a) ==
    /\ creator[a] = "insert"
    /\ InsertApprovalRequest(a, draftExpiry[a])
    /\ creator' = [creator EXCEPT ![a] = "record"]
    /\ issued' = issued \cup {a}
    /\ UNCHANGED <<clock, adrs, callVars, events, adminVars, schedulerVars,
                   draftExpiry>>

InsertApproval(a) ==
    /\ creator[a] = "insert"
    /\ InsertApprovalRequest(a, draftExpiry[a])
    /\ creator' = [creator EXCEPT ![a] = "record"]
    /\ UNCHANGED <<clock, adrs, issued, callVars, events, adminVars,
                   schedulerVars, draftExpiry>>

\* The decision is recorded and the agent is sent the token; only the REST
\* handler starts the creation of a ticket.
RecordRequest(a, proto) ==
    /\ creator[a] = "record"
    /\ InsertADR(a, None)
    /\ creator' = [creator EXCEPT ![a] = "done"]
    /\ issued' = issued \cup {a}
    /\ IF proto = "REST" THEN Emit({"ticket_created"}, a)
                         ELSE UNCHANGED events
    /\ UNCHANGED <<clock, columns, callVars, adminVars, schedulerVars,
                   draftExpiry>>

\* A store call fails, applied or not: the agent never learns the token of
\* the approval.
CreateError(a) ==
    /\ "create" \in Faults
    /\ creator' = [creator EXCEPT ![a] = "done"]
    /\ \/ /\ creator[a] \in {"insert", "record"}
          /\ UNCHANGED <<columns, adrs>>
       \/ /\ creator[a] = "insert"
          /\ InsertApprovalRequest(a, draftExpiry[a])
          /\ UNCHANGED adrs
       \/ /\ creator[a] = "record"
          /\ InsertADR(a, None)
          /\ UNCHANGED columns
    /\ UNCHANGED <<clock, issued, callVars, events, adminVars, schedulerVars,
                   draftExpiry>>

CreateStep(a) ==
    \/ InsertApproval(a)
    \/ \E proto \in {"REST", "MCP"} : RecordRequest(a, proto)

CreateNext(a) ==
    \/ \E ttl \in TTLs : RequireApproval(a, ttl)
    \/ CreateStep(a)
    \/ CreateError(a)

-----------------------------------------------------------------------------

Tick ==
    /\ clock < MaxClock
    /\ clock' = clock + 1
    /\ UNCHANGED <<storeVars, issued, callVars, events, adminVars,
                   schedulerVars, creatorVars>>

Next ==
    \/ Tick
    \/ \E a \in Approvals : CreateNext(a)
    \/ \E c \in Calls : /\ CallNext(c)
                        /\ UNCHANGED <<adminVars, schedulerVars, creatorVars>>
    \/ \E x \in Admins : AdminNext(x) /\ UNCHANGED creatorVars
    \/ SchedulerNext /\ UNCHANGED creatorVars

Spec == Init /\ [][Next]_vars

\* Handlers run to completion, the ticker of the scheduler and time go on.
\* A connector returns within its timeout, so an upstream reply, or the
\* error that stands for it, always comes.
HandlerFairness ==
    /\ \A c \in Calls :
          WF_vars(CallStep(c) /\ UNCHANGED <<adminVars, schedulerVars,
                                            creatorVars>>)
    /\ \A x \in Admins : WF_vars(AdminStep(x) /\ UNCHANGED creatorVars)
    /\ \A a \in Approvals : WF_vars(CreateStep(a))

SchedulerFairness ==
    /\ WF_vars(SchedulerStep /\ UNCHANGED creatorVars)
    /\ WF_vars(Tick)

\* Handlers may stop at any point; only the scheduler is kept running.
SchedulerSpec == Spec /\ SchedulerFairness

FairSpec == Spec /\ SchedulerFairness /\ HandlerFairness

-----------------------------------------------------------------------------
(* Safety *)

\* The upstream tool receives a call only with the token and the request
\* hash of an approval that an operator has decided and some request has
\* claimed: never under one that is pending, denied, revoked or expired,
\* then or later (ClaimApprovalExecution, MarkApprovalExpired, and the
\* switch on the status read in handleApprovedToolCall).
RunOnlyUnderClaim ==
    \A c \in received :
        /\ cred[c] = "valid"
        /\ status[target[c]] \in Claimed
        /\ decidedBy[target[c]] # None

\* A call reaches the tool only if the time it took is at most the retry
\* window after the claim and not past the expiry of the approval, and the
\* claim was made before that expiry (approvalRetryAllowed,
\* ClaimApprovalExecution), although the status it acts on may be stale.
RunWithinWindow ==
    \A c \in received :
        LET a == target[c] IN
        /\ executingAt[a] # NoTime
        /\ now[c] - executingAt[a] <= RetryWindow
        /\ now[c] <= expiresAt[a]
        /\ executingAt[a] < expiresAt[a]

\* At most one resubmission of an approval is answered with success, however
\* many of them have run the tool (MarkApprovalExecuted).
SingleSuccess ==
    \A c, d \in Calls :
        resp[c] = "ok" /\ resp[d] = "ok" /\ target[c] = target[d] => c = d

\* An approval recorded as EXECUTED names a request for that approval to
\* which the upstream tool has answered (handleApprovedToolCall calls
\* MarkApprovalExecuted after the tool only; what the answer says, an HTTP
\* error included, it does not look at).
ExecutedIsReal ==
    \A a \in Approvals :
        status[a] = "EXECUTED" =>
            /\ executedBy[a] \in answered
            /\ target[executedBy[a]] = a

\* The statuses an approval may have once it was decided.
MayFollow(decision, s) ==
    \/ s = decision
    \/ decision = "APPROVED" /\ s \in {"EXPIRED"} \cup Claimed

\* Of the operators that decide an approval one is answered with success,
\* and what it was told stays true: a denial or a revocation for good, a
\* grant until the approval expires or is claimed (updateApprovalDecision).
DecisionStands ==
    \A x \in Admins :
        aresp[x] = "ok" /\ op[x] # "VIEW" =>
            /\ decidedBy[subject[x]] = x
            /\ MayFollow(op[x], status[subject[x]])

\* The audit event of a decision tells the truth although its two halves are
\* read at different times: before it the approval was PENDING, after it the
\* status is the decision or what may follow it (handleApprovalDecision).
AuditFaithful ==
    \A e \in audits :
        /\ e.before = "PENDING"
        /\ decidedBy[e.approval] = e.by
        /\ MayFollow(e.op, e.after)

\* No approval is marked EXPIRED before its time: MarkApprovalExpired does
\* not compare expires_at, so each of its callers has to.
NoEarlyExpiry ==
    \A a \in Approvals : status[a] = "EXPIRED" => clock >= expiresAt[a]

\* The tool runs under an approval only if the decision to ask for approval
\* was recorded: the agent gets the token after InsertADR has returned.
RunHasEvidence ==
    \A c \in received : <<target[c], None>> \in adrs

\* A call that is told its approval has expired leaves nothing to claim or
\* decide behind, when its store calls succeed (MarkApprovalExpired in
\* handleApprovedToolCall).
ExpiredIsFinal ==
    \A c \in Calls :
        resp[c] = "expired" =>
            status[target[c]] \notin {"PENDING", "APPROVED"}

\* The outside world is told only what is so: a notice or a ticket update of
\* an expiry means that the approval is EXPIRED for good, a ticket update of
\* a decision that the decision is in the audit trail
\* (ApprovalExpiryScheduler.run, handleApprovalDecision).
EventsAreTrue ==
    \A a \in Approvals :
        /\ \A kind \in {"approval_expired", "ticket_expired"} :
              <<kind, a>> \in events => status[a] = "EXPIRED"
        /\ <<"ticket_decided", a>> \in events
              => \E e \in audits : e.approval = a /\ e.by = decidedBy[a]

Lifecycle == INSTANCE ApprovalLifecycle
    WITH state <- status,
         ran <- {target[c] : c \in received},
         answered <- {target[c] : c \in answered}

\* Requests, retries, failures and the scheduler together move an approval
\* only along its lifecycle.
LifecycleSpec == Lifecycle!Spec

-----------------------------------------------------------------------------
(* Liveness *)

\* Every approval is resolved: one that nobody decides or executes is marked
\* EXPIRED by the scheduler, whatever the handlers do
\* (ApprovalExpiryScheduler.run).
OverdueResolved ==
    \A a \in Approvals :
        status[a] \in {"PENDING", "APPROVED"}
            ~> status[a] \notin {"PENDING", "APPROVED"}

\* A claimed approval ends EXECUTED or FAILED, if the calls that run it are
\* not cut short (handleApprovedToolCall).
ClaimResolved ==
    \A a \in Approvals :
        status[a] = "EXECUTING" ~> status[a] \in {"EXECUTED", "FAILED"}

-----------------------------------------------------------------------------
(* What documents say of the workflow and the code does not do. *)

\* GOAL.md: no call runs the tool again once it has answered one under the
\* same approval (the EXECUTING branches of the handlers).
NoRerunAfterSuccess ==
    [][\A c \in received' \ received :
          \A d \in answered : target[d] # target[c]']_vars

\* The end-to-end test: the ADR of an execution is stored before the call is
\* answered (InsertADR in handleApprovedToolCall).
ExecutionRecorded ==
    \A c \in Calls : resp[c] = "ok" => <<target[c], c>> \in adrs

\* OnApprovalExpired: the linked ticket is updated when an approval expires,
\* whoever marks it (the callers of MarkApprovalExpired).
ExpiryReachesTicket ==
    \A a \in Approvals :
        status[a] = "EXPIRED" ~> <<"ticket_expired", a>> \in events

\* README.md: within the retry window a failed execution can be retried, so
\* no call is refused because the approval is FAILED (the switch on the
\* status in handleApprovedToolCall).
RetryAfterFailure ==
    \A c \in Calls :
        ~ /\ resp[c] = "conflict"
          /\ seen[c].status = "FAILED"
          /\ RetryAllowed(seen[c].executingAt, now[c])
=============================================================================
