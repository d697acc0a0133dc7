-------------------------- MODULE ApprovalDecision ---------------------------
(***************************************************************************)
(* The other writers of an approval: the requests of operators to the      *)
(* admin API (handleApprovalApprove, Deny and Revoke, which all run        *)
(* handleApprovalDecision, and handleApprovalDetail) and the expiry        *)
(* scheduler, of which an advisory lock lets one run at a time.            *)
(* handleApprovalsList does to each row of its list what handleApproval-   *)
(* Detail does to one, so it is as many requests of that kind.             *)
(***************************************************************************)
EXTENDS ApprovedCall

CONSTANT ExpiringWindow     \* Window of the expiry scheduler

ASSUME ExpiringWindowAssumption == ExpiringWindow \in Nat

VARIABLES
    apc,            \* the next step of an admin request
    op,             \* the decision it asks for, or "VIEW"
    subject,        \* the approval it names, None before it starts
    before,         \* the status it has read first
    aresp,          \* what it was answered
    audits,         \* APPROVAL.REQUEST audit events
    spc,            \* the next step of the scheduler
    snow,           \* the time its run started, until the lists are read
    overdue         \* approvals its run has still to mark expired

adminVars == <<apc, op, subject, before, aresp, audits>>
schedulerVars == <<spc, snow, overdue>>

Ops == Decisions \cup {"VIEW"}

AuditEvents ==
    [by : Admins, approval : Approvals, op : Decisions,
     before : Statuses, after : Statuses]

DecisionTypeOK ==
    /\ apc \in [Admins -> {"idle", "check", "expire", "decide", "audit",
                           "done"}]
    /\ op \in [Admins -> Ops]
    /\ subject \in [Admins -> Approvals \cup {None}]
    /\ before \in [Admins -> Statuses]
    /\ aresp \in [Admins -> {"none", "ok", "missing", "expired", "conflict",
                             "internal"}]
    /\ audits \subseteq AuditEvents
    /\ spc \in {"idle", "list", "mark"}
    /\ snow \in 0..MaxClock
    /\ overdue \subseteq Approvals

DecisionInit ==
    /\ apc = [x \in Admins |-> "idle"]
    /\ op = [x \in Admins |-> "VIEW"]
    /\ subject = [x \in Admins |-> None]
    /\ before = [x \in Admins |-> "NONE"]
    /\ aresp = [x \in Admins |-> "none"]
    /\ audits = {}
    /\ spc = "idle"
    /\ snow = 0
    /\ overdue = {}

AdminGoto(x, label) ==
    /\ apc' = [apc EXCEPT ![x] = label]
    /\ UNCHANGED aresp

AdminAnswer(x, r) ==
    /\ apc' = [apc EXCEPT ![x] = "done"]
    /\ aresp' = [aresp EXCEPT ![x] = r]

-----------------------------------------------------------------------------
(* handleApprovalDecision and handleApprovalDetail *)

AdminLoad(x, a, o) ==
    /\ apc[x] = "idle"
    /\ subject' = [subject EXCEPT ![x] = a]
    /\ op' = [op EXCEPT ![x] = o]
    /\ before' = [before EXCEPT ![x] = status[a]]
    /\ IF status[a] = "NONE" THEN AdminAnswer(x, "missing")
                             ELSE AdminGoto(x, "check")
    /\ UNCHANGED <<clock, storeVars, issued, callVars, events, audits,
                   schedulerVars>>

\* Slip: a request that only shows the approval goes on to decide it.
AdminProceedAny(x) == AdminGoto(x, "decide")

\* What follows when the approval has not just been marked expired.
AdminProceed(x) ==
    IF op[x] = "VIEW" THEN AdminAnswer(x, "ok") ELSE AdminGoto(x, "decide")

AdminCheck(x) ==
    /\ apc[x] = "check"
    /\ IF ApprovalExpired(before[x], expiresAt[subject[x]], clock)
       THEN AdminGoto(x, "expire")
       ELSE AdminProceed(x)
    /\ UNCHANGED <<clock, storeVars, issued, callVars, events, op, subject,
                   before, audits, schedulerVars>>

\* An error of MarkApprovalExpired, ErrInvalidState or another, does not
\* stop the request: it goes on to the decision.
AdminExpire(x) ==
    LET a == subject[x] IN
    /\ apc[x] = "expire"
    /\ \/ /\ MarkApprovalExpired(a)
          /\ AdminAnswer(x, IF op[x] = "VIEW" THEN "ok" ELSE "expired")
       \/ /\ \/ ~MarkableExpired(a) /\ UNCHANGED columns
             \/ /\ "admin" \in Faults
                /\ UNCHANGED columns \/ MarkApprovalExpired(a)
          /\ AdminProceed(x)
    /\ UNCHANGED <<clock, adrs, issued, callVars, events, op, subject, before,
                   audits, schedulerVars>>

AdminDecide(x) ==
    LET a == subject[x] IN
    /\ apc[x] = "decide"
    /\ \/ /\ UpdateApprovalDecision(a, op[x], x)
          /\ AdminGoto(x, "audit")
       \/ /\ ~Decidable(a)
          /\ UNCHANGED columns
          /\ AdminAnswer(x, "conflict")
    /\ UNCHANGED <<clock, adrs, issued, callVars, events, op, subject, before,
                   audits, schedulerVars>>

\* emitAuditEvent, with the row read again for the "after" part; what could
\* be read earlier is also what an event written at once would hold.
InsertAuditEvent(x) ==
    audits' = audits \cup
        {[by |-> x, approval |-> subject[x], op |-> op[x],
          before |-> before[x], after |-> status[subject[x]]]}

\* The ticket update starts only once the event is stored.
AdminAudit(x) ==
    /\ apc[x] = "audit"
    /\ InsertAuditEvent(x)
    /\ Emit({"ticket_decided"}, subject[x])
    /\ AdminAnswer(x, "ok")
    /\ UNCHANGED <<clock, storeVars, issued, callVars, op, subject, before,
                   schedulerVars>>

\* A store call that the handler answers with an internal error, applied by
\* the database or not; after the decision it leaves the decision standing.
AdminError(x) ==
    /\ "admin" \in Faults
    /\ AdminAnswer(x, "internal")
    /\ \/ /\ apc[x] \in {"idle", "decide", "audit"}
          /\ UNCHANGED <<columns, audits>>
       \/ /\ apc[x] = "decide"
          /\ UpdateApprovalDecision(subject[x], op[x], x)
          /\ UNCHANGED audits
       \/ /\ apc[x] = "audit"
          /\ InsertAuditEvent(x)
          /\ UNCHANGED columns
    /\ UNCHANGED <<clock, adrs, issued, callVars, events, op, subject, before,
                   schedulerVars>>

AdminStep(x) ==
    AdminCheck(x) \/ AdminExpire(x) \/ AdminDecide(x) \/ AdminAudit(x)

AdminNext(x) ==
    \/ \E a \in Approvals, o \in Ops : AdminLoad(x, a, o)
    \/ AdminStep(x)
    \/ AdminError(x)

-----------------------------------------------------------------------------
(* ApprovalExpiryScheduler.run *)

\* ListApprovalsExpiring, and a notification for each row it returns.
SchedulerStart ==
    LET expiring ==
            {a \in Approvals :
                /\ MarkableExpired(a)
                /\ expiresAt[a] > clock
                /\ expiresAt[a] <= clock + ExpiringWindow}
    IN
    /\ spc = "idle"
    /\ spc' = "list"
    /\ snow' = clock
    /\ events' = events \cup
          (({"approval_expiring"} \cap Observed) \X expiring)
    /\ UNCHANGED <<clock, storeVars, issued, callVars, adminVars, overdue>>

\* Slip: only approvals that nobody has decided are listed.
SchedulerListPending ==
    /\ spc = "list"
    /\ overdue' =
          {a \in Approvals : status[a] = "PENDING" /\ expiresAt[a] <= snow}
    /\ spc' = IF overdue' = {} THEN "idle" ELSE "mark"
    /\ snow' = 0
    /\ UNCHANGED <<clock, storeVars, issued, callVars, adminVars, events>>

\* ListApprovalsExpired, with the time the run started.
SchedulerList ==
    /\ spc = "list"
    /\ overdue' =
          {a \in Approvals : MarkableExpired(a) /\ expiresAt[a] <= snow}
    /\ spc' = IF overdue' = {} THEN "idle" ELSE "mark"
    /\ snow' = 0
    /\ UNCHANGED <<clock, storeVars, issued, callVars, adminVars, events>>

\* Slip: the notices go out whether or not the row was marked.
SchedulerMarkUnchecked(a) ==
    /\ spc = "mark"
    /\ a \in overdue
    /\ overdue' = overdue \ {a}
    /\ spc' = IF overdue' = {} THEN "idle" ELSE "mark"
    /\ \/ MarkApprovalExpired(a)
       \/ ~MarkableExpired(a) /\ UNCHANGED columns
    /\ Emit({"approval_expired", "ticket_expired"}, a)
    /\ UNCHANGED <<clock, adrs, issued, callVars, adminVars, snow>>

\* The rows of the list are marked one by one; a row that is not PENDING or
\* APPROVED any more, or whose update fails, is passed over.
SchedulerMark(a) ==
    /\ spc = "mark"
    /\ a \in overdue
    /\ overdue' = overdue \ {a}
    /\ spc' = IF overdue' = {} THEN "idle" ELSE "mark"
    /\ \/ /\ MarkApprovalExpired(a)
          /\ Emit({"approval_expired", "ticket_expired"}, a)
       \/ /\ \/ ~MarkableExpired(a) /\ UNCHANGED columns
             \/ /\ "scheduler" \in Faults
                /\ UNCHANGED columns \/ MarkApprovalExpired(a)
          /\ UNCHANGED events
    /\ UNCHANGED <<clock, adrs, issued, callVars, adminVars, snow>>

\* A list query fails, or the gateway that runs the scheduler dies.
SchedulerAbort ==
    /\ "scheduler" \in Faults
    /\ spc # "idle"
    /\ spc' = "idle"
    /\ snow' = 0
    /\ overdue' = {}
    /\ UNCHANGED <<clock, storeVars, issued, callVars, adminVars, events>>

SchedulerStep ==
    SchedulerStart \/ SchedulerList \/ \E a \in Approvals : SchedulerMark(a)

SchedulerNext == SchedulerStep \/ SchedulerAbort
=============================================================================
