-------------------------- MODULE ApprovalInvariant --------------------------
(***************************************************************************)
(* The inductive invariant of the approval workflow.  The safety           *)
(* properties speak of calls and operators that have finished; to be       *)
(* preserved by every step they need what each request may rely on while   *)
(* it is between two of its steps, against everything the others do.       *)
(***************************************************************************)
EXTENDS ApprovalWorkflow

\* The request that creates an approval is the first to write its row and
\* its ADR, and sends the token after both.
CreatorOK(a) ==
    /\ creator[a] \in {"idle", "insert"} => status[a] = "NONE"
    /\ creator[a] # "done" => \A r \in adrs : r[1] # a
    /\ a \in issued => creator[a] = "done" /\ <<a, None>> \in adrs

CreatorInv == \A a \in Approvals : CreatorOK(a)

\* How the columns of a row go together.
RowOK(a) ==
    /\ status[a] \in Undecided => decidedBy[a] = None
    /\ status[a] \in Decisions \cup Claimed => decidedBy[a] # None
    /\ status[a] \in Claimed => /\ executingAt[a] # NoTime
                                /\ executingAt[a] < expiresAt[a]
    /\ executedBy[a] # None => status[a] = "EXECUTED"
    /\ status[a] = "EXECUTED" => /\ executedBy[a] \in answered
                                 /\ target[executedBy[a]] = a
    /\ status[a] = "EXPIRED" => clock >= expiresAt[a]

RowInv == \A a \in Approvals : RowOK(a)

\* A row read as EXECUTING or EXPIRED may have moved on since, but the claim
\* it was read with, or the expiry, is still the one in the store.
ViewInv(c) ==
    LET a == target[c] IN
    /\ seen[c].status = "EXECUTING" =>
          status[a] \in Claimed /\ seen[c].executingAt = executingAt[a]
    /\ seen[c].status = "EXPIRED" => status[a] = "EXPIRED"

\* The call may run the tool: it holds, or retries, the claim of its approval.
Admitted(c) ==
    LET a == target[c] IN
    /\ a \in Approvals
    /\ cred[c] = "valid"
    /\ status[a] \in Claimed
    /\ now[c] - executingAt[a] <= RetryWindow
    /\ now[c] <= expiresAt[a]

Running == {"execute", "upstream", "markFailed", "markExecuted", "record"}
AfterRun == {"upstream", "markFailed", "markExecuted", "record", "done"}

CallOK(c) ==
    /\ pc[c] \notin {"idle", "done"} => /\ target[c] \in Approvals
                                        /\ status[target[c]] # "NONE"
    /\ target[c] \in Approvals /\ cred[c] = "valid" => target[c] \in issued
    /\ pc[c] = "validate" => ViewInv(c)
    /\ pc[c] = "expire" => clock >= expiresAt[target[c]]
    /\ pc[c] \in {"claim", "reload"} => /\ cred[c] = "valid"
                                        /\ now[c] <= expiresAt[target[c]]
    /\ pc[c] \in Running \/ c \in received => Admitted(c)
    /\ c \in received => pc[c] \in AfterRun
    /\ pc[c] = "upstream" => c \in received
    /\ pc[c] = "markExecuted" => c \in answered
    /\ pc[c] = "record" \/ resp[c] = "ok" => /\ target[c] \in Approvals
                                             /\ executedBy[target[c]] = c
    /\ pc[c] = "idle" => resp[c] = "none"

CallInv == \A c \in Calls : CallOK(c)

AdminOK(x) ==
    /\ apc[x] \notin {"idle", "done"} => /\ subject[x] \in Approvals
                                         /\ status[subject[x]] # "NONE"
    /\ /\ apc[x] \in {"check", "expire", "decide"}
       /\ status[subject[x]] = "PENDING"
       => before[x] = "PENDING"
    /\ apc[x] = "expire" => clock >= expiresAt[subject[x]]
    /\ apc[x] \in {"decide", "audit"} => op[x] \in Decisions
    /\ apc[x] = "audit" => before[x] = "PENDING"
    /\ \/ apc[x] = "audit"
       \/ aresp[x] = "ok" /\ op[x] # "VIEW"
       => /\ subject[x] \in Approvals
          /\ decidedBy[subject[x]] = x
          /\ MayFollow(op[x], status[subject[x]])
    /\ apc[x] # "done" => aresp[x] = "none"

AdminInv == \A x \in Admins : AdminOK(x)

\* The scheduler marks no approval before its time.
SchedulerInv ==
    /\ snow <= clock
    /\ \A a \in overdue : status[a] # "NONE" /\ clock >= expiresAt[a]

\* The conjunction, with the audit trail, that every step preserves: it
\* relates what each request of the workflow has read and is about to do to
\* the rows of the store (handleApprovedToolCall, handleMCPApprovedCall,
\* handleApprovalDecision, ApprovalExpiryScheduler.run).
IndInv ==
    /\ TypeOK
    /\ CreatorInv
    /\ RowInv
    /\ CallInv
    /\ AdminInv
    /\ SchedulerInv
    /\ AuditFaithful
=============================================================================
