---------------------- MODULE ApprovalWorkflow_proofs -----------------------
(***************************************************************************)
(* The safety properties of the approval workflow, for any sets of         *)
(* approvals, calls and operators, any lifetimes and retry window, and     *)
(* with every kind of fault.  IndInv holds initially and every step        *)
(* preserves it: first the steps of a call with an approval, then those of *)
(* the operators, the scheduler, the creating request and the clock.  The  *)
(* properties of the events, the expired approvals and the refinement of   *)
(* ApprovalLifecycle follow from IndInv.                                   *)
(***************************************************************************)
EXTENDS ApprovalInvariant, TLAPS

-----------------------------------------------------------------------------
(* Every step of a call with an approval preserves the invariant.  Each SQL *)
(* statement moves a row in a way that requests which are between two of   *)
(* their steps can rely on (Reliable): a claim is never taken back, a      *)
(* decision never replaced, an expiry time never changed.  So a step of    *)
(* one request preserves what the invariant says of all the others, and    *)
(* what is left is the row it writes and its own state.                    *)

\* What a step may do to the row of an approval.
ReliableRow(a) ==
    /\ status[a] # "NONE" => /\ status'[a] # "NONE"
                             /\ expiresAt'[a] = expiresAt[a]
    /\ status'[a] = "PENDING" => status[a] \in Undecided
    /\ status[a] \in Claimed => /\ status'[a] \in Claimed
                                /\ executingAt'[a] = executingAt[a]
    /\ status[a] = "EXPIRED" => status'[a] = "EXPIRED"
    /\ decidedBy[a] # None => decidedBy'[a] = decidedBy[a]
    /\ executedBy[a] # None => executedBy'[a] = executedBy[a]
    /\ status[a] \in {"DENIED", "REVOKED"} => status'[a] = status[a]
    /\ status[a] = "APPROVED" =>
          status'[a] \in {"APPROVED", "EXPIRED"} \cup Claimed

ReliableRows == \A a \in Approvals : ReliableRow(a)

\* No step but the insertion of an approval makes a row exist.
NoNewRow == \A a \in Approvals : status[a] = "NONE" => status'[a] = "NONE"

Reliable ==
    /\ clock <= clock'
    /\ issued \subseteq issued'
    /\ ReliableRows

-----------------------------------------------------------------------------
(* The SQL statements keep what the requests rely on. *)

LEMMA UnchangedReliable ==
    ASSUME TypeOK, UNCHANGED columns
    PROVE  ReliableRows /\ NoNewRow
BY DEF TypeOK, StoreTypeOK, columns, ReliableRows, ReliableRow, NoNewRow,
       Undecided, Claimed

LEMMA InsertReliable ==
    ASSUME TypeOK, RowInv, NEW a \in Approvals, NEW e \in Nat,
           status[a] = "NONE", InsertApprovalRequest(a, e)
    PROVE  ReliableRows
BY DEF TypeOK, StoreTypeOK, InsertApprovalRequest, ReliableRows, ReliableRow,
       RowInv, RowOK, Undecided, Claimed

LEMMA DecideReliable ==
    ASSUME TypeOK, RowInv, NEW a \in Approvals, NEW d \in Decisions,
           NEW x \in Admins, UpdateApprovalDecision(a, d, x)
    PROVE  ReliableRows /\ NoNewRow
BY DEF TypeOK, StoreTypeOK, UpdateApprovalDecision, Decidable, ReliableRows,
       ReliableRow, NoNewRow, RowInv, RowOK, Undecided, Claimed, Decisions

LEMMA ClaimReliable ==
    ASSUME TypeOK, NEW a \in Approvals, NEW k, NEW t \in 0..MaxClock,
           ClaimApprovalExecution(a, k, t)
    PROVE  ReliableRows /\ NoNewRow
BY DEF TypeOK, StoreTypeOK, ClaimApprovalExecution, Claimable, ReliableRows,
       ReliableRow, NoNewRow, Undecided, Claimed

LEMMA ExecutedReliable ==
    ASSUME TypeOK, RowInv, NEW a \in Approvals, NEW c \in Calls,
           MarkApprovalExecuted(a, c)
    PROVE  ReliableRows /\ NoNewRow
BY DEF TypeOK, StoreTypeOK, MarkApprovalExecuted, MarkableExecuted,
       ReliableRows, ReliableRow, NoNewRow, Undecided, Claimed

LEMMA FailedReliable ==
    ASSUME TypeOK, RowInv, NEW a \in Approvals, MarkApprovalExecutionFailed(a)
    PROVE  ReliableRows /\ NoNewRow
BY DEF TypeOK, StoreTypeOK, MarkApprovalExecutionFailed, MarkableFailed,
       ReliableRows, ReliableRow, NoNewRow, Undecided, Claimed

LEMMA ExpiredReliable ==
    ASSUME TypeOK, NEW a \in Approvals, MarkApprovalExpired(a)
    PROVE  ReliableRows /\ NoNewRow
BY DEF TypeOK, StoreTypeOK, MarkApprovalExpired, MarkableExpired,
       ReliableRows, ReliableRow, NoNewRow, Undecided, Claimed

-----------------------------------------------------------------------------
(* The requests that take no part in a step keep their invariant. *)

SameCall(c) ==
    /\ pc'[c] = pc[c] /\ target'[c] = target[c] /\ cred'[c] = cred[c]
    /\ seen'[c] = seen[c] /\ now'[c] = now[c] /\ resp'[c] = resp[c]
    /\ c \in received' <=> c \in received
    /\ c \in answered' <=> c \in answered

SameAdmin(x) ==
    /\ apc'[x] = apc[x] /\ op'[x] = op[x] /\ subject'[x] = subject[x]
    /\ before'[x] = before[x] /\ aresp'[x] = aresp[x]

LEMMA CallFrame ==
    ASSUME TypeOK, TypeOK', Reliable, NEW c \in Calls, CallOK(c), SameCall(c)
    PROVE  CallOK(c)'
<1> DEFINE a == target[c]
<1>1. CASE a \in Approvals
    <2>1. ReliableRow(a) /\ a \in Approvals /\ c # None
        BY <1>1, ConstantsAssumption DEF Reliable, ReliableRows
    <2>2. Admitted(c) => Admitted(c)'
        BY <2>1, Zenon DEF Admitted, ReliableRow, Claimed, SameCall
    <2>3. ViewInv(c) => ViewInv(c)'
        BY <2>1 DEF ViewInv, ReliableRow, SameCall
    <2>4. /\ clock \in Int /\ clock' \in Int /\ clock <= clock'
          /\ expiresAt[a] \in Int
        BY <1>1, ConstantsAssumption DEF TypeOK, StoreTypeOK, Reliable
    <2> QED
        BY <2>1, <2>2, <2>3, <2>4 DEF CallOK, ReliableRow, Reliable, SameCall
<1>2. CASE a \notin Approvals
    BY <1>2, Zenon DEF CallOK, Admitted, Running, AfterRun, SameCall
<1> QED BY <1>1, <1>2

LEMMA AdminFrame ==
    ASSUME TypeOK, TypeOK', Reliable, NEW x \in Admins, AdminOK(x),
           SameAdmin(x)
    PROVE  AdminOK(x)'
<1> DEFINE a == subject[x]
<1>1. CASE a \in Approvals
    BY <1>1, ConstantsAssumption
    DEF TypeOK, StoreTypeOK, DecisionTypeOK, Reliable, ReliableRows,
        ReliableRow, AdminOK, SameAdmin, MayFollow, Ops, Undecided, Claimed,
        Decisions
<1>2. CASE a \notin Approvals
    BY <1>2, Zenon DEF AdminOK, SameAdmin
<1> QED BY <1>1, <1>2

LEMMA SchedulerFrame ==
    ASSUME TypeOK, TypeOK', Reliable, SchedulerInv,
           snow' = snow, overdue' = overdue
    PROVE  SchedulerInv'
BY DEF TypeOK, StoreTypeOK, DecisionTypeOK, Reliable, ReliableRows,
       ReliableRow, SchedulerInv

LEMMA AuditFrame ==
    ASSUME TypeOK, Reliable, AuditFaithful, audits' = audits
    PROVE  AuditFaithful'
<1> SUFFICES ASSUME NEW e \in audits
             PROVE  /\ e.before = "PENDING" /\ decidedBy'[e.approval] = e.by
                    /\ MayFollow(e.op, e.after)
    BY Zenon DEF AuditFaithful
<1>1. /\ e.before = "PENDING" /\ decidedBy[e.approval] = e.by
      /\ MayFollow(e.op, e.after)
    BY Zenon DEF AuditFaithful
<1>2. e.approval \in Approvals /\ e.by \in Admins
    BY Zenon DEF TypeOK, DecisionTypeOK, AuditEvents
<1>3. decidedBy'[e.approval] = decidedBy[e.approval]
    BY <1>1, <1>2, ConstantsAssumption, Zenon
    DEF Reliable, ReliableRows, ReliableRow
<1> QED BY <1>1, <1>3, Zenon

LEMMA CreatorFrame ==
    ASSUME CreatorInv, NoNewRow, creator' = creator, adrs' = adrs,
           issued' = issued
    PROVE  CreatorInv'
BY DEF CreatorInv, CreatorOK, NoNewRow

-----------------------------------------------------------------------------
(* The statements keep the columns of a row together. *)

\* Calls keep their approval and their answer once the tool has answered.
AnswersKept ==
    /\ answered \subseteq answered'
    /\ \A c \in answered : target'[c] = target[c]

LEMMA RowFrame ==
    ASSUME TypeOK, TypeOK', AnswersKept, clock <= clock', RowInv,
           UNCHANGED columns
    PROVE  RowInv'
BY DEF TypeOK, StoreTypeOK, AnswersKept, RowInv, RowOK, columns

LEMMA InsertRow ==
    ASSUME TypeOK, TypeOK', AnswersKept, clock' = clock, RowInv,
           NEW a \in Approvals, status[a] = "NONE", NEW e \in Nat,
           InsertApprovalRequest(a, e)
    PROVE  RowInv'
BY DEF TypeOK, StoreTypeOK, AnswersKept, RowInv, RowOK, InsertApprovalRequest,
       Undecided, Decisions, Claimed

LEMMA DecideRow ==
    ASSUME TypeOK, TypeOK', AnswersKept, clock' = clock, RowInv,
           NEW a \in Approvals, NEW d \in Decisions, NEW x \in Admins,
           UpdateApprovalDecision(a, d, x)
    PROVE  RowInv'
BY ConstantsAssumption
DEF TypeOK, StoreTypeOK, AnswersKept, RowInv, RowOK, UpdateApprovalDecision,
    Decidable, Undecided, Decisions, Claimed

LEMMA ClaimRow ==
    ASSUME TypeOK, TypeOK', AnswersKept, clock' = clock, RowInv,
           NEW a \in Approvals, NEW k, NEW t \in 0..MaxClock,
           ClaimApprovalExecution(a, k, t)
    PROVE  RowInv'
BY DEF TypeOK, StoreTypeOK, AnswersKept, RowInv, RowOK,
       ClaimApprovalExecution, Claimable, Undecided, Decisions, Claimed,
       NoTime

LEMMA ExecutedRow ==
    ASSUME TypeOK, TypeOK', AnswersKept, clock' = clock, RowInv,
           NEW a \in Approvals, NEW c \in answered, target[c] = a,
           MarkApprovalExecuted(a, c)
    PROVE  RowInv'
BY DEF TypeOK, StoreTypeOK, AnswersKept, RowInv, RowOK, MarkApprovalExecuted,
       MarkableExecuted, Undecided, Decisions, Claimed

LEMMA FailedRow ==
    ASSUME TypeOK, TypeOK', AnswersKept, clock' = clock, RowInv,
           NEW a \in Approvals, MarkApprovalExecutionFailed(a)
    PROVE  RowInv'
BY DEF TypeOK, StoreTypeOK, AnswersKept, RowInv, RowOK,
       MarkApprovalExecutionFailed, MarkableFailed, Undecided, Decisions,
       Claimed

LEMMA ExpiredRow ==
    ASSUME TypeOK, TypeOK', AnswersKept, clock' = clock, RowInv,
           NEW a \in Approvals, clock >= expiresAt[a], MarkApprovalExpired(a)
    PROVE  RowInv'
BY DEF TypeOK, StoreTypeOK, AnswersKept, RowInv, RowOK, MarkApprovalExpired,
       MarkableExpired, Undecided, Decisions, Claimed

-----------------------------------------------------------------------------
(* The steps of a call with an approval.                                   *)

\* Most leaves are first-order: Zenon is told to prove them, and SMT only
\* where there is arithmetic or a record to type.
USE ZenonT(30)

\* What the steps below use of the inductive invariant.
LEMMA IndParts ==
    ASSUME IndInv
    PROVE  /\ TypeOK /\ StoreTypeOK /\ RowInv /\ CreatorInv
           /\ SchedulerInv /\ AuditFaithful
           /\ clock \in 0..MaxClock /\ clock \in Int /\ clock <= clock
<1>1. TypeOK /\ StoreTypeOK /\ clock \in 0..MaxClock
    BY DEF IndInv, TypeOK, StoreTypeOK
<1>2. clock \in Int /\ clock <= clock
    BY ONLY <1>1, SMTT(30)
<1> QED BY <1>1, <1>2 DEF IndInv

LEMMA CallParts ==
    ASSUME IndInv, NEW c \in Calls
    PROVE  /\ CallOK(c)
           /\ pc[c] \notin {"idle", "done"} => target[c] \in Approvals
           /\ pc[c] = "expire" => clock >= expiresAt[target[c]]
           /\ pc[c] = "markExecuted" => c \in answered
           /\ now[c] \in 0..MaxClock
<1>1. CallOK(c) /\ now[c] \in 0..MaxClock
    BY DEF IndInv, CallInv, TypeOK, CallTypeOK
<1> QED BY <1>1 DEF CallOK

LEMMA AdminParts ==
    ASSUME IndInv, NEW x \in Admins
    PROVE  /\ AdminOK(x)
           /\ apc[x] \notin {"idle", "done"} => subject[x] \in Approvals
           /\ apc[x] = "expire" => clock >= expiresAt[subject[x]]
           /\ apc[x] \in {"decide", "audit"} => op[x] \in Decisions
<1>1. AdminOK(x)
    BY DEF IndInv, AdminInv
<1> QED BY <1>1 DEF AdminOK

\* The statements keep the types of the columns.
LEMMA DecisionType ==
    ASSUME StoreTypeOK, NEW a \in Approvals, NEW d \in Decisions,
           NEW x \in Admins, UpdateApprovalDecision(a, d, x),
           UNCHANGED <<clock, adrs>>
    PROVE  StoreTypeOK'
<1>1. d \in Statuses /\ x \in Admins \cup {None}
    BY DEF Statuses
<1>2. /\ status' \in [Approvals -> Statuses]
      /\ decidedBy' \in [Approvals -> Admins \cup {None}]
    BY <1>1 DEF UpdateApprovalDecision, StoreTypeOK
<1> QED BY <1>2 DEF UpdateApprovalDecision, StoreTypeOK

LEMMA ClaimType ==
    ASSUME StoreTypeOK, NEW a \in Approvals, NEW k, NEW t \in 0..MaxClock,
           ClaimApprovalExecution(a, k, t), UNCHANGED <<clock, adrs>>
    PROVE  StoreTypeOK'
<1>1. "EXECUTING" \in Statuses
    BY DEF Statuses
<1>2. t \in Nat \cup {NoTime}
    BY ONLY t \in 0..MaxClock, SMTT(30)
<1>3. /\ status' \in [Approvals -> Statuses]
      /\ executingAt' \in [Approvals -> Nat \cup {NoTime}]
    BY <1>1, <1>2 DEF ClaimApprovalExecution, StoreTypeOK
<1> QED BY <1>3 DEF ClaimApprovalExecution, StoreTypeOK

LEMMA ExecutedType ==
    ASSUME StoreTypeOK, NEW a \in Approvals, NEW c \in Calls,
           MarkApprovalExecuted(a, c), UNCHANGED <<clock, adrs>>
    PROVE  StoreTypeOK'
<1>1. "EXECUTED" \in Statuses /\ c \in Calls \cup {None}
    BY DEF Statuses
<1>2. /\ status' \in [Approvals -> Statuses]
      /\ executedBy' \in [Approvals -> Calls \cup {None}]
    BY <1>1 DEF MarkApprovalExecuted, StoreTypeOK
<1> QED BY <1>2 DEF MarkApprovalExecuted, StoreTypeOK

LEMMA InsertType ==
    ASSUME StoreTypeOK, NEW a \in Approvals, NEW t \in Nat,
           InsertApprovalRequest(a, t), UNCHANGED <<clock, adrs>>
    PROVE  StoreTypeOK'
<1>1. "PENDING" \in Statuses
    BY DEF Statuses, Undecided
<1>2. /\ status' \in [Approvals -> Statuses]
      /\ expiresAt' \in [Approvals -> Nat]
    BY <1>1 DEF InsertApprovalRequest, StoreTypeOK
<1> QED BY <1>2 DEF InsertApprovalRequest, StoreTypeOK

LEMMA SameColumnsType ==
    ASSUME StoreTypeOK, UNCHANGED <<columns, clock, adrs>>
    PROVE  StoreTypeOK'
BY DEF StoreTypeOK, columns

LEMMA CallStepInv ==
    ASSUME IndInv, TypeOK', Reliable, NEW c \in Calls,
           \A d \in Calls \ {c} : SameCall(d),
           UNCHANGED <<adminVars, schedulerVars>>,
           RowInv', CreatorInv', CallOK(c)'
    PROVE  IndInv'
<1>1. CallInv'
    <2>1. \A d \in Calls \ {c} : CallOK(d)'
        BY CallFrame DEF IndInv, CallInv
    <2> QED BY <2>1 DEF CallInv
<1>2. AdminInv'
    <2>1. \A x \in Admins : SameAdmin(x)
        BY DEF SameAdmin, adminVars
    <2>2. \A x \in Admins : AdminOK(x)'
        BY <2>1, AdminFrame DEF IndInv, AdminInv
    <2> QED BY <2>2 DEF AdminInv
<1>3. SchedulerInv'
    BY SchedulerFrame DEF IndInv, schedulerVars
<1>4. AuditFaithful'
    BY AuditFrame DEF IndInv, adminVars
<1> QED BY <1>1, <1>2, <1>3, <1>4 DEF IndInv

\* The steps of a call that read the store, or do not use it.
LEMMA ReadStepInv ==
    ASSUME IndInv, TypeOK', NEW c \in Calls, AnswersKept,
           \A d \in Calls \ {c} : SameCall(d),
           UNCHANGED <<clock, storeVars, issued, adminVars, schedulerVars,
                       creatorVars>>,
           CallOK(c)'
    PROVE  IndInv'
<1>1. TypeOK /\ RowInv /\ CreatorInv /\ clock \in Int
    BY SMTT(30) DEF IndInv, TypeOK, StoreTypeOK
<1>2. ReliableRows /\ NoNewRow
    BY <1>1, UnchangedReliable DEF storeVars
<1>3. Reliable
    BY SMTT(30), <1>1, <1>2 DEF Reliable
<1>4. RowInv'
    BY SMTT(30), <1>1, RowFrame DEF storeVars
<1>5. CreatorInv'
    BY <1>1, <1>2, CreatorFrame DEF creatorVars, storeVars
<1> QED BY <1>3, <1>4, <1>5, CallStepInv

\* What a call reads of a row.
LEMMA ViewType ==
    ASSUME StoreTypeOK, NEW a \in Approvals
    PROVE  GetApprovalForExecution(a) \in Views
<1>1. status[a] \in Statuses /\ executingAt[a] \in Nat \cup {NoTime}
    BY DEF StoreTypeOK
<1> QED BY ONLY <1>1, SMTT(30) DEF GetApprovalForExecution, Views

\* What a call leaves alone keeps its type.
LEMMA CallStepType ==
    ASSUME TypeOK, StoreTypeOK', CallTypeOK',
           UNCHANGED <<adminVars, schedulerVars, creatorVars>>
    PROVE  TypeOK'
BY DEF TypeOK, DecisionTypeOK, adminVars, schedulerVars, creatorVars

LEMMA EmitType ==
    ASSUME TypeOK, NEW kinds, NEW a \in Approvals, Emit(kinds, a)
    PROVE  events' \subseteq EventKinds \X Approvals
<1>1. (kinds \cap Observed) \X {a} \subseteq EventKinds \X Approvals
    BY FaultsAssumption
<1> QED BY <1>1 DEF Emit, TypeOK, CallTypeOK

LEMMA LoadInv ==
    ASSUME IndInv, NEW c \in Calls, NEW a \in Approvals,
           NEW k \in Credentials, Load(c, a, k),
           UNCHANGED <<adminVars, schedulerVars, creatorVars>>
    PROVE  IndInv'
<1>1. TypeOK /\ CallOK(c)
    BY DEF IndInv, CallInv
<1>2. TypeOK'
    <2>1. events' \subseteq EventKinds \X Approvals
        BY <1>1, EmitType DEF Load, TypeOK, CallTypeOK
    <2>2. seen' \in [Calls -> Views]
      <3>1. GetApprovalForExecution(a) \in Views
          BY IndParts, ViewType
      <3> QED BY <1>1, <3>1 DEF Load, TypeOK, CallTypeOK
    <2>3. CallTypeOK'
        BY <1>1, <2>1, <2>2
        DEF Load, Goto, Answer, TypeOK, CallTypeOK, PCs, Responses
    <2> QED
        BY <1>1, <2>3, CallStepType
        DEF Load, TypeOK, StoreTypeOK, storeVars, columns
<1>3. c \notin received /\ c \notin answered
    BY <1>1 DEF Load, CallOK, AfterRun, TypeOK, CallTypeOK
<1>4. AnswersKept
    BY <1>1, <1>3 DEF Load, AnswersKept, TypeOK, CallTypeOK
<1>5. CallOK(c)'
    <2>1. /\ target'[c] = a /\ cred'[c] = k /\ resp[c] = "none"
          /\ UNCHANGED <<clock, status, expiresAt, executingAt, executedBy,
                         issued, now, received, answered>>
          /\ k # "wrongToken" => a \in issued
        BY <1>1 DEF Load, CallOK, TypeOK, CallTypeOK, storeVars, columns
    <2>2. \/ /\ pc'[c] = "validate" /\ status[a] # "NONE" /\ resp'[c] = "none"
             /\ seen'[c] = GetApprovalForExecution(a)
          \/ pc'[c] = "done" /\ resp'[c] = "invalid"
        BY <1>1, <2>1 DEF Load, Goto, Answer, TypeOK, CallTypeOK
    <2>3. pc'[c] = "validate" => ViewInv(c)'
        <3>1. /\ GetApprovalForExecution(a).status = status[a]
              /\ GetApprovalForExecution(a).executingAt = executingAt[a]
            BY DEF GetApprovalForExecution
        <3> QED BY <2>1, <2>2, <3>1 DEF ViewInv, Claimed
    <2> QED BY <1>3, <2>1, <2>2, <2>3 DEF CallOK, Running
<1>6. \A d \in Calls \ {c} : SameCall(d)
    BY <1>1 DEF Load, Goto, Answer, SameCall, TypeOK, CallTypeOK
<1> QED BY <1>2, <1>4, <1>5, <1>6, ReadStepInv DEF Load

LEMMA ValidateInv ==
    ASSUME IndInv, NEW c \in Calls, RestValidate(c) \/ McpValidate(c),
           UNCHANGED <<adminVars, schedulerVars, creatorVars>>
    PROVE  IndInv'
<1> DEFINE a == target[c]
<1>1. /\ TypeOK /\ CallOK(c) /\ RowOK(a)
      /\ a \in Approvals /\ clock \in 0..MaxClock
    BY DEF IndInv, CallInv, CallOK, RowInv, TypeOK, StoreTypeOK, RestValidate,
           McpValidate
<1>2. TypeOK'
    <2>1. events' \subseteq EventKinds \X Approvals
        BY <1>1, EmitType DEF RestValidate, McpValidate, TypeOK, CallTypeOK
    <2>2. now' \in [Calls -> 0..MaxClock]
        BY <1>1 DEF RestValidate, McpValidate, TypeOK, CallTypeOK
    <2>3. pc' \in [Calls -> PCs] /\ resp' \in [Calls -> Responses]
        BY <1>1 DEF RestValidate, McpValidate, Dispatch, Goto, Answer, TypeOK,
                    CallTypeOK, PCs, Responses
    <2> QED
        BY <1>1, <2>1, <2>2, <2>3
        DEF RestValidate, McpValidate, TypeOK, StoreTypeOK, CallTypeOK,
            DecisionTypeOK, storeVars, columns, adminVars, schedulerVars,
            creatorVars
<1>3. AnswersKept
    BY DEF RestValidate, McpValidate, AnswersKept
<1>4. \A d \in Calls \ {c} : SameCall(d)
    BY <1>1 DEF RestValidate, McpValidate, Dispatch, Goto, Answer, SameCall,
                TypeOK, CallTypeOK
<1>5. UNCHANGED <<clock, storeVars, issued, target, cred, seen, received,
                  answered>>
    BY DEF RestValidate, McpValidate
<1>6. CallOK(c)'
    <2>0. pc[c] = "validate" /\ c \notin received
        BY <1>1 DEF RestValidate, McpValidate, CallOK, AfterRun
    <2>1. CASE \E r \in Responses \ {"ok"} : Answer(c, r)
        BY <1>1, <1>5, <2>0, <2>1
        DEF Answer, CallOK, Running, TypeOK, CallTypeOK, storeVars, columns
    <2>2. CASE /\ Goto(c, "expire")
               /\ seen[c].status = "EXPIRED" \/ clock > expiresAt[a]
        <3>1. pc'[c] = "expire" /\ resp'[c] = resp[c]
            BY <1>1, <2>2 DEF Goto, TypeOK, CallTypeOK
        <3>2. clock >= expiresAt[a]
            <4>1. clock \in 0..MaxClock /\ expiresAt[a] \in Nat
                BY <1>1 DEF TypeOK, StoreTypeOK
            <4>2. clock > expiresAt[a] => clock >= expiresAt[a]
                BY ONLY <4>1, SMTT(30)
            <4>3. seen[c].status = "EXPIRED" => clock >= expiresAt[a]
                BY <1>1, <2>0 DEF CallOK, ViewInv, RowOK
            <4> QED BY <2>2, <4>2, <4>3
        <3> QED
            BY <1>1, <1>5, <2>0, <3>1, <3>2
            DEF CallOK, Running, storeVars, columns
    <2>3. CASE /\ cred[c] = "valid" /\ now'[c] = clock
               /\ clock <= expiresAt[a]
               /\ \/ Goto(c, "claim")
                  \/ /\ seen[c].status = "EXECUTING"
                     /\ RetryAllowed(seen[c].executingAt, clock)
                     /\ Goto(c, "execute")
        BY <1>1, <1>5, <2>0, <2>3
        DEF Goto, RetryAllowed, CallOK, Admitted, ViewInv, RowOK, Running,
            TypeOK, CallTypeOK, storeVars, columns
    <2> QED
        BY <1>1, <2>1, <2>2, <2>3
        DEF RestValidate, McpValidate, Dispatch, TypeOK, CallTypeOK, Responses
<1> QED BY <1>2, <1>3, <1>4, <1>5, <1>6, ReadStepInv

LEMMA ReloadInv ==
    ASSUME IndInv, NEW c \in Calls, RestReload(c) \/ McpReload(c),
           UNCHANGED <<adminVars, schedulerVars, creatorVars>>
    PROVE  IndInv'
<1> DEFINE a == target[c]
<1>1. TypeOK /\ CallOK(c) /\ RowOK(a) /\ a \in Approvals
    BY DEF IndInv, CallInv, CallOK, RowInv, RestReload, McpReload
<1>2. TypeOK'
    <2>1. seen' \in [Calls -> Views]
        BY <1>1, IndParts, ViewType DEF RestReload, McpReload, TypeOK, CallTypeOK
    <2>2. pc' \in [Calls -> PCs] /\ resp' \in [Calls -> Responses]
        BY <1>1 DEF RestReload, McpReload, Goto, Answer, TypeOK, CallTypeOK,
                    PCs, Responses
    <2> QED
        BY <1>1, <2>1, <2>2
        DEF RestReload, McpReload, TypeOK, StoreTypeOK, CallTypeOK,
            DecisionTypeOK, storeVars, columns, adminVars, schedulerVars,
            creatorVars
<1>3. AnswersKept
    BY DEF RestReload, McpReload, AnswersKept
<1>4. \A d \in Calls \ {c} : SameCall(d)
    BY <1>1 DEF RestReload, McpReload, Goto, Answer, SameCall, TypeOK,
                CallTypeOK
<1>5. CallOK(c)'
    <2>1. /\ pc[c] = "reload" /\ c \notin received
          /\ UNCHANGED <<clock, status, expiresAt, executingAt, executedBy,
                         issued, target, cred, now, received, answered>>
        BY <1>1 DEF RestReload, McpReload, CallOK, AfterRun, storeVars, columns
    <2>2. \/ pc'[c] = "done" /\ resp'[c] \in {"window", "conflict"}
          \/ /\ pc'[c] = "execute" /\ resp'[c] = resp[c]
             /\ status[a] = "EXECUTING" /\ now[c] - executingAt[a] <= RetryWindow
        <3>1. /\ GetApprovalForExecution(a).status = status[a]
              /\ GetApprovalForExecution(a).executingAt = executingAt[a]
            BY DEF GetApprovalForExecution
        <3>2. RetryAllowed(executingAt[a], now[c]) =>
                  now[c] - executingAt[a] <= RetryWindow
            BY DEF RetryAllowed
        <3>3. pc \in [Calls -> PCs] /\ resp \in [Calls -> Responses]
            BY <1>1 DEF TypeOK, CallTypeOK
        <3>4. CASE RestReload(c)
            BY <3>1, <3>2, <3>3, <3>4 DEF RestReload, Goto, Answer
        <3>5. CASE McpReload(c)
            BY <3>1, <3>2, <3>3, <3>5 DEF McpReload, Goto, Answer
        <3> QED BY <3>4, <3>5
    <2> QED BY <1>1, <2>1, <2>2 DEF CallOK, Admitted, Running, AfterRun, Claimed
<1> QED BY <1>2, <1>3, <1>4, <1>5, ReadStepInv DEF RestReload, McpReload

LEMMA ToolInv ==
    ASSUME IndInv, NEW c \in Calls, Execute(c) \/ UpstreamReply(c),
           UNCHANGED <<adminVars, schedulerVars, creatorVars>>
    PROVE  IndInv'
<1>1. TypeOK /\ CallOK(c)
    BY DEF IndInv, CallInv
<1>2. TypeOK'
    <2>1. CallTypeOK'
        BY <1>1 DEF Execute, UpstreamReply, Goto, TypeOK, CallTypeOK, PCs,
                    CallOK
    <2>2. StoreTypeOK'
        BY <1>1 DEF Execute, UpstreamReply, TypeOK, StoreTypeOK, storeVars,
                    columns
    <2> QED BY <1>1, <2>1, <2>2, CallStepType
<1>3. AnswersKept
    BY DEF Execute, UpstreamReply, AnswersKept
<1>4. \A d \in Calls \ {c} : SameCall(d)
    BY <1>1 DEF Execute, UpstreamReply, Goto, SameCall, TypeOK, CallTypeOK
<1>5. CallOK(c)'
    BY <1>1 DEF Execute, UpstreamReply, Goto, CallOK, Admitted, Running,
                AfterRun, TypeOK, CallTypeOK, storeVars, columns
<1> QED BY <1>2, <1>3, <1>4, <1>5, ReadStepInv DEF Execute, UpstreamReply

-----------------------------------------------------------------------------

\* The steps of a call that write the row of its approval.
LEMMA WriteStepInv ==
    ASSUME IndInv, TypeOK', NEW c \in Calls, ReliableRows, NoNewRow, RowInv',
           \A d \in Calls \ {c} : SameCall(d),
           UNCHANGED <<clock, adrs, issued, adminVars, schedulerVars,
                       creatorVars>>,
           CallOK(c)'
    PROVE  IndInv'
<1>1. Reliable
    BY IndParts DEF Reliable
<1>2. CreatorInv'
    BY CreatorFrame DEF creatorVars, IndInv
<1> QED BY <1>1, <1>2, CallStepInv

\* A call that is answered relies on the others only for what it has done.
LEMMA AnswerOK ==
    ASSUME TypeOK, TypeOK', ReliableRows, NEW c \in Calls, CallOK(c), NEW r,
           Answer(c, r), r = "ok" => pc[c] = "record",
           UNCHANGED <<clock, issued, target, cred, seen, now, received,
                       answered>>
    PROVE  CallOK(c)'
<1> DEFINE a == target[c]
<1>1. pc'[c] = "done" /\ resp'[c] = r
    BY DEF Answer, TypeOK, CallTypeOK
<1>2. CASE a \in Approvals
    <2>1. ReliableRow(a) /\ c # None
        BY <1>2, ConstantsAssumption DEF ReliableRows
    <2>2. Admitted(c) => Admitted(c)'
        BY <1>2, <2>1 DEF Admitted, ReliableRow, Claimed
    <2> QED
        BY <1>1, <1>2, <2>1, <2>2 DEF CallOK, ReliableRow, Running, AfterRun
<1>3. CASE a \notin Approvals
    BY <1>1, <1>3 DEF CallOK, Admitted, Running, AfterRun
<1> QED BY <1>2, <1>3

LEMMA ExpireInv ==
    ASSUME IndInv, NEW c \in Calls, Expire(c),
           UNCHANGED <<adminVars, schedulerVars, creatorVars>>
    PROVE  IndInv'
<1> DEFINE a == target[c]
<1>1. /\ TypeOK /\ RowInv /\ CallOK(c)
      /\ a \in Approvals /\ clock >= expiresAt[a] /\ clock <= clock
    BY IndParts, CallParts DEF Expire
<1>2. TypeOK'
    <2>1. StoreTypeOK'
        BY <1>1 DEF Expire, MarkApprovalExpired, TypeOK,
            StoreTypeOK, columns, Statuses
    <2>2. CallTypeOK'
        BY <1>1 DEF Expire, Answer, TypeOK, CallTypeOK, PCs,
            Responses
    <2> QED BY <1>1, <2>1, <2>2, CallStepType
<1>3. ReliableRows /\ NoNewRow
    BY <1>1, UnchangedReliable, ExpiredReliable DEF Expire
<1>4. AnswersKept
    BY DEF Expire, AnswersKept
<1>5. RowInv'
    BY <1>1, <1>2, <1>4, RowFrame, ExpiredRow DEF Expire
<1>6. CallOK(c)'
    BY <1>1, <1>2, <1>3, AnswerOK DEF Expire
<1>7. \A d \in Calls \ {c} : SameCall(d)
    BY <1>1 DEF Expire, Answer, SameCall, TypeOK, CallTypeOK
<1> QED BY <1>2, <1>3, <1>5, <1>6, <1>7, WriteStepInv DEF Expire

LEMMA MarkFailedInv ==
    ASSUME IndInv, NEW c \in Calls, MarkFailed(c),
           UNCHANGED <<adminVars, schedulerVars, creatorVars>>
    PROVE  IndInv'
<1> DEFINE a == target[c]
<1>1. TypeOK /\ RowInv /\ CallOK(c) /\ a \in Approvals /\ clock <= clock
    BY IndParts, CallParts DEF MarkFailed
<1>2. TypeOK'
    <2>1. StoreTypeOK'
        BY <1>1 DEF MarkFailed, MarkApprovalExecutionFailed, TypeOK,
            StoreTypeOK, columns, Statuses
    <2>2. CallTypeOK'
        BY <1>1 DEF MarkFailed, Answer, TypeOK, CallTypeOK, PCs,
            Responses
    <2> QED BY <1>1, <2>1, <2>2, CallStepType
<1>3. ReliableRows /\ NoNewRow
    BY <1>1, UnchangedReliable, FailedReliable DEF MarkFailed
<1>4. AnswersKept
    BY DEF MarkFailed, AnswersKept
<1>5. RowInv'
    BY <1>1, <1>2, <1>4, RowFrame, FailedRow DEF MarkFailed
<1>6. CallOK(c)'
    BY <1>1, <1>2, <1>3, AnswerOK DEF MarkFailed
<1>7. \A d \in Calls \ {c} : SameCall(d)
    BY <1>1 DEF MarkFailed, Answer, SameCall, TypeOK, CallTypeOK
<1> QED BY <1>2, <1>3, <1>5, <1>6, <1>7, WriteStepInv DEF MarkFailed

LEMMA MarkExecutedInv ==
    ASSUME IndInv, NEW c \in Calls, MarkExecuted(c),
           UNCHANGED <<adminVars, schedulerVars, creatorVars>>
    PROVE  IndInv'
<1> DEFINE a == target[c]
<1>1. /\ TypeOK /\ RowInv /\ CallOK(c)
      /\ a \in Approvals /\ c \in answered /\ clock <= clock
    BY IndParts, CallParts DEF MarkExecuted
<1>2. TypeOK'
    <2>1. StoreTypeOK'
        BY <1>1, IndParts, ExecutedType, SameColumnsType DEF MarkExecuted
    <2>2. CallTypeOK'
        BY <1>1 DEF MarkExecuted, Goto, Answer, TypeOK, CallTypeOK, PCs,
            Responses
    <2> QED BY <1>1, <2>1, <2>2, CallStepType
<1>3. ReliableRows /\ NoNewRow
    BY <1>1, UnchangedReliable, ExecutedReliable DEF MarkExecuted
<1>4. AnswersKept
    BY DEF MarkExecuted, AnswersKept
<1>5. RowInv'
    BY <1>1, <1>2, <1>4, RowFrame, ExecutedRow DEF MarkExecuted
<1>6. CallOK(c)'
    <2>1. CASE MarkApprovalExecuted(a, c) /\ Goto(c, "record")
        BY <1>1, <2>1
        DEF MarkExecuted, MarkApprovalExecuted, Goto, CallOK, Admitted,
            Running, AfterRun, Claimed, TypeOK, StoreTypeOK, CallTypeOK
    <2>2. CASE Answer(c, "conflict")
        BY <1>1, <1>2, <1>3, <2>2, AnswerOK DEF MarkExecuted
    <2> QED BY <2>1, <2>2 DEF MarkExecuted
<1>7. \A d \in Calls \ {c} : SameCall(d)
    BY <1>1 DEF MarkExecuted, Goto, Answer, SameCall, TypeOK, CallTypeOK
<1> QED BY <1>2, <1>3, <1>5, <1>6, <1>7, WriteStepInv DEF MarkExecuted

LEMMA StoreErrorInv ==
    ASSUME IndInv, NEW c \in Calls, StoreError(c),
           UNCHANGED <<adminVars, schedulerVars, creatorVars>>
    PROVE  IndInv'
<1> DEFINE a == target[c]
<1>1. /\ TypeOK /\ RowInv /\ CallOK(c)
      /\ pc[c] \in {"claim", "markExecuted"} => a \in Approvals
      /\ pc[c] = "markExecuted" => c \in answered
      /\ now[c] \in 0..MaxClock /\ clock <= clock
    BY IndParts, CallParts
<1>2. TypeOK'
    <2>1. StoreTypeOK'
        BY <1>1, IndParts, ClaimType, ExecutedType, SameColumnsType
        DEF StoreError
    <2>2. CallTypeOK'
        BY <1>1 DEF StoreError, Answer, TypeOK, CallTypeOK, PCs,
            Responses
    <2> QED BY <1>1, <2>1, <2>2, CallStepType
<1>3. ReliableRows /\ NoNewRow
    BY <1>1, UnchangedReliable, ClaimReliable, ExecutedReliable DEF StoreError
<1>4. AnswersKept
    BY DEF StoreError, AnswersKept
<1>5. RowInv'
    BY <1>1, <1>2, <1>4, RowFrame, ClaimRow, ExecutedRow DEF StoreError
<1>6. CallOK(c)'
    BY <1>1, <1>2, <1>3, AnswerOK DEF StoreError
<1>7. \A d \in Calls \ {c} : SameCall(d)
    BY <1>1 DEF StoreError, Answer, SameCall, TypeOK, CallTypeOK
<1> QED BY <1>2, <1>3, <1>5, <1>6, <1>7, WriteStepInv DEF StoreError

LEMMA ClaimInv ==
    ASSUME IndInv, NEW c \in Calls, Claim(c),
           UNCHANGED <<adminVars, schedulerVars, creatorVars>>
    PROVE  IndInv'
<1> DEFINE a == target[c]
<1>1. /\ TypeOK /\ RowInv /\ CallOK(c)
      /\ a \in Approvals /\ now[c] \in 0..MaxClock /\ clock <= clock
    BY IndParts, CallParts DEF Claim
<1>2. TypeOK'
    <2>1. StoreTypeOK'
        BY <1>1, IndParts, ClaimType, SameColumnsType DEF Claim
    <2>2. CallTypeOK'
        BY <1>1 DEF Claim, Goto, TypeOK, CallTypeOK, PCs,
            Responses
    <2> QED BY <1>1, <2>1, <2>2, CallStepType
<1>3. ReliableRows /\ NoNewRow
    BY <1>1, UnchangedReliable, ClaimReliable DEF Claim
<1>4. AnswersKept
    BY DEF Claim, AnswersKept
<1>5. RowInv'
    BY <1>1, <1>2, <1>4, RowFrame, ClaimRow DEF Claim
<1>6. CallOK(c)'
    <2>1. /\ pc[c] = "claim" /\ resp'[c] = resp[c]
          /\ UNCHANGED <<clock, issued, target, cred, now, received, answered,
                         expiresAt, executedBy>>
          /\ c \notin received /\ cred[c] = "valid" /\ now[c] <= expiresAt[a]
        BY <1>1 DEF Claim, ClaimApprovalExecution, Goto, CallOK, AfterRun, columns
    <2>2. \/ pc'[c] = "execute" /\ status'[a] = "EXECUTING" /\ executingAt'[a] = now[c]
          \/ pc'[c] = "reload" /\ status'[a] = status[a]
        BY <1>1 DEF Claim, ClaimApprovalExecution, Goto, TypeOK, StoreTypeOK,
                    CallTypeOK, columns
    <2>3. now[c] - now[c] <= RetryWindow
        BY SMTT(30), <1>1, ConstantsAssumption
    <2> QED BY <1>1, <2>1, <2>2, <2>3 DEF CallOK, Admitted, Running, AfterRun, Claimed
<1>7. \A d \in Calls \ {c} : SameCall(d)
    BY <1>1 DEF Claim, Goto, SameCall, TypeOK, CallTypeOK
<1> QED BY <1>2, <1>3, <1>5, <1>6, <1>7, WriteStepInv DEF Claim

\* A call that records its execution does so after its approval was recorded.
LEMMA RecordInv ==
    ASSUME IndInv, NEW c \in Calls, RecordADR(c) \/ RecordADRError(c),
           UNCHANGED <<adminVars, schedulerVars, creatorVars>>
    PROVE  IndInv'
<1> DEFINE a == target[c]
<1>1. /\ TypeOK /\ RowInv /\ CreatorInv /\ CallOK(c)
      /\ a \in Approvals /\ a \in issued /\ pc[c] = "record" /\ clock <= clock
    <2>1. TypeOK /\ RowInv /\ CreatorInv /\ CallOK(c) /\ pc[c] = "record"
        BY DEF IndInv, CallInv, RecordADR, RecordADRError
    <2>2. a \in Approvals /\ a \in issued
        BY <2>1 DEF CallOK, Admitted, Running
    <2>3. clock <= clock
        BY SMTT(30), <2>1 DEF TypeOK, StoreTypeOK
    <2> QED BY <2>1, <2>2, <2>3
<1>2. /\ UNCHANGED <<clock, columns, issued, target, cred, seen, now,
                     received, answered, events>>
      /\ \E r \in Responses : Answer(c, r)
      /\ adrs \subseteq adrs' /\ adrs' \subseteq adrs \cup {<<a, c>>}
    BY DEF RecordADR, RecordADRError, InsertADR, InsertADRUnchecked, Responses
<1>3. TypeOK'
    <2>1. adrs' \subseteq ADRs
        BY SMTT(30), <1>1, <1>2 DEF TypeOK, StoreTypeOK, ADRs
    <2> QED
        <3>1. StoreTypeOK'
            BY <1>1, <1>2, <2>1 DEF TypeOK, StoreTypeOK, columns
        <3>2. CallTypeOK'
            BY SMTT(30), <1>1, <1>2 DEF Answer, TypeOK, CallTypeOK, PCs
        <3> QED BY <1>1, <3>1, <3>2, CallStepType
<1>4. ReliableRows /\ NoNewRow
    BY <1>1, <1>2, UnchangedReliable
<1>5. Reliable
    BY <1>1, <1>2, <1>4 DEF Reliable
<1>6. RowInv'
    <2>1. AnswersKept
        BY <1>2 DEF AnswersKept
    <2> QED BY <1>1, <1>2, <1>3, <2>1, RowFrame
<1>7. CreatorInv'
    <2> SUFFICES ASSUME NEW b \in Approvals PROVE CreatorOK(b)'
        BY DEF CreatorInv
    <2>1. CreatorOK(b) /\ CreatorOK(a)
        BY <1>1 DEF CreatorInv
    <2>2. UNCHANGED <<status, issued, creator>>
        BY <1>2 DEF columns, creatorVars
    <2>3. CASE b = a
        <3>1. creator[b] = "done" /\ <<b, None>> \in adrs'
            BY <1>1, <1>2, <2>1, <2>3 DEF CreatorOK
        <3> QED BY <2>2, <3>1 DEF CreatorOK
    <2>4. CASE b # a
        <3>1. (\A r \in adrs : r[1] # b) => \A r \in adrs' : r[1] # b
            BY SMTT(30), <1>2, <2>4
        <3> QED BY <1>2, <2>1, <2>2, <3>1 DEF CreatorOK
    <2> QED BY <2>3, <2>4
<1>8. CallOK(c)'
    BY <1>1, <1>2, <1>3, <1>4, AnswerOK
<1>9. \A d \in Calls \ {c} : SameCall(d)
    BY <1>1, <1>2 DEF Answer, SameCall, TypeOK, CallTypeOK
<1> QED BY <1>3, <1>5, <1>6, <1>7, <1>8, <1>9, CallStepInv

LEMMA CallNextInv ==
    ASSUME IndInv, NEW c \in Calls, CallNext(c),
           UNCHANGED <<adminVars, schedulerVars, creatorVars>>
    PROVE  IndInv'
BY LoadInv, ValidateInv, ExpireInv, ClaimInv, ReloadInv, ToolInv,
   MarkFailedInv, MarkExecutedInv, RecordInv, StoreErrorInv
DEF CallNext, CallStep
-----------------------------------------------------------------------------
(* Everybody else's steps, and what follows.                               *)

\* The steps of anyone but a call.
LEMMA OtherStepInv ==
    ASSUME IndInv, TypeOK', Reliable, UNCHANGED callVars,
           RowInv', CreatorInv', AdminInv', SchedulerInv', AuditFaithful'
    PROVE  IndInv'
<1>1. \A c \in Calls : SameCall(c)
    BY DEF SameCall, callVars, localVars
<1>2. \A c \in Calls : CallOK(c)'
    BY <1>1, CallFrame DEF IndInv, CallInv
<1> QED BY <1>2 DEF IndInv, CallInv

LEMMA AdminStepInv ==
    ASSUME IndInv, TypeOK', NEW x \in Admins, ReliableRows, NoNewRow, RowInv',
           \A y \in Admins \ {x} : SameAdmin(y),
           UNCHANGED <<clock, adrs, issued, callVars, schedulerVars,
                       creatorVars>>,
           AdminOK(x)', AuditFaithful'
    PROVE  IndInv'
<1>1. Reliable
    BY IndParts DEF Reliable
<1>2. CreatorInv'
    BY CreatorFrame DEF creatorVars, IndInv
<1>3. AdminInv'
    <2>1. \A y \in Admins \ {x} : AdminOK(y)'
        BY <1>1, AdminFrame DEF IndInv, AdminInv
    <2> QED BY <2>1 DEF AdminInv
<1>4. SchedulerInv'
    BY <1>1, SchedulerFrame DEF IndInv, schedulerVars
<1> QED BY <1>1, <1>2, <1>3, <1>4, OtherStepInv

LEMMA AdminReadInv ==
    ASSUME IndInv, NEW x \in Admins,
           \/ \E a \in Approvals, o \in Ops : AdminLoad(x, a, o)
           \/ AdminCheck(x),
           UNCHANGED creatorVars
    PROVE  IndInv'
<1>1. TypeOK /\ RowInv /\ AdminOK(x) /\ clock <= clock
    BY IndParts, AdminParts
<1>2. UNCHANGED <<clock, storeVars, issued, callVars, events, audits,
                  schedulerVars>>
    BY DEF AdminLoad, AdminCheck
<1>3. TypeOK'
    <2>1. /\ apc' \in [Admins -> {"idle", "check", "expire", "decide",
                                  "audit", "done"}]
          /\ aresp' \in [Admins -> {"none", "ok", "missing", "expired",
                                    "conflict", "internal"}]
        <3>1. CASE \E l \in {"check", "expire", "decide"} : AdminGoto(x, l)
            BY <1>1, <3>1 DEF AdminGoto, TypeOK, DecisionTypeOK
        <3>2. CASE \E r \in {"missing", "ok"} : AdminAnswer(x, r)
            BY <1>1, <3>2 DEF AdminAnswer, TypeOK, DecisionTypeOK
        <3> QED BY <3>1, <3>2 DEF AdminLoad, AdminCheck, AdminProceed
    <2>2. /\ op' \in [Admins -> Ops] /\ before' \in [Admins -> Statuses]
          /\ subject' \in [Admins -> Approvals \cup {None}]
        <3>1. /\ op \in [Admins -> Ops] /\ before \in [Admins -> Statuses]
              /\ subject \in [Admins -> Approvals \cup {None}]
              /\ status \in [Approvals -> Statuses]
            BY <1>1 DEF TypeOK, DecisionTypeOK, StoreTypeOK
        <3>2. ASSUME NEW a \in Approvals, NEW o \in Ops, AdminLoad(x, a, o)
              PROVE  /\ op' \in [Admins -> Ops]
                     /\ before' \in [Admins -> Statuses]
                     /\ subject' \in [Admins -> Approvals \cup {None}]
            BY <3>1, <3>2 DEF AdminLoad
        <3>3. CASE AdminCheck(x)
            BY <3>1, <3>3 DEF AdminCheck
        <3> QED BY <3>2, <3>3
    <2> QED
        BY <1>1, <1>2, <2>1, <2>2
        DEF TypeOK, StoreTypeOK, CallTypeOK, DecisionTypeOK, storeVars,
            columns, callVars, localVars, schedulerVars, creatorVars
<1>4. ReliableRows /\ NoNewRow
    BY <1>1, <1>2, UnchangedReliable DEF storeVars
<1>5. Reliable
    BY <1>1, <1>2, <1>4 DEF Reliable
<1>6. RowInv'
    <2>1. AnswersKept
        BY <1>2 DEF AnswersKept, callVars, localVars
    <2> QED BY <1>1, <1>2, <1>3, <2>1, RowFrame DEF storeVars
<1>7. AuditFaithful'
    BY <1>1, <1>2, <1>5, AuditFrame DEF IndInv
<1>8. AdminOK(x)'
    <2>1. ASSUME NEW a \in Approvals, NEW o \in Ops, AdminLoad(x, a, o)
          PROVE  AdminOK(x)'
        BY <1>1, <2>1
        DEF AdminLoad, AdminGoto, AdminAnswer, AdminOK, TypeOK,
            DecisionTypeOK, storeVars, columns
    <2>2. CASE AdminCheck(x)
        <3>1. /\ apc[x] = "check" /\ subject[x] \in Approvals
              /\ apc \in [Admins -> {"idle", "check", "expire", "decide",
                                     "audit", "done"}]
              /\ aresp \in [Admins -> {"none", "ok", "missing", "expired",
                                       "conflict", "internal"}]
              /\ op[x] \in Ops /\ aresp[x] = "none"
            BY <1>1, <2>2 DEF AdminCheck, AdminOK, TypeOK, DecisionTypeOK
        <3>2. ApprovalExpired(before[x], expiresAt[subject[x]], clock) =>
                  clock >= expiresAt[subject[x]]
            <4>1. clock \in 0..MaxClock /\ expiresAt[subject[x]] \in Nat
                BY <1>1, <3>1 DEF TypeOK, StoreTypeOK
            <4> QED BY ONLY <4>1, SMTT(30) DEF ApprovalExpired
        <3>3. UNCHANGED <<clock, status, expiresAt, decidedBy, op, subject,
                          before>>
            BY <2>2 DEF AdminCheck, storeVars, columns
        <3>4. \/ /\ apc'[x] = "expire" /\ aresp'[x] = "none"
                 /\ clock >= expiresAt[subject[x]]
              \/ /\ apc'[x] = "decide" /\ aresp'[x] = "none"
                 /\ op[x] \in Decisions
              \/ apc'[x] = "done" /\ op[x] = "VIEW"
            BY <2>2, <3>1, <3>2
            DEF AdminCheck, AdminProceed, AdminGoto, AdminAnswer, Ops
        <3> QED BY <1>1, <3>1, <3>3, <3>4 DEF AdminOK
    <2> QED BY <2>1, <2>2
<1>9. \A y \in Admins \ {x} : SameAdmin(y)
    <2>1. ASSUME NEW a \in Approvals, NEW o \in Ops, AdminLoad(x, a, o)
          PROVE  \A y \in Admins \ {x} : SameAdmin(y)
        BY <1>1, <2>1 DEF AdminLoad, AdminGoto, AdminAnswer, SameAdmin,
                          TypeOK, DecisionTypeOK
    <2>2. CASE AdminCheck(x)
        BY <1>1, <2>2 DEF AdminCheck, AdminProceed, AdminGoto, AdminAnswer,
                          SameAdmin, TypeOK, DecisionTypeOK
    <2> QED BY <2>1, <2>2
<1> QED
    BY <1>2, <1>3, <1>4, <1>6, <1>7, <1>8, <1>9, AdminStepInv DEF storeVars

LEMMA AdminExpireInv ==
    ASSUME IndInv, NEW x \in Admins, AdminExpire(x), UNCHANGED creatorVars
    PROVE  IndInv'
<1> DEFINE a == subject[x]
<1>1. /\ TypeOK /\ RowInv /\ AdminOK(x)
      /\ a \in Approvals /\ clock >= expiresAt[a] /\ clock <= clock
    BY IndParts, AdminParts DEF AdminExpire
<1>2. MarkApprovalExpired(a) \/ UNCHANGED columns
    BY DEF AdminExpire
<1>3. TypeOK'
    <2>1. StoreTypeOK'
        BY <1>1, <1>2 DEF AdminExpire, MarkApprovalExpired, TypeOK,
                          StoreTypeOK, columns, Statuses
    <2>2. DecisionTypeOK'
        BY <1>1 DEF AdminExpire, AdminProceed, AdminGoto, AdminAnswer, TypeOK,
                    DecisionTypeOK, schedulerVars
    <2> QED
        BY <1>1, <2>1, <2>2
        DEF AdminExpire, TypeOK, CallTypeOK, callVars, localVars, creatorVars
<1>4. ReliableRows /\ NoNewRow
    BY <1>1, <1>2, UnchangedReliable, ExpiredReliable
<1>5. Reliable
    BY <1>1, <1>4 DEF Reliable, AdminExpire
<1>6. RowInv'
    <2>1. AnswersKept
        BY DEF AdminExpire, AnswersKept, callVars, localVars
    <2> QED
        BY <1>1, <1>2, <1>3, <2>1, RowFrame, ExpiredRow DEF AdminExpire
<1>7. AuditFaithful'
    BY <1>1, <1>5, AuditFrame DEF IndInv, AdminExpire
<1>8. AdminOK(x)'
    <2>1. /\ status'[a] # "NONE"
          /\ status'[a] = "PENDING" => before[x] = "PENDING"
        BY <1>1, <1>4 DEF ReliableRows, ReliableRow, AdminOK, AdminExpire,
                          Undecided
    <2> QED
        BY <1>1, <2>1
        DEF AdminExpire, AdminProceed, AdminGoto, AdminAnswer, AdminOK,
            TypeOK, DecisionTypeOK, Ops
<1>9. \A y \in Admins \ {x} : SameAdmin(y)
    BY <1>1 DEF AdminExpire, AdminProceed, AdminGoto, AdminAnswer, SameAdmin,
                TypeOK, DecisionTypeOK
<1> QED
    BY <1>3, <1>4, <1>6, <1>7, <1>8, <1>9, AdminStepInv DEF AdminExpire

LEMMA AdminDecideInv ==
    ASSUME IndInv, NEW x \in Admins, AdminDecide(x), UNCHANGED creatorVars
    PROVE  IndInv'
<1> DEFINE a == subject[x]
<1>1. /\ TypeOK /\ RowInv /\ AdminOK(x)
      /\ a \in Approvals /\ op[x] \in Decisions /\ clock <= clock
    BY IndParts, AdminParts DEF AdminDecide
<1>2. UpdateApprovalDecision(a, op[x], x) \/ UNCHANGED columns
    BY DEF AdminDecide
<1>3. TypeOK'
    <2>1. StoreTypeOK'
        BY <1>1, <1>2, IndParts, DecisionType, SameColumnsType
        DEF AdminDecide
    <2>2. DecisionTypeOK'
        BY <1>1 DEF AdminDecide, AdminGoto, AdminAnswer, TypeOK,
                    DecisionTypeOK, schedulerVars
    <2> QED
        BY <1>1, <2>1, <2>2
        DEF AdminDecide, TypeOK, CallTypeOK, callVars, localVars, creatorVars
<1>4. ReliableRows /\ NoNewRow
    BY <1>1, <1>2, UnchangedReliable, DecideReliable
<1>5. Reliable
    BY <1>1, <1>4 DEF Reliable, AdminDecide
<1>6. RowInv'
    <2>1. AnswersKept
        BY DEF AdminDecide, AnswersKept, callVars, localVars
    <2> QED
        BY <1>1, <1>2, <1>3, <2>1, RowFrame, DecideRow DEF AdminDecide
<1>7. AuditFaithful'
    BY <1>1, <1>5, AuditFrame DEF IndInv, AdminDecide
<1>8. AdminOK(x)'
    BY <1>1 DEF AdminDecide, UpdateApprovalDecision, Decidable, AdminGoto,
                AdminAnswer, AdminOK, MayFollow, TypeOK, StoreTypeOK,
                DecisionTypeOK, Decisions
<1>9. \A y \in Admins \ {x} : SameAdmin(y)
    BY <1>1 DEF AdminDecide, AdminGoto, AdminAnswer, SameAdmin, TypeOK,
                DecisionTypeOK
<1> QED
    BY <1>3, <1>4, <1>6, <1>7, <1>8, <1>9, AdminStepInv DEF AdminDecide

\* The event an operator's request writes about its own decision.
LEMMA AuditEventTrue ==
    ASSUME TypeOK, NEW x \in Admins, AdminOK(x), AuditFaithful,
           apc[x] = "audit", InsertAuditEvent(x), UNCHANGED columns
    PROVE  AuditFaithful' /\ audits' \subseteq AuditEvents
<1> DEFINE e == [by |-> x, approval |-> subject[x], op |-> op[x],
                 before |-> before[x], after |-> status[subject[x]]]
<1>1. e \in AuditEvents /\ audits' = audits \cup {e}
    BY DEF TypeOK, StoreTypeOK, DecisionTypeOK, AdminOK, AuditEvents,
           InsertAuditEvent
<1>2. /\ e.before = "PENDING" /\ decidedBy[e.approval] = e.by
      /\ MayFollow(e.op, e.after)
    BY DEF AdminOK
<1>3. AuditFaithful'
    BY <1>1, <1>2 DEF AuditFaithful, columns
<1> QED BY <1>1, <1>3 DEF TypeOK, DecisionTypeOK

LEMMA AdminAuditInv ==
    ASSUME IndInv, NEW x \in Admins, AdminAudit(x), UNCHANGED creatorVars
    PROVE  IndInv'
<1>1. /\ TypeOK /\ RowInv /\ AdminOK(x) /\ AuditFaithful
      /\ subject[x] \in Approvals /\ clock <= clock
    BY IndParts, AdminParts DEF AdminAudit
<1>2. AuditFaithful' /\ audits' \subseteq AuditEvents
    BY <1>1, AuditEventTrue DEF AdminAudit, storeVars
<1>3. TypeOK'
    <2>1. events' \subseteq EventKinds \X Approvals
        BY <1>1, EmitType DEF AdminAudit
    <2> QED
        BY <1>1, <1>2, <2>1
        DEF AdminAudit, AdminAnswer, TypeOK, StoreTypeOK, CallTypeOK,
            DecisionTypeOK, storeVars, columns, callVars, localVars,
            schedulerVars, creatorVars
<1>4. ReliableRows /\ NoNewRow
    BY <1>1, UnchangedReliable DEF AdminAudit, storeVars
<1>5. RowInv'
    <2>1. AnswersKept
        BY DEF AdminAudit, AnswersKept, callVars, localVars
    <2> QED BY <1>1, <1>3, <2>1, RowFrame DEF AdminAudit, storeVars
<1>6. AdminOK(x)'
    BY <1>1 DEF AdminAudit, AdminAnswer, AdminOK, TypeOK, DecisionTypeOK,
                storeVars, columns
<1>7. \A y \in Admins \ {x} : SameAdmin(y)
    BY <1>1 DEF AdminAudit, AdminAnswer, SameAdmin, TypeOK, DecisionTypeOK
<1> QED
    BY <1>2, <1>3, <1>4, <1>5, <1>6, <1>7, AdminStepInv
    DEF AdminAudit, storeVars

LEMMA AdminErrorInv ==
    ASSUME IndInv, NEW x \in Admins, AdminError(x), UNCHANGED creatorVars
    PROVE  IndInv'
<1> DEFINE a == subject[x]
<1>1. /\ TypeOK /\ RowInv /\ AdminOK(x) /\ AuditFaithful /\ clock <= clock
      /\ apc[x] \in {"decide", "audit"} =>
            a \in Approvals /\ op[x] \in Decisions
    BY IndParts, AdminParts
<1>2. \/ UNCHANGED columns
      \/ a \in Approvals /\ op[x] \in Decisions
         /\ UpdateApprovalDecision(a, op[x], x)
    BY <1>1 DEF AdminError
<1>3. StoreTypeOK'
    BY <1>1, <1>2, IndParts, DecisionType, SameColumnsType DEF AdminError
<1>4. ReliableRows /\ NoNewRow
    BY <1>1, <1>2, UnchangedReliable, DecideReliable
<1>5. Reliable
    BY <1>1, <1>4 DEF Reliable, AdminError
<1>6. AuditFaithful' /\ audits' \subseteq AuditEvents
    BY <1>1, <1>5, AuditFrame, AuditEventTrue
    DEF AdminError, TypeOK, DecisionTypeOK
<1>7. TypeOK'
    BY <1>1, <1>3, <1>6
    DEF AdminError, AdminAnswer, TypeOK, CallTypeOK, DecisionTypeOK, callVars,
        localVars, schedulerVars, creatorVars
<1>8. RowInv'
    <2>1. AnswersKept
        BY DEF AdminError, AnswersKept, callVars, localVars
    <2> QED
        BY <1>1, <1>2, <1>7, <2>1, RowFrame, DecideRow DEF AdminError
<1>9. AdminOK(x)'
    BY <1>1 DEF AdminError, AdminAnswer, AdminOK, TypeOK, DecisionTypeOK
<1>10. \A y \in Admins \ {x} : SameAdmin(y)
    BY <1>1 DEF AdminError, AdminAnswer, SameAdmin, TypeOK, DecisionTypeOK
<1> QED
    BY <1>4, <1>6, <1>7, <1>8, <1>9, <1>10, AdminStepInv DEF AdminError

LEMMA AdminNextInv ==
    ASSUME IndInv, NEW x \in Admins, AdminNext(x), UNCHANGED creatorVars
    PROVE  IndInv'
BY AdminReadInv, AdminExpireInv, AdminDecideInv, AdminAuditInv, AdminErrorInv
DEF AdminNext, AdminStep

-----------------------------------------------------------------------------

\* The steps of anyone but a call or an operator.
LEMMA SystemStepInv ==
    ASSUME IndInv, TypeOK', Reliable, UNCHANGED <<callVars, adminVars>>,
           RowInv', CreatorInv', SchedulerInv'
    PROVE  IndInv'
<1>1. \A x \in Admins : SameAdmin(x)
    BY DEF SameAdmin, adminVars
<1>2. \A x \in Admins : AdminOK(x)'
    BY <1>1, AdminFrame DEF IndInv, AdminInv
<1>3. AuditFaithful'
    BY AuditFrame DEF IndInv, adminVars
<1> QED BY <1>2, <1>3, OtherStepInv DEF AdminInv

LEMMA SchedulerStepInv ==
    ASSUME IndInv, TypeOK', ReliableRows, NoNewRow, RowInv', SchedulerInv',
           UNCHANGED <<clock, adrs, issued, callVars, adminVars, creatorVars>>
    PROVE  IndInv'
<1>1. Reliable
    BY IndParts DEF Reliable
<1>2. CreatorInv'
    BY CreatorFrame DEF IndInv, creatorVars
<1> QED BY <1>1, <1>2, SystemStepInv

LEMMA SchedulerReadInv ==
    ASSUME IndInv, SchedulerStart \/ SchedulerList \/ SchedulerAbort,
           UNCHANGED creatorVars
    PROVE  IndInv'
<1>1. /\ TypeOK /\ RowInv /\ SchedulerInv
      /\ clock \in 0..MaxClock /\ clock <= clock /\ 0 \in 0..MaxClock
    <2>1. 0 \in 0..MaxClock
        BY ONLY ConstantsAssumption, SMTT(30)
    <2> QED BY <2>1, IndParts
<1>2. UNCHANGED <<clock, storeVars, issued, callVars, adminVars>>
    BY DEF SchedulerStart, SchedulerList, SchedulerAbort
<1>3. TypeOK'
    <2>1. events' \subseteq EventKinds \X Approvals
        BY <1>1, FaultsAssumption
        DEF SchedulerStart, SchedulerList, SchedulerAbort, TypeOK, CallTypeOK
    <2>2. /\ spc' \in {"idle", "list", "mark"} /\ snow' \in 0..MaxClock
          /\ overdue' \subseteq Approvals
        BY <1>1
        DEF SchedulerStart, SchedulerList, SchedulerAbort, TypeOK,
            DecisionTypeOK
    <2> QED
        BY <1>1, <1>2, <2>1, <2>2
        DEF TypeOK, StoreTypeOK, CallTypeOK, DecisionTypeOK, storeVars,
            columns, callVars, localVars, adminVars, creatorVars
<1>4. ReliableRows /\ NoNewRow
    BY <1>1, <1>2, UnchangedReliable DEF storeVars
<1>5. RowInv'
    <2>1. AnswersKept
        BY <1>2 DEF AnswersKept, callVars, localVars
    <2> QED BY <1>1, <1>2, <1>3, <2>1, RowFrame DEF storeVars
<1>6. SchedulerInv'
    <2>1. /\ snow \in 0..MaxClock /\ expiresAt \in [Approvals -> Nat]
          /\ overdue \subseteq Approvals
          /\ snow <= clock
          /\ \A a \in overdue : status[a] # "NONE" /\ clock >= expiresAt[a]
        BY <1>1 DEF TypeOK, StoreTypeOK, DecisionTypeOK, SchedulerInv
    <2>2. UNCHANGED <<clock, status, expiresAt>>
        BY <1>2 DEF storeVars, columns
    <2>3. CASE SchedulerStart
        BY <1>1, <2>1, <2>2, <2>3 DEF SchedulerStart, SchedulerInv
    <2>4. CASE SchedulerList
        <3>1. \A a \in overdue' : a \in Approvals /\ status[a] # "NONE"
                                  /\ expiresAt[a] <= snow
            BY <2>4 DEF SchedulerList, MarkableExpired
        <3>2. 0 <= clock /\ \A a \in overdue' : clock >= expiresAt[a]
            BY ONLY <1>1, <2>1, <3>1, SMTT(30)
        <3> QED BY <2>2, <2>4, <3>1, <3>2 DEF SchedulerList, SchedulerInv
    <2>5. CASE SchedulerAbort
        <3>1. 0 <= clock
            BY ONLY <1>1, SMTT(30)
        <3> QED BY <2>2, <2>5, <3>1 DEF SchedulerAbort, SchedulerInv
    <2> QED BY <2>3, <2>4, <2>5
<1> QED
    BY <1>2, <1>3, <1>4, <1>5, <1>6, SchedulerStepInv DEF storeVars

LEMMA SchedulerMarkInv ==
    ASSUME IndInv, NEW a \in Approvals, SchedulerMark(a),
           UNCHANGED creatorVars
    PROVE  IndInv'
<1>1. /\ TypeOK /\ RowInv /\ SchedulerInv
      /\ clock >= expiresAt[a] /\ clock <= clock
    BY SMTT(30) DEF IndInv, SchedulerInv, SchedulerMark, TypeOK, StoreTypeOK
<1>2. MarkApprovalExpired(a) \/ UNCHANGED columns
    BY DEF SchedulerMark
<1>3. TypeOK'
    <2>1. StoreTypeOK'
        BY <1>1, <1>2 DEF SchedulerMark, MarkApprovalExpired, TypeOK,
                          StoreTypeOK, columns, Statuses
    <2>2. events' \subseteq EventKinds \X Approvals
        BY <1>1, EmitType DEF SchedulerMark, TypeOK, CallTypeOK
    <2>3. DecisionTypeOK'
        BY <1>1 DEF SchedulerMark, TypeOK, DecisionTypeOK, adminVars
    <2> QED
        BY <1>1, <2>1, <2>2, <2>3
        DEF SchedulerMark, TypeOK, CallTypeOK, callVars, localVars,
            creatorVars
<1>4. ReliableRows /\ NoNewRow
    BY <1>1, <1>2, UnchangedReliable, ExpiredReliable
<1>5. RowInv'
    <2>1. AnswersKept
        BY DEF SchedulerMark, AnswersKept, callVars, localVars
    <2> QED
        BY <1>1, <1>2, <1>3, <2>1, RowFrame, ExpiredRow DEF SchedulerMark
<1>6. SchedulerInv'
    BY <1>1, <1>4
    DEF SchedulerMark, SchedulerInv, ReliableRows, ReliableRow, TypeOK,
        DecisionTypeOK
<1> QED
    BY <1>3, <1>4, <1>5, <1>6, SchedulerStepInv DEF SchedulerMark

-----------------------------------------------------------------------------
(* The steps of the request that creates an approval, and of the clock.    *)

\* The steps of the request that creates an approval, when its row or its
\* ADR changes.
LEMMA CreatorStepInv ==
    ASSUME IndInv, TypeOK', ReliableRows, RowInv', CreatorInv',
           clock' = clock, issued \subseteq issued',
           UNCHANGED <<callVars, adminVars, schedulerVars>>
    PROVE  IndInv'
<1>1. Reliable
    BY IndParts DEF Reliable
<1>2. SchedulerInv'
    BY <1>1, SchedulerFrame DEF IndInv, schedulerVars
<1> QED BY <1>1, <1>2, SystemStepInv

\* The creating request changes its own approval only.
LEMMA CreateNextInv ==
    ASSUME IndInv, NEW a \in Approvals, CreateNext(a)
    PROVE  IndInv'
<1>1. /\ TypeOK /\ RowInv /\ CreatorInv /\ CreatorOK(a)
      /\ draftExpiry[a] \in Nat /\ clock <= clock
    BY IndParts DEF CreatorInv, TypeOK
<1>2. /\ clock' = clock /\ issued' \in {issued, issued \cup {a}}
      /\ UNCHANGED <<callVars, adminVars, schedulerVars>>
    BY DEF CreateNext, CreateStep, RequireApproval, InsertApproval,
           RecordRequest, CreateError
<1>3. \/ UNCHANGED columns
      \/ /\ InsertApprovalRequest(a, draftExpiry[a])
         /\ creator[a] = "insert" /\ status[a] = "NONE" /\ adrs' = adrs
    BY <1>1 DEF CreateNext, CreateStep, RequireApproval, InsertApproval,
                RecordRequest, CreateError, CreatorOK, storeVars
<1>4. \/ adrs' = adrs /\ issued' = issued
      \/ creator[a] = "record" /\ creator'[a] = "done" /\ UNCHANGED columns
         /\ adrs' = adrs \cup {<<a, None>>}
    BY <1>1 DEF CreateNext, CreateStep, RequireApproval, InsertApproval,
                RecordRequest, CreateError, InsertADR, CreatorOK, storeVars,
                TypeOK
<1>5. /\ creator' \in [Approvals -> {"idle", "insert", "record", "done"}]
      /\ creator'[a] \in {"idle", "insert"} =>
            creator[a] \in {"idle", "insert"} /\ UNCHANGED columns
      /\ creator[a] = "done" => creator'[a] = "done"
      /\ \A b \in Approvals \ {a} : creator'[b] = creator[b]
    BY <1>1 DEF CreateNext, CreateStep, RequireApproval, InsertApproval,
                RecordRequest, CreateError, storeVars, TypeOK
<1>6. TypeOK'
    <2>1. StoreTypeOK'
        <3>1. CASE UNCHANGED columns
            <4>1. <<a, None>> \in ADRs
                BY DEF ADRs
            <4>2. adrs' \subseteq ADRs
                BY <1>1, <1>4, <4>1 DEF TypeOK, StoreTypeOK
            <4> QED
                BY <1>1, <1>2, <3>1, <4>2 DEF TypeOK, StoreTypeOK, columns
        <3>2. CASE InsertApprovalRequest(a, draftExpiry[a]) /\ adrs' = adrs
            BY <1>1, <1>2, <3>2, IndParts, InsertType
        <3> QED BY <1>3, <3>1, <3>2
    <2>2. events' \subseteq EventKinds \X Approvals
        BY <1>1, EmitType
        DEF CreateNext, CreateStep, RequireApproval, InsertApproval,
            RecordRequest, CreateError, TypeOK, CallTypeOK
    <2>3. draftExpiry' \in [Approvals -> Nat]
        <3>1. CASE \E ttl \in TTLs : RequireApproval(a, ttl)
            <4>1. PICK ttl \in TTLs : RequireApproval(a, ttl)
                BY <3>1
            <4>2. clock + ttl \in Nat
                <5>1. clock \in 0..MaxClock
                    BY IndParts
                <5> QED BY ONLY <4>1, <5>1, ConstantsAssumption, SMTT(30)
            <4> QED BY <1>1, <4>1, <4>2 DEF RequireApproval, TypeOK
        <3>2. CASE UNCHANGED draftExpiry
            BY <1>1, <3>2 DEF TypeOK
        <3> QED BY <3>1, <3>2 DEF CreateNext, CreateStep, InsertApproval,
                                  RecordRequest, CreateError
    <2> QED
        BY <1>1, <1>2, <1>5, <2>1, <2>2, <2>3
        DEF TypeOK, CallTypeOK, DecisionTypeOK, callVars, localVars,
            adminVars, schedulerVars
<1>7. ReliableRows
    BY <1>1, <1>3, UnchangedReliable, InsertReliable
<1>8. RowInv'
    <2>1. AnswersKept
        BY <1>2 DEF AnswersKept, callVars, localVars
    <2> QED BY <1>1, <1>2, <1>3, <1>6, <2>1, RowFrame, InsertRow
<1>9. CreatorInv'
    <2>1. CreatorOK(a)'
        BY <1>1, <1>2, <1>3, <1>4, <1>5 DEF CreatorOK, columns
    <2>2. ASSUME NEW b \in Approvals \ {a} PROVE CreatorOK(b)'
        <3>1. /\ CreatorOK(b)
              /\ status'[b] = status[b] /\ creator'[b] = creator[b]
            BY <1>1, <1>3, <1>5 DEF CreatorInv, InsertApprovalRequest, TypeOK,
                                    StoreTypeOK, columns
        <3>2. adrs \subseteq adrs' /\ \A r \in adrs' \ adrs : r[1] # b
            BY SMTT(30), <1>4
        <3> QED BY <1>2, <3>1, <3>2 DEF CreatorOK
    <2> QED BY <2>1, <2>2 DEF CreatorInv
<1> QED BY <1>2, <1>6, <1>7, <1>8, <1>9, CreatorStepInv

\* A tick of the clock, or no step at all.
LEMMA TickInv ==
    ASSUME IndInv, Tick \/ UNCHANGED vars
    PROVE  IndInv'
<1>1. /\ UNCHANGED <<storeVars, issued, callVars, events, adminVars,
                     schedulerVars, creatorVars>>
      /\ \/ clock < MaxClock /\ clock' = clock + 1
         \/ clock' = clock
    BY DEF Tick, vars
<1>2. /\ TypeOK /\ RowInv /\ CreatorInv
      /\ clock' \in 0..MaxClock /\ clock <= clock'
    <2>1. TypeOK /\ RowInv /\ CreatorInv /\ clock \in 0..MaxClock
        BY DEF IndInv, TypeOK, StoreTypeOK
    <2>2. clock' \in 0..MaxClock /\ clock <= clock'
        BY SMTT(30), <1>1, <2>1, ConstantsAssumption
    <2> QED BY <2>1, <2>2
<1>3. TypeOK'
    <2>1. StoreTypeOK'
        BY <1>1, <1>2 DEF TypeOK, StoreTypeOK, storeVars, columns
    <2>2. CallTypeOK'
        BY <1>1, <1>2 DEF TypeOK, CallTypeOK, callVars, localVars
    <2> QED BY <1>1, <1>2, <2>1, <2>2, CallStepType
<1>4. ReliableRows /\ NoNewRow
    BY <1>1, <1>2, UnchangedReliable DEF storeVars
<1>5. Reliable
    BY <1>1, <1>2, <1>4 DEF Reliable
<1>6. RowInv'
    <2>1. AnswersKept
        BY <1>1 DEF AnswersKept, callVars, localVars
    <2> QED BY <1>1, <1>2, <1>3, <2>1, RowFrame DEF storeVars
<1>7. CreatorInv'
    BY <1>1, <1>2, <1>4, CreatorFrame DEF storeVars, creatorVars
<1>8. SchedulerInv'
    BY <1>1, <1>3, <1>5, SchedulerFrame DEF IndInv, schedulerVars
<1> QED BY <1>1, <1>3, <1>5, <1>6, <1>7, <1>8, SystemStepInv

-----------------------------------------------------------------------------
(* The theorems. *)

LEMMA InitIndInv == Init => IndInv
<1> SUFFICES ASSUME Init PROVE IndInv
    OBVIOUS
<1>1. TypeOK
    <2>1. 0 \in 0..MaxClock /\ 0 \in Nat
        BY ONLY ConstantsAssumption, SMTT(30)
    <2>2. StoreTypeOK
        BY <2>1 DEF Init, StoreInit, StoreTypeOK, Statuses, Undecided
    <2>3. CallTypeOK
        <3>1. NotRead \in Views
            BY DEF NotRead, Views, Statuses, Undecided
        <3> QED BY <2>1, <3>1 DEF Init, CallInit, CallTypeOK, PCs, Responses,
                                  Credentials
    <2>4. DecisionTypeOK
        BY <2>1 DEF Init, DecisionInit, DecisionTypeOK, Statuses, Undecided,
                    Ops
    <2> QED BY <2>1, <2>2, <2>3, <2>4 DEF Init, TypeOK
<1>2. CreatorInv /\ RowInv
    BY DEF Init, StoreInit, CallInit, CreatorInv, CreatorOK, RowInv, RowOK,
           Undecided, Decisions, Claimed
<1>3. CallInv
    BY ConstantsAssumption
    DEF Init, CallInit, CallInv, CallOK, Running, AfterRun
<1>4. AdminInv /\ SchedulerInv /\ AuditFaithful
    BY SMTT(30) DEF Init, StoreInit, DecisionInit, AdminInv, AdminOK, SchedulerInv,
           AuditFaithful
<1> QED BY <1>1, <1>2, <1>3, <1>4 DEF IndInv

\* Every step of every request, of the scheduler and of the clock preserves
\* the inductive invariant.
LEMMA NextIndInv == IndInv /\ [Next]_vars => IndInv'
<1> SUFFICES ASSUME IndInv, [Next]_vars PROVE IndInv'
    OBVIOUS
<1>1. CASE Tick
    BY <1>1, TickInv
<1>2. ASSUME NEW a \in Approvals, CreateNext(a) PROVE IndInv'
    BY <1>2, CreateNextInv
<1>3. ASSUME NEW c \in Calls, CallNext(c),
             UNCHANGED <<adminVars, schedulerVars, creatorVars>>
      PROVE  IndInv'
    BY <1>3, CallNextInv
<1>4. ASSUME NEW x \in Admins, AdminNext(x), UNCHANGED creatorVars
      PROVE  IndInv'
    BY <1>4, AdminNextInv
<1>5. CASE SchedulerNext /\ UNCHANGED creatorVars
    BY <1>5, SchedulerReadInv, SchedulerMarkInv
    DEF SchedulerNext, SchedulerStep
<1>6. CASE UNCHANGED vars
    BY <1>6, TickInv
<1> QED BY <1>1, <1>2, <1>3, <1>4, <1>5, <1>6 DEF Next

\* IndInv is an invariant of the workflow: what a request has read and is
\* about to do agrees with the rows whatever the others do in between
\* (handleApprovedToolCall, handleApprovalDecision, ApprovalExpiryScheduler).
THEOREM Invariance == Spec => []IndInv
BY InitIndInv, NextIndInv, PTL DEF Spec

\* The columns and the state of the requests keep their types, with every
\* fault of the store (store.go, the handlers and the scheduler).
THEOREM TypeCorrect == Spec => []TypeOK
<1>1. IndInv => TypeOK
    BY DEF IndInv
<1> QED BY <1>1, Invariance, PTL

LEMMA ReceivedIsAdmitted ==
    ASSUME IndInv, NEW c \in received PROVE Admitted(c) /\ RowOK(target[c])
<1>1. CallOK(c)
    BY DEF IndInv, TypeOK, CallTypeOK, CallInv
<1>2. Admitted(c)
    BY <1>1 DEF CallOK
<1> QED BY <1>2 DEF Admitted, IndInv, RowInv

\* The upstream tool receives a call only with valid credentials and under
\* an approval that was decided and claimed (ClaimApprovalExecution).
THEOREM RunsAreClaimed == Spec => []RunOnlyUnderClaim
<1>1. IndInv => RunOnlyUnderClaim
    BY ReceivedIsAdmitted DEF Admitted, RowOK, RunOnlyUnderClaim, Claimed
<1> QED BY <1>1, Invariance, PTL

\* A call reaches the tool within the retry window of a claim that was made
\* before the approval expired (approvalRetryAllowed).
THEOREM RunsAreInWindow == Spec => []RunWithinWindow
<1>1. IndInv => RunWithinWindow
    BY ReceivedIsAdmitted DEF Admitted, RowOK, RunWithinWindow
<1> QED BY <1>1, Invariance, PTL

\* At most one resubmission of an approval is answered with success
\* (MarkApprovalExecuted).
THEOREM OneSuccess == Spec => []SingleSuccess
<1>1. IndInv => SingleSuccess
    <2> SUFFICES ASSUME IndInv, NEW c \in Calls, NEW d \in Calls,
                        resp[c] = "ok", resp[d] = "ok", target[c] = target[d]
                 PROVE  c = d
        BY DEF SingleSuccess
    <2>1. CallOK(c) /\ CallOK(d)
        BY CallParts
    <2>2. executedBy[target[c]] = c /\ executedBy[target[d]] = d
        BY <2>1 DEF CallOK
    <2> QED BY <2>2
<1> QED BY <1>1, Invariance, PTL

\* An EXECUTED approval names a call that the tool has answered
\* (handleApprovedToolCall).
THEOREM ExecutedRan == Spec => []ExecutedIsReal
<1>1. IndInv => ExecutedIsReal
    BY DEF IndInv, RowInv, RowOK, ExecutedIsReal
<1> QED BY <1>1, Invariance, PTL

\* The tool runs only under an approval whose request was recorded
\* (InsertADR before the token is sent).
THEOREM RunsAreEvidenced == Spec => []RunHasEvidence
<1>1. IndInv => RunHasEvidence
    BY DEF IndInv, TypeOK, CallTypeOK, CallInv, CallOK, Admitted, CreatorInv,
           CreatorOK, RunHasEvidence
<1> QED BY <1>1, Invariance, PTL

\* A decision that was answered with success is never replaced
\* (handleApprovalDecision, updateApprovalDecision).
THEOREM DecisionsStand == Spec => []DecisionStands
<1>1. IndInv => DecisionStands
    BY DEF IndInv, AdminInv, AdminOK, DecisionStands
<1> QED BY <1>1, Invariance, PTL

\* The audit event of a decision is true, although the two halves of it are
\* read before and after the decision (handleApprovalDecision).
THEOREM AuditsAreFaithful == Spec => []AuditFaithful
<1>1. IndInv => AuditFaithful
    BY DEF IndInv
<1> QED BY <1>1, Invariance, PTL

\* No approval is marked EXPIRED before its time (callers of
\* MarkApprovalExpired).
THEOREM ExpiryIsDue == Spec => []NoEarlyExpiry
<1>1. IndInv => NoEarlyExpiry
    BY DEF IndInv, RowInv, RowOK, NoEarlyExpiry
<1> QED BY <1>1, Invariance, PTL

-----------------------------------------------------------------------------
(* What the workflow has told an agent, an operator or a ticket stays true. *)

\* Whatever step the workflow takes, the rows move in the way that the
\* requests rely on.
LEMMA NextReliable ==
    ASSUME IndInv, [Next]_vars
    PROVE  ReliableRows
<1>1. TypeOK /\ RowInv /\ CallInv /\ AdminInv /\ CreatorInv
    BY DEF IndInv
<1>2. ASSUME UNCHANGED columns PROVE ReliableRows
    BY <1>1, <1>2, UnchangedReliable
<1>3. ASSUME NEW a \in Approvals, CreateNext(a) PROVE ReliableRows
    <2>1. /\ creator[a] \in {"idle", "insert"} => status[a] = "NONE"
          /\ draftExpiry[a] \in Nat
        BY <1>1 DEF CreatorInv, CreatorOK, TypeOK
    <2> QED
        BY <1>1, <1>2, <1>3, <2>1, InsertReliable
        DEF CreateNext, CreateStep, RequireApproval, InsertApproval,
            RecordRequest, CreateError, storeVars
<1>4. ASSUME NEW c \in Calls, CallNext(c) PROVE ReliableRows
    <2>1. CASE \/ \E a \in Approvals, k \in Credentials : Load(c, a, k)
               \/ RestValidate(c) \/ McpValidate(c) \/ RestReload(c)
               \/ McpReload(c) \/ Execute(c) \/ UpstreamReply(c)
               \/ RecordADR(c) \/ RecordADRError(c)
        BY <1>2, <2>1
        DEF Load, RestValidate, McpValidate, RestReload, McpReload, Execute,
            UpstreamReply, RecordADR, RecordADRError, storeVars
    <2>2. CASE \/ Expire(c) \/ Claim(c) \/ MarkFailed(c) \/ MarkExecuted(c)
               \/ StoreError(c)
        <3>1. /\ pc[c] \notin {"idle", "done"} => target[c] \in Approvals
              /\ now[c] \in 0..MaxClock
            BY <1>1 DEF CallInv, CallOK, TypeOK, CallTypeOK
        <3>2. CASE UNCHANGED columns
            BY <1>2, <3>2
        <3>3. CASE ~UNCHANGED columns
            <4>1. target[c] \in Approvals
                BY <2>2, <3>1, <3>3
                DEF Expire, Claim, MarkFailed, MarkExecuted, StoreError
            <4> QED
                BY <1>1, <2>2, <3>1, <3>3, <4>1, ExpiredReliable,
                   ClaimReliable, FailedReliable, ExecutedReliable
                DEF Expire, Claim, MarkFailed, MarkExecuted, StoreError
        <3> QED BY <3>2, <3>3
    <2> QED BY <1>4, <2>1, <2>2 DEF CallNext, CallStep
<1>5. ASSUME NEW x \in Admins, AdminNext(x) PROVE ReliableRows
    <2>1. /\ apc[x] \notin {"idle", "done"} => subject[x] \in Approvals
          /\ apc[x] = "decide" => op[x] \in Decisions
        BY <1>1 DEF AdminInv, AdminOK
    <2> QED
        BY <1>1, <1>2, <1>5, <2>1, ExpiredReliable, DecideReliable
        DEF AdminNext, AdminStep, AdminLoad, AdminCheck, AdminExpire,
            AdminDecide, AdminAudit, AdminError, storeVars
<1>6. CASE SchedulerNext
    BY <1>1, <1>2, <1>6, ExpiredReliable
    DEF SchedulerNext, SchedulerStep, SchedulerStart, SchedulerList,
        SchedulerMark, SchedulerAbort, storeVars
<1>7. CASE Tick \/ UNCHANGED vars
    BY <1>2, <1>7 DEF Tick, vars, storeVars
<1> QED BY <1>3, <1>4, <1>5, <1>6, <1>7 DEF Next

\* Only the scheduler tells of an expiry, and it has just marked the row;
\* only an operator's request tells of a decision, and it has just stored
\* the audit event.
ToldInTruth ==
    /\ audits \subseteq audits'
    /\ \A a \in Approvals :
          /\ \A kind \in {"approval_expired", "ticket_expired"} :
                <<kind, a>> \in events' \ events => status'[a] = "EXPIRED"
          /\ <<"ticket_decided", a>> \in events' \ events =>
                \E e \in audits' : /\ e.approval = a
                                   /\ e.by = decidedBy[a]
                                   /\ decidedBy[a] # None

LEMMA NewEvents ==
    ASSUME IndInv, [Next]_vars
    PROVE  ToldInTruth
<1>1. TypeOK /\ AdminInv
    BY DEF IndInv
<1>2. ASSUME NEW kinds, NEW b, Emit(kinds, b), audits' = audits,
             kinds \cap {"approval_expired", "ticket_expired",
                         "ticket_decided"} = {}
      PROVE  ToldInTruth
    BY <1>2 DEF Emit, ToldInTruth
<1>3. ASSUME events' = events, audits \subseteq audits' PROVE ToldInTruth
    BY <1>3 DEF ToldInTruth
<1>4. ASSUME NEW a \in Approvals, CreateNext(a) PROVE ToldInTruth
    BY <1>2, <1>3, <1>4
    DEF CreateNext, CreateStep, RequireApproval, InsertApproval,
        RecordRequest, CreateError, adminVars
<1>5. ASSUME NEW c \in Calls, CallNext(c), UNCHANGED adminVars PROVE ToldInTruth
    <2>1. audits' = audits
        BY <1>5 DEF adminVars
    <2>2. events' = events \/ \E b : Emit({"token_abuse"}, b)
        BY <1>5
        DEF CallNext, CallStep, Load, RestValidate, McpValidate, Expire,
            Claim, RestReload, McpReload, Execute, UpstreamReply, MarkFailed,
            MarkExecuted, RecordADR, RecordADRError, StoreError
    <2> QED BY <1>2, <1>3, <2>1, <2>2
<1>6. ASSUME NEW x \in Admins, AdminAudit(x) PROVE ToldInTruth
    <2>1. /\ subject[x] \in Approvals /\ decidedBy[subject[x]] = x /\ x # None
        BY <1>1, <1>6, ConstantsAssumption DEF AdminAudit, AdminInv, AdminOK
    <2>2. /\ audits \subseteq audits'
          /\ \E e \in audits' : e.approval = subject[x] /\ e.by = x
        <3> DEFINE e == [by |-> x, approval |-> subject[x], op |-> op[x],
                         before |-> before[x], after |-> status[subject[x]]]
        <3>1. audits' = audits \cup {e}
            BY <1>6 DEF AdminAudit, InsertAuditEvent
        <3>2. e.approval = subject[x] /\ e.by = x
            OBVIOUS
        <3> HIDE DEF e
        <3> QED BY <3>1, <3>2
    <2>3. events' \ events \subseteq {"ticket_decided"} \X {subject[x]}
        BY <1>6 DEF AdminAudit, Emit
    <2> QED BY <2>1, <2>2, <2>3 DEF ToldInTruth
<1>7. ASSUME NEW x \in Admins, AdminNext(x), ~AdminAudit(x) PROVE ToldInTruth
    BY <1>3, <1>7
    DEF AdminNext, AdminStep, AdminLoad, AdminCheck, AdminExpire,
        AdminDecide, AdminError, InsertAuditEvent
<1>8. CASE SchedulerNext
    <2>1. audits' = audits
        BY <1>8
        DEF SchedulerNext, SchedulerStep, SchedulerStart, SchedulerList,
            SchedulerMark, SchedulerAbort, adminVars
    <2>2. CASE SchedulerStart
        BY <2>1, <2>2 DEF SchedulerStart, ToldInTruth
    <2>3. CASE SchedulerList \/ SchedulerAbort
        BY <1>3, <2>1, <2>3 DEF SchedulerList, SchedulerAbort
    <2>4. ASSUME NEW b \in Approvals, SchedulerMark(b) PROVE ToldInTruth
        <3>1. \/ events' = events
              \/ /\ MarkApprovalExpired(b)
                 /\ Emit({"approval_expired", "ticket_expired"}, b)
            BY <2>4 DEF SchedulerMark
        <3>2. ASSUME MarkApprovalExpired(b) PROVE status'[b] = "EXPIRED"
            BY <1>1, <3>2 DEF MarkApprovalExpired, TypeOK, StoreTypeOK
        <3> QED BY <1>3, <2>1, <3>1, <3>2 DEF Emit, ToldInTruth
    <2> QED BY <1>8, <2>2, <2>3, <2>4 DEF SchedulerNext, SchedulerStep
<1>9. CASE Tick \/ UNCHANGED vars
    BY <1>3, <1>9 DEF Tick, vars, adminVars
<1> QED BY <1>4, <1>5, <1>6, <1>7, <1>8, <1>9 DEF Next

\* A notice or a ticket update of an expiry means that the approval is
\* EXPIRED for good, one of a decision that the decision is in the audit
\* trail (ApprovalExpiryScheduler.run, handleApprovalDecision).
THEOREM EventsTellTruth == Spec => []EventsAreTrue
<1>1. Init => EventsAreTrue
    BY DEF Init, CallInit, EventsAreTrue
<1>2. IndInv /\ EventsAreTrue /\ [Next]_vars => EventsAreTrue'
    <2> SUFFICES ASSUME IndInv, EventsAreTrue, [Next]_vars,
                        NEW a \in Approvals
                 PROVE  /\ \A kind \in {"approval_expired", "ticket_expired"} :
                              <<kind, a>> \in events' => status'[a] = "EXPIRED"
                        /\ <<"ticket_decided", a>> \in events' =>
                              \E e \in audits' : /\ e.approval = a
                                                 /\ e.by = decidedBy'[a]
        BY DEF EventsAreTrue
    <2>1. ReliableRow(a)
        BY NextReliable DEF ReliableRows
    <2>2. ASSUME NEW kind \in {"approval_expired", "ticket_expired"},
                 <<kind, a>> \in events'
          PROVE  status'[a] = "EXPIRED"
        <3>1. CASE <<kind, a>> \in events
            BY <2>1, <3>1 DEF EventsAreTrue, ReliableRow
        <3>2. CASE <<kind, a>> \notin events
            BY <2>2, <3>2, NewEvents DEF ToldInTruth
        <3> QED BY <3>1, <3>2
    <2>3. ASSUME <<"ticket_decided", a>> \in events'
          PROVE  \E e \in audits' : e.approval = a /\ e.by = decidedBy'[a]
        <3>1. \E e \in audits' : /\ e.approval = a
                                 /\ e.by = decidedBy[a]
                                 /\ decidedBy[a] # None
            <4>1. CASE <<"ticket_decided", a>> \in events
                <5>1. PICK e \in audits : e.approval = a /\ e.by = decidedBy[a]
                    BY <4>1 DEF EventsAreTrue
                <5>2. e \in audits' /\ e.by # None
                    <6>1. e \in audits' /\ e \in AuditEvents
                        BY <5>1, NewEvents
                        DEF ToldInTruth, IndInv, TypeOK, DecisionTypeOK
                    <6>2. e.by \in Admins
                        BY ONLY <6>1, SMTT(30) DEF AuditEvents
                    <6> QED BY <6>1, <6>2, ConstantsAssumption
                <5> QED BY <5>1, <5>2
            <4>2. CASE <<"ticket_decided", a>> \notin events
                BY <2>3, <4>2, NewEvents DEF ToldInTruth
            <4> QED BY <4>1, <4>2
        <3> QED BY <2>1, <3>1 DEF ReliableRow
    <2> QED BY <2>2, <2>3
<1> QED BY <1>1, <1>2, Invariance, PTL DEF Spec

\* A row that is past a decision to refuse it, past its claim or EXPIRED is
\* neither claimed nor decided again.
Final == Claimed \cup {"DENIED", "REVOKED", "EXPIRED"}

\* What a call that was told of the expiry leaves behind; the row exists, so
\* that it cannot be inserted afterwards.
ToldExpired(c) ==
    resp[c] = "expired" => /\ target[c] \in Approvals
                           /\ status[target[c]] \in Final

\* Only Expire answers a call in this way.
LEMMA ExpireAnswers ==
    ASSUME TypeOK, NEW c \in Calls, [Next]_vars, resp'[c] = "expired",
           resp[c] # "expired"
    PROVE  Expire(c)
<1>1. UNCHANGED callVars => FALSE
    BY DEF callVars, localVars
<1>2. PICK d \in Calls : CallNext(d)
    BY <1>1
    DEF Next, Tick, vars, CreateNext, CreateStep, RequireApproval,
        InsertApproval, RecordRequest, CreateError, AdminNext, AdminStep,
        AdminLoad, AdminCheck, AdminExpire, AdminDecide, AdminAudit,
        AdminError, SchedulerNext, SchedulerStep, SchedulerStart,
        SchedulerList, SchedulerMark, SchedulerAbort
<1>3. ASSUME NEW r, Answer(d, r), r # "expired" PROVE FALSE
    BY <1>3 DEF Answer, TypeOK, CallTypeOK
<1>4. ASSUME UNCHANGED resp PROVE FALSE
    BY <1>4
<1>5. Expire(d)
    BY <1>2, <1>3, <1>4
    DEF CallNext, CallStep, Load, RestValidate, McpValidate, Dispatch, Claim,
        RestReload, McpReload, Execute, UpstreamReply, MarkFailed,
        MarkExecuted, RecordADR, RecordADRError, StoreError, Goto
<1>6. d = c
    BY <1>5 DEF Expire, Answer, TypeOK, CallTypeOK
<1> QED BY <1>5, <1>6

\* A call keeps its approval once it was answered.
LEMMA TargetKept ==
    ASSUME IndInv, [Next]_vars, NEW c \in Calls, pc[c] # "idle"
    PROVE  target'[c] = target[c]
<1>1. CASE UNCHANGED callVars
    BY <1>1 DEF callVars, localVars
<1>2. ASSUME NEW d \in Calls, CallNext(d) PROVE target'[c] = target[c]
    BY <1>2
    DEF CallNext, CallStep, Load, RestValidate, McpValidate, Expire, Claim,
        RestReload, McpReload, Execute, UpstreamReply, MarkFailed,
        MarkExecuted, RecordADR, RecordADRError, StoreError, IndInv, TypeOK,
        CallTypeOK
<1> QED
    BY <1>1, <1>2
    DEF Next, Tick, vars, CreateNext, CreateStep, RequireApproval,
        InsertApproval, RecordRequest, CreateError, AdminNext, AdminStep,
        AdminLoad, AdminCheck, AdminExpire, AdminDecide, AdminAudit,
        AdminError, SchedulerNext, SchedulerStep, SchedulerStart,
        SchedulerList, SchedulerMark, SchedulerAbort

\* When its store calls do not fail, a call that is told its approval has
\* expired leaves nothing to claim or decide behind, whoever else works on
\* the row and whatever fails for them (MarkApprovalExpired in
\* handleApprovedToolCall).
THEOREM ExpiryIsFinal ==
    ASSUME "call" \notin Faults
    PROVE  Spec => []ExpiredIsFinal
<1> DEFINE Told == \A c \in Calls : ToldExpired(c)
<1>1. Init => Told
    BY DEF Init, CallInit, ToldExpired
<1>2. IndInv /\ Told /\ [Next]_vars => Told'
    <2> SUFFICES ASSUME IndInv, Told, [Next]_vars, NEW c \in Calls,
                        resp'[c] = "expired"
                 PROVE  target'[c] \in Approvals /\ status'[target'[c]] \in Final
        BY DEF ToldExpired
    <2>1. TypeOK /\ CallOK(c)
        BY DEF IndInv, CallInv
    <2>2. CASE resp[c] = "expired"
        <3>1. target'[c] = target[c]
            BY <2>1, <2>2, TargetKept DEF CallOK
        <3>2. ReliableRow(target[c])
            BY <2>2, NextReliable DEF ToldExpired, ReliableRows
        <3> QED
            BY <2>2, <3>1, <3>2 DEF ToldExpired, ReliableRow, Final, Claimed
    <2>3. CASE resp[c] # "expired"
        <3>1. Expire(c)
            BY <2>1, <2>3, ExpireAnswers
        <3>2. /\ target[c] \in Approvals /\ target'[c] = target[c]
              /\ status[target[c]] \in Statuses \ {"NONE"}
            BY <2>1, <3>1 DEF Expire, CallOK, TypeOK, StoreTypeOK
        <3>3. CASE MarkApprovalExpired(target[c])
            BY <2>1, <3>2, <3>3
            DEF MarkApprovalExpired, TypeOK, StoreTypeOK, Final
        <3>4. CASE ~MarkableExpired(target[c]) /\ UNCHANGED columns
            BY <3>2, <3>4
            DEF MarkableExpired, columns, Statuses, Undecided, Decisions,
                Final, Claimed
        <3> QED BY <3>1, <3>3, <3>4 DEF Expire
    <2> QED BY <2>2, <2>3
<1>3. Told => ExpiredIsFinal
    BY DEF ToldExpired, Final, Claimed, ExpiredIsFinal
<1> QED BY <1>1, <1>2, <1>3, Invariance, PTL DEF Spec

-----------------------------------------------------------------------------
(* Refinement: every step of a request, of an operator or of the scheduler  *)
(* moves at most one approval, along the lifecycle of ApprovalLifecycle.     *)

ran == {target[c] : c \in received}
ranToAnswer == {target[c] : c \in answered}

\* The abstract state that a step of the workflow leaves alone.
Unmoved == UNCHANGED <<status, ran, ranToAnswer>>

Abstract == [Lifecycle!Next]_(Lifecycle!lifecycleVars)

LEMMA RunsUnmoved ==
    ASSUME UNCHANGED <<target, received, answered>>
    PROVE  UNCHANGED <<ran, ranToAnswer>>
BY DEF ran, ranToAnswer

LEMMA UnmovedIsAbstract ==
    ASSUME Unmoved
    PROVE  Abstract
BY DEF Unmoved, Abstract, ran, ranToAnswer, Lifecycle!lifecycleVars

\* Each statement is a move of the lifecycle.
LEMMA StatementIsMove ==
    ASSUME TypeOK, NEW a \in Approvals,
           UNCHANGED <<target, received, answered>>,
           \/ \E e \in Nat : InsertApprovalRequest(a, e) /\ status[a] = "NONE"
           \/ \E d \in Decisions, x \in Admins :
                 UpdateApprovalDecision(a, d, x)
           \/ MarkApprovalExpired(a)
           \/ \E k \in Credentials, t \in Nat :
                 ClaimApprovalExecution(a, k, t)
           \/ MarkApprovalExecutionFailed(a)
           \/ \E c \in answered : target[c] = a /\ MarkApprovalExecuted(a, c)
           \/ UNCHANGED columns
    PROVE  Abstract
<1> USE DEF Lifecycle!Next, Lifecycle!Move, Abstract
<1>1. ASSUME NEW e \in Nat, InsertApprovalRequest(a, e), status[a] = "NONE"
      PROVE  Lifecycle!Create(a)
    BY <1>1 DEF InsertApprovalRequest, Lifecycle!Create
<1>2. ASSUME NEW d \in Decisions, NEW x \in Admins,
             UpdateApprovalDecision(a, d, x)
      PROVE  Lifecycle!Decide(a, d)
    BY <1>2 DEF UpdateApprovalDecision, Decidable, Lifecycle!Decide
<1>3. ASSUME MarkApprovalExpired(a) PROVE Lifecycle!Expire(a)
    BY <1>3 DEF MarkApprovalExpired, MarkableExpired, Lifecycle!Expire
<1>4. ASSUME NEW k \in Credentials, NEW t \in Nat,
             ClaimApprovalExecution(a, k, t)
      PROVE  Lifecycle!Claim(a)
    BY <1>4 DEF ClaimApprovalExecution, Claimable, Lifecycle!Claim
<1>5. ASSUME MarkApprovalExecutionFailed(a) PROVE Lifecycle!Fail(a)
    BY <1>5 DEF MarkApprovalExecutionFailed, MarkableFailed, Lifecycle!Fail
<1>6. ASSUME NEW c \in answered, target[c] = a, MarkApprovalExecuted(a, c)
      PROVE  Lifecycle!Complete(a)
    BY <1>6 DEF MarkApprovalExecuted, MarkableExecuted, Lifecycle!Complete
<1>7. ASSUME UNCHANGED columns PROVE Unmoved
    BY <1>7, RunsUnmoved DEF Unmoved, columns
<1> QED
    BY <1>1, <1>2, <1>3, <1>4, <1>5, <1>6, <1>7, UnmovedIsAbstract
    DEF Decisions

LEMMA RunIsMove ==
    ASSUME NEW a \in Approvals, status[a] \in Claimed, ran' = ran \cup {a},
           UNCHANGED <<status, ranToAnswer>>
    PROVE  Abstract
<1>1. Lifecycle!Run(a)
    BY DEF Lifecycle!Run, ran, ranToAnswer, Claimed
<1> QED BY <1>1 DEF Abstract, Lifecycle!Next

LEMMA AnswerIsMove ==
    ASSUME NEW a \in Approvals, a \in ran,
           ranToAnswer' = ranToAnswer \cup {a}, UNCHANGED <<status, ran>>
    PROVE  Abstract
<1>1. Lifecycle!ToolAnswers(a)
    BY DEF Lifecycle!ToolAnswers, ran, ranToAnswer
<1> QED BY <1>1 DEF Abstract, Lifecycle!Next

LEMMA CallMoves ==
    ASSUME IndInv, NEW c \in Calls, CallNext(c)
    PROVE  Abstract
<1> DEFINE a == target[c]
<1>1. /\ TypeOK /\ CallOK(c) /\ answered \subseteq received
      /\ cred[c] \in Credentials /\ now[c] \in Nat
    BY SMTT(30), ConstantsAssumption DEF IndInv, CallInv, TypeOK, CallTypeOK
<1>2. ASSUME NEW b \in Approvals, NEW k \in Credentials, Load(c, b, k)
      PROVE  Abstract
    <2>1. c \notin received
        BY <1>1, <1>2 DEF Load, CallOK, AfterRun
    <2>2. \A d \in received : target'[d] = target[d]
        BY <1>1, <1>2, <2>1 DEF Load, TypeOK, CallTypeOK
    <2>3. Unmoved
        BY <1>1, <1>2, <2>2 DEF Load, Unmoved, ran, ranToAnswer, storeVars,
                                      columns
    <2> QED BY <2>3, UnmovedIsAbstract
<1>3. CASE RestValidate(c) \/ McpValidate(c) \/ RestReload(c) \/ McpReload(c)
           \/ RecordADR(c) \/ RecordADRError(c)
    <2>1. UNCHANGED <<status, target, received, answered>>
        BY <1>3 DEF RestValidate, McpValidate, RestReload, McpReload,
                    RecordADR, RecordADRError, storeVars, columns
    <2> QED BY <2>1, RunsUnmoved, UnmovedIsAbstract DEF Unmoved
<1>4. CASE Expire(c) \/ Claim(c) \/ MarkFailed(c) \/ MarkExecuted(c)
    <2>1. /\ a \in Approvals
          /\ pc[c] = "markExecuted" => c \in answered
        BY <1>1, <1>4 DEF Expire, Claim, MarkFailed, MarkExecuted, CallOK
    <2> QED
        BY <1>1, <1>4, <2>1, StatementIsMove
        DEF Expire, Claim, MarkFailed, MarkExecuted
<1>5. CASE StoreError(c)
    <2>1. CASE UNCHANGED columns
        <3>1. UNCHANGED <<status, target, received, answered>>
            BY <1>5, <2>1 DEF StoreError, columns
        <3> QED BY <3>1, RunsUnmoved, UnmovedIsAbstract DEF Unmoved
    <2>2. CASE ~UNCHANGED columns
        <3>1. /\ a \in Approvals
              /\ pc[c] = "markExecuted" => c \in answered
            BY <1>1, <1>5, <2>2 DEF StoreError, CallOK
        <3> QED BY <1>1, <1>5, <2>2, <3>1, StatementIsMove DEF StoreError
    <2> QED BY <2>1, <2>2
<1>6. CASE Execute(c)
    <2>1. a \in Approvals /\ status[a] \in Claimed
        BY <1>1, <1>6 DEF Execute, CallOK, Running, Admitted
    <2>2. CASE UNCHANGED received
        <3>1. UNCHANGED <<status, target, received, answered>>
            BY <1>6, <2>2 DEF Execute, storeVars, columns
        <3> QED BY <3>1, RunsUnmoved, UnmovedIsAbstract DEF Unmoved
    <2>3. CASE received' = received \cup {c}
        <3>1. ran' = ran \cup {a} /\ UNCHANGED <<status, ranToAnswer>>
            BY <1>6, <2>3 DEF Execute, ran, ranToAnswer, storeVars, columns
        <3> QED BY <2>1, <3>1, RunIsMove
    <2> QED BY <1>6, <2>2, <2>3 DEF Execute
<1>7. CASE UpstreamReply(c)
    <2>1. a \in Approvals /\ a \in ran
        BY <1>1, <1>7 DEF UpstreamReply, CallOK, ran
    <2>2. CASE UNCHANGED answered
        <3>1. UNCHANGED <<status, target, received, answered>>
            BY <1>7, <2>2 DEF UpstreamReply, storeVars, columns
        <3> QED BY <3>1, RunsUnmoved, UnmovedIsAbstract DEF Unmoved
    <2>3. CASE answered' = answered \cup {c}
        <3>1. ranToAnswer' = ranToAnswer \cup {a} /\ UNCHANGED <<status, ran>>
            BY <1>7, <2>3 DEF UpstreamReply, ran, ranToAnswer, storeVars,
                              columns
        <3> QED BY <2>1, <3>1, AnswerIsMove
    <2> QED BY <1>7, <2>2, <2>3 DEF UpstreamReply
<1> QED
    BY <1>2, <1>3, <1>4, <1>5, <1>6, <1>7 DEF CallNext, CallStep

LEMMA AdminMoves ==
    ASSUME IndInv, NEW x \in Admins, AdminNext(x)
    PROVE  Abstract
<1>1. TypeOK /\ AdminOK(x)
    BY DEF IndInv, AdminInv
<1>2. UNCHANGED <<target, received, answered>>
    BY DEF AdminNext, AdminStep, AdminLoad, AdminCheck, AdminExpire,
           AdminDecide, AdminAudit, AdminError, callVars, localVars
<1>3. \/ UNCHANGED columns
      \/ MarkApprovalExpired(subject[x]) /\ apc[x] = "expire"
      \/ UpdateApprovalDecision(subject[x], op[x], x) /\ apc[x] = "decide"
    BY DEF AdminNext, AdminStep, AdminLoad, AdminCheck, AdminExpire,
           AdminDecide, AdminAudit, AdminError, storeVars
<1>4. CASE UNCHANGED columns
    BY <1>2, <1>4, RunsUnmoved, UnmovedIsAbstract DEF Unmoved, columns
<1>5. CASE ~UNCHANGED columns
    <2>1. /\ subject[x] \in Approvals
          /\ apc[x] = "decide" => op[x] \in Decisions
        BY <1>1, <1>3, <1>5 DEF AdminOK
    <2> QED BY <1>1, <1>2, <1>3, <2>1, StatementIsMove
<1> QED BY <1>4, <1>5

LEMMA SystemMoves ==
    ASSUME IndInv, Next, \A c \in Calls : ~CallNext(c),
           \A x \in Admins : ~AdminNext(x)
    PROVE  Abstract
<1>1. TypeOK /\ CreatorInv
    BY DEF IndInv
<1>2. CASE Tick
    <2>1. UNCHANGED <<status, target, received, answered>>
        BY <1>2 DEF Tick, storeVars, columns, callVars, localVars
    <2> QED BY <2>1, RunsUnmoved, UnmovedIsAbstract DEF Unmoved
<1>3. ASSUME NEW a \in Approvals, CreateNext(a) PROVE Abstract
    <2>1. UNCHANGED <<target, received, answered>>
        BY <1>3 DEF CreateNext, CreateStep, RequireApproval, InsertApproval,
                    RecordRequest, CreateError, callVars, localVars
    <2>2. \/ UNCHANGED columns
          \/ /\ InsertApprovalRequest(a, draftExpiry[a])
             /\ creator[a] = "insert"
        BY <1>3 DEF CreateNext, CreateStep, RequireApproval, InsertApproval,
                    RecordRequest, CreateError, storeVars
    <2>3. /\ draftExpiry[a] \in Nat
          /\ creator[a] = "insert" => status[a] = "NONE"
        BY <1>1 DEF TypeOK, CreatorInv, CreatorOK
    <2> QED BY <1>1, <2>1, <2>2, <2>3, StatementIsMove
<1>4. CASE SchedulerNext
    <2>1. UNCHANGED <<target, received, answered>>
        BY <1>4 DEF SchedulerNext, SchedulerStep, SchedulerStart,
                    SchedulerList, SchedulerMark, SchedulerAbort, callVars,
                    localVars
    <2>2. UNCHANGED columns \/ \E a \in Approvals : MarkApprovalExpired(a)
        BY <1>4 DEF SchedulerNext, SchedulerStep, SchedulerStart,
                    SchedulerList, SchedulerMark, SchedulerAbort, storeVars
    <2>3. CASE UNCHANGED columns
        BY <2>1, <2>3, RunsUnmoved, UnmovedIsAbstract DEF Unmoved, columns
    <2> QED BY <1>1, <2>1, <2>2, <2>3, StatementIsMove
<1> QED BY <1>2, <1>3, <1>4 DEF Next

LEMMA InitMaps == Init => Lifecycle!Init
BY SMTT(30) DEF Init, StoreInit, CallInit, Lifecycle!Init

LEMMA StepMaps == IndInv /\ [Next]_vars => Abstract
<1> SUFFICES ASSUME IndInv, [Next]_vars PROVE Abstract
    OBVIOUS
<1>1. CASE UNCHANGED vars
    <2>1. UNCHANGED <<status, target, received, answered>>
        BY <1>1 DEF vars, storeVars, columns, callVars, localVars
    <2> QED BY <2>1, RunsUnmoved, UnmovedIsAbstract DEF Unmoved
<1> QED BY <1>1, CallMoves, AdminMoves, SystemMoves

\* The workflow implements the lifecycle: with any number of concurrent
\* requests, retries and store faults an approval is decided at most once,
\* expires or is claimed at most once, and ends EXECUTED only if the tool
\* has answered under it (store.go, handlers.go, mcp_handler.go).
THEOREM Refinement == Spec => LifecycleSpec
BY Invariance, InitMaps, StepMaps, PTL
DEF Spec, LifecycleSpec, Lifecycle!Spec, Abstract
=============================================================================
