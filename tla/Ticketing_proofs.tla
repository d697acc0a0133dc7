--------------------------- MODULE Ticketing_proofs ---------------------------
(***************************************************************************)
(* What is proved of the tickets that follow approvals: a decision that a  *)
(* webhook makes is one that people made in the tracker, and the links     *)
(* tell what became of the approvals.                                      *)
(*                                                                         *)
(* What a link, a task and a webhook carry was true of the approval when   *)
(* it was read, and a decision is final, so it stays true (LinkInv).  That *)
(* a webhook's decision is that of the approval's own ticket needs the     *)
(* keys of tickets to be distinct (KeysAreDistinct): links are looked up   *)
(* by provider and key.  One tracker gives distinct keys (OneTracker).     *)
(***************************************************************************)
EXTENDS Ticketing, FiniteSetTheorems, TLAPS

\* The provers that try a leaf which names none, and their time.
USE SMTT(15), ZenonT(30)

(* Links.  A goroutine or a webhook carries the decision it is about; a     *)
(* decision is replaced by an expiry and by nothing else, so what it writes *)
(* is true however late it is.                                             *)

ApprovalStates == {"none", "PENDING", "EXPIRED"} \cup Decided
Settled(a) == status[a] \in Decided \cup {"EXPIRED"}

\* The approval was set to s, and nothing but its expiry has followed.
Stands(a, s) == status[a] = s \/ (s = "APPROVED" /\ status[a] = "EXPIRED")

\* What a link of the approval may say.
Tells(a, s) ==
    /\ s = "RESOLVED" => status[a] \in {"APPROVED", "EXPIRED"}
    /\ s = "CLOSED" => status[a] \in {"DENIED", "REVOKED", "EXPIRED"}

Ends == {"RESOLVED", "CLOSED"}
LinkRecords ==
    [tenant : TicketTenants, approval : Approvals, provider : Providers, key : Nat,
     status : {"OPEN"} \cup Ends]

TicketStates ==
    Moves \cup Workflow \cup {"Open", "Backlog", "1", "2", "6", "7"}
TicketRecords ==
    [tenant : TicketTenants, provider : Providers, key : Nat, approval : Approvals,
     state : TicketStates]

TicketsInv == tickets \subseteq TicketRecords /\ IsFiniteSet(tickets)

CreateTells(y) ==
    /\ y.pc \in {"none", "start", "create", "link", "done"}
    /\ y.pc \in {"create", "link"} => y.provider \in Providers
    /\ y.pc = "link" => y.key \in Nat

UpdateTells(a, y) ==
    /\ y.pc \in {"none", "start", "config", "update", "linkstatus", "done"}
    /\ y.pc = "start" =>
         y.status \in Decided \cup {"EXPIRED"} /\ Stands(a, y.status)
    /\ y.pc = "config" => y \in [pc : {"config"}, link : LinkRecords, to : Ends]
    /\ y.pc \in {"update", "linkstatus"} =>
         y \in [pc : {"update", "linkstatus"}, link : LinkRecords, to : Ends,
                provider : Providers]
    /\ y.pc \in {"config", "update", "linkstatus"} =>
         y.link.approval = a /\ Tells(a, y.to)

HookTells(y) ==
    /\ y.pc \in {"none", "decide", "link", "done"}
    /\ y.pc \in {"decide", "link"} =>
         y \in [pc : {"decide", "link"}, link : LinkRecords, to : {"APPROVED", "DENIED"}]
    /\ y.pc = "link" => Stands(y.link.approval, y.to)

TasksTell ==
    /\ task = [x \in Approvals \X Kinds |-> task[x]]
    /\ \A x \in Approvals \X Kinds :
         IF x[2] = "create" THEN CreateTells(task[x]) ELSE UpdateTells(x[1], task[x])
HooksTell == hook = [h \in Hooks |-> hook[h]] /\ \A h \in Hooks : HookTells(hook[h])
LinksTell == links \subseteq LinkRecords /\ LinkTellsDecision

LinkInv ==
    /\ status \in [Approvals -> ApprovalStates]
    /\ TicketsInv /\ TasksTell /\ HooksTell /\ LinksTell

\* How the status of an approval may change.
RowStep ==
    \A a \in Approvals :
      \/ status'[a] = status[a]
      \/ status[a] = "none" /\ status'[a] = "PENDING"
      \/ status[a] = "PENDING" /\ status'[a] \in Decided \cup {"EXPIRED"}
      \/ status[a] = "APPROVED" /\ status'[a] = "EXPIRED"

\* What was settled, stood or could be told before a change of status, is,
\* does and can after it.
LEMMA RowStepKeeps ==
    ASSUME RowStep, NEW a \in Approvals, NEW s
    PROVE  /\ Settled(a) => Settled(a)'
           /\ s \in Decided \cup {"EXPIRED"} /\ Stands(a, s) => Stands(a, s)'
           /\ Tells(a, s) => Tells(a, s)'
  BY DEF RowStep, Settled, Stands, Tells, Decided

LEMMA MapWebhookStatusType ==
    ASSUME NEW p, NEW s
    PROVE  MapWebhookStatus(p, s) \in {"APPROVED", "DENIED", "none"}
  BY ZenonT(30) DEF MapWebhookStatus

\* What a decision or an expiry is translated to is what a link may say.
LEMMA MappedStatusTells ==
    ASSUME NEW a \in Approvals, NEW s \in Decided \cup {"EXPIRED"}, Stands(a, s)
    PROVE  /\ MapApprovalToTicketStatus(s) \in Ends
           /\ Tells(a, MapApprovalToTicketStatus(s))
  BY DEF MapApprovalToTicketStatus, Ends, Tells, Stands, Decided

\* Decisions and expiries change a row as RowStep says; nothing else does.
LEMMA NextRowStep ==
    ASSUME LinkInv, [TicketNext]_ticketVars
    PROVE  RowStep /\ status' \in [Approvals -> ApprovalStates]
<1> USE DEF RowStep, ApprovalStates, Decided
<1>0. status \in [Approvals -> ApprovalStates]
    BY DEF LinkInv
<1>1. CASE status' = status
    BY <1>0, <1>1
<1>2. CASE \E a \in Approvals : Require(a) \/ Expire(a)
    BY <1>0, <1>2 DEF Require, Expire
<1>3. CASE \E a \in Approvals, s \in Decided : Decide(a, s)
    BY <1>0, <1>3 DEF Decide, UpdateApprovalDecision
<1>4. CASE \E h \in Hooks : WebhookDecide(h)
  <2>1. PICK h \in Hooks : WebhookDecide(h)
      BY <1>4
  <2>2. hook[h].link.approval \in Approvals /\ hook[h].to \in {"APPROVED", "DENIED"}
      BY <2>1 DEF LinkInv, HooksTell, HookTells, WebhookDecide, LinkRecords
  <2> QED BY <1>0, <2>1, <2>2 DEF WebhookDecide, UpdateApprovalDecision, rows
<1> QED BY ZenonT(30), <1>1, <1>2, <1>3, <1>4
    DEF TicketNext, ticketVars, rows, TaskStep, CreateStep, HookStep, CreateStart,
        CreateTicket, InsertTicketLink, CreateError, UpdateStart, UpdateConfig,
        UpdateTicket, UpdateLinkStatus, UpdateError, Move, Webhook, WebhookLink,
        WebhookError, AdminRead, AdminWrites, ConfigUpdate, SecretRefSet

LEMMA InitLinkInv == TicketInit => LinkInv
  BY FS_EmptySet DEF TicketsInv, TicketInit, LinkInv, TasksTell, HooksTell, LinksTell, ApprovalStates, NoTask, CreateTells, UpdateTells, HookTells,
         LinkTellsDecision

-----------------------------------------------------------------------------
(* What a step of LinkInv's parts comes down to: they survive a change of a *)
(* status, and a write of a task, a hook or a link that tells the truth.   *)

LEMMA UpdateTellsKept ==
    ASSUME RowStep, NEW a \in Approvals, NEW y, UpdateTells(a, y)
    PROVE  UpdateTells(a, y)'
  BY RowStepKeeps DEF UpdateTells

LEMMA HookTellsKept ==
    ASSUME RowStep, NEW y, HookTells(y)
    PROVE  HookTells(y)'
  BY RowStepKeeps DEF HookTells, LinkRecords, Decided

LEMMA TasksKept == ASSUME TasksTell, RowStep, task' = task PROVE TasksTell'
<1>1. ASSUME NEW x \in Approvals \X Kinds
      PROVE  IF x[2] = "create" THEN CreateTells(task[x])' ELSE UpdateTells(x[1], task[x])'
  <2>1. x[1] \in Approvals
      OBVIOUS
  <2>2. CASE x[2] = "create"
      BY <2>2 DEF TasksTell, CreateTells
  <2>3. CASE x[2] # "create"
    <3>1. UpdateTells(x[1], task[x])
        BY <2>3 DEF TasksTell
    <3> QED BY <2>1, <2>3, <3>1, UpdateTellsKept DEF UpdateTells
  <2> QED BY <2>2, <2>3
<1> QED BY <1>1 DEF TasksTell

LEMMA TaskSet ==
    ASSUME TasksTell, RowStep, NEW z \in Approvals \X Kinds, NEW y,
           task' = [task EXCEPT ![z] = y],
           z[2] = "create" => CreateTells(y),
           z[2] # "create" => UpdateTells(z[1], y)'
    PROVE  TasksTell'
<1>0. task' = [x \in Approvals \X Kinds |-> IF x = z THEN y ELSE task[x]]
    BY ZenonT(30) DEF TasksTell
<1>1. ASSUME NEW x \in Approvals \X Kinds
      PROVE  IF x[2] = "create" THEN CreateTells(task'[x]) ELSE UpdateTells(x[1], task[x])'
  <2>1. x[1] \in Approvals
      OBVIOUS
  <2>2. CASE x = z
      BY <1>0, <2>2 DEF UpdateTells, Tells, Stands
  <2>3. CASE x # z /\ x[2] = "create"
      BY <1>0, <2>3 DEF TasksTell
  <2>4. CASE x # z /\ x[2] # "create"
    <3>1. UpdateTells(x[1], task[x]) /\ task'[x] = task[x]
        BY <1>0, <2>4 DEF TasksTell
    <3> QED BY <2>1, <2>4, <3>1, UpdateTellsKept DEF UpdateTells, Tells, Stands
  <2> QED BY <2>2, <2>3, <2>4
<1> QED BY ZenonT(30), <1>0, <1>1 DEF TasksTell, CreateTells

LEMMA HooksKept == ASSUME HooksTell, RowStep, hook' = hook PROVE HooksTell'
  BY HookTellsKept DEF HooksTell, HookTells, Stands

LEMMA HookSet ==
    ASSUME HooksTell, RowStep, NEW z \in Hooks, NEW y,
           hook' = [hook EXCEPT ![z] = y], HookTells(y)'
    PROVE  HooksTell'
<1>0. hook' = [h \in Hooks |-> IF h = z THEN y ELSE hook[h]]
    BY DEF HooksTell
<1>1. ASSUME NEW h \in Hooks PROVE HookTells(hook[h])'
  <2>1. CASE h = z
      BY <1>0, <2>1 DEF HookTells, Stands
  <2>2. CASE h # z
    <3>1. HookTells(hook[h]) /\ hook'[h] = hook[h]
        BY <1>0, <2>2 DEF HooksTell
    <3> QED BY <3>1, HookTellsKept DEF HookTells, Stands
  <2> QED BY <2>1, <2>2
<1> QED BY <1>0, <1>1 DEF HooksTell

LEMMA LinksKept == ASSUME LinksTell, RowStep, links' = links PROVE LinksTell'
  BY RowStepKeeps DEF LinksTell, LinkTellsDecision, Tells, LinkRecords

\* The UPDATE of a link says of the approval what may be said.
LEMMA LinkSet ==
    ASSUME LinksTell, RowStep, NEW l \in LinkRecords, NEW s \in Ends,
           Tells(l.approval, s)', SetLinkStatus(l, s)
    PROVE  LinksTell'
<1>1. ASSUME NEW n \in links' PROVE n \in LinkRecords /\ Tells(n.approval, n.status)'
  <2>1. PICK k \in links : n = IF k.approval = l.approval /\ k.provider = l.provider
                               THEN [k EXCEPT !.status = s] ELSE k
      BY <1>1 DEF SetLinkStatus
  <2>2. k \in LinkRecords /\ Tells(k.approval, k.status)
      BY DEF LinksTell, LinkTellsDecision, Tells
  <2>3. CASE n = k
      BY <2>2, <2>3, RowStepKeeps DEF LinkRecords
  <2>4. CASE n = [k EXCEPT !.status = s] /\ k.approval = l.approval
    <3>1. n \in LinkRecords /\ n.approval = l.approval /\ n.status = s
        BY <2>2, <2>4 DEF LinkRecords
    <3> QED BY <3>1 DEF Tells
  <2> QED BY <2>1, <2>3, <2>4
<1> QED BY <1>1 DEF LinksTell, LinkTellsDecision, Tells

\* The writes of OnApprovalCreated and of updateTicket are such.
LEMMA CreateKeeps ==
    ASSUME LinkInv, RowStep, NEW a \in Approvals, CreateStep(a)
    PROVE  TasksTell' /\ LinksTell'
<1> DEFINE x == <<a, "create">>
<1>0. x \in Approvals \X Kinds /\ x[1] = a /\ x[2] = "create"
    BY DEF Kinds
<1>1. TasksTell /\ LinksTell /\ CreateTells(task[x])
    BY <1>0 DEF LinkInv, TasksTell
<1>2. CreateTells(Done)
    BY DEF CreateTells, Done
<1>3. CASE task' = [task EXCEPT ![x] = Done] /\ links' = links
    BY ZenonT(30), <1>0, <1>1, <1>2, <1>3, TaskSet, LinksKept
<1>4. CASE CreateStart(a)
  <2>1. CASE task' = [task EXCEPT ![x] = [pc |-> "create", provider |-> config[TenantOf[a]].provider]]
             /\ BuildProvider(config[TenantOf[a]])
    <3>1. CreateTells([pc |-> "create", provider |-> config[TenantOf[a]].provider])
        BY <2>1 DEF CreateTells, BuildProvider
    <3> QED BY ZenonT(30), <1>0, <1>1, <1>4, <2>1, <3>1, TaskSet, LinksKept DEF CreateStart
  <2> QED BY <1>3, <1>4, <2>1 DEF CreateStart, Becomes
<1>5. CASE CreateTicket(a)
  <2>1. PICK p, key : /\ p = task[x].provider
                      /\ key = Cardinality(InTracker(TenantOf[a], p)) + 1
      OBVIOUS
  <2>2. key \in Nat
      BY <2>1, FS_Subset, FS_CardinalityType DEF InTracker, LinkInv, TicketsInv
  <2>3. CreateTells([pc |-> "link", provider |-> p, key |-> key])
      BY <1>1, <1>5, <2>1, <2>2 DEF CreateTells, CreateTicket, TaskAt
  <2>4. CASE task' = [task EXCEPT ![x] = [pc |-> "link", provider |-> p, key |-> key]]
      BY ZenonT(30), <1>0, <1>1, <1>5, <2>3, <2>4, TaskSet, LinksKept DEF CreateTicket
  <2> QED BY <1>3, <1>5, <2>1, <2>4 DEF CreateTicket, Becomes
<1>6. CASE InsertTicketLink(a)
  <2>1. TasksTell'
      BY ZenonT(30), <1>0, <1>1, <1>2, <1>6, TaskSet DEF InsertTicketLink, Becomes
  <2>2. PICK l : /\ l = [tenant |-> TenantOf[a], approval |-> a, provider |-> task[x].provider,
                         key |-> task[x].key, status |-> "OPEN"]
                 /\ links' = links \cup {l}
      BY ZenonT(30), <1>6 DEF InsertTicketLink
  <2>3. l \in LinkRecords /\ l.status = "OPEN"
      BY ZenonT(30), <1>1, <1>6, <2>2, TicketingAssumption
      DEF LinkRecords, CreateTells, InsertTicketLink, TaskAt
  <2>4. LinksTell'
      BY <1>1, <2>2, <2>3, RowStepKeeps DEF LinksTell, LinkTellsDecision, LinkRecords, Tells
  <2> QED BY <2>1, <2>4
<1>7. CASE CreateError(a)
    BY <1>3, <1>7 DEF CreateError, Becomes
<1> QED BY <1>4, <1>5, <1>6, <1>7 DEF CreateStep

LEMMA UpdateKeeps ==
    ASSUME LinkInv, RowStep, NEW x \in Approvals \X Kinds, TaskStep(x)
    PROVE  TasksTell' /\ LinksTell'
<1>0. x[2] # "create" /\ x[1] \in Approvals
    BY DEF TaskStep, UpdateStart, UpdateConfig, UpdateTicket, UpdateLinkStatus, UpdateError,
           TaskAt, LinkInv, TasksTell, CreateTells
<1>1. TasksTell /\ LinksTell /\ UpdateTells(x[1], task[x])
    BY <1>0 DEF LinkInv, TasksTell
<1>2. UpdateTells(x[1], Done)'
    BY DEF UpdateTells, Done
<1>3. CASE task' = [task EXCEPT ![x] = Done] /\ links' = links
    BY ZenonT(30), <1>0, <1>1, <1>2, <1>3, TaskSet, LinksKept
<1>4. CASE UpdateStart(x)
  <2>1. ASSUME NEW l \in LinkOf(x[1]), NEW y,
               y = [pc |-> "config", link |-> l, to |-> MapApprovalToTicketStatus(task[x].status)],
               task' = [task EXCEPT ![x] = y]
        PROVE  TasksTell' /\ LinksTell'
    <3>1. l \in LinkRecords /\ l.approval = x[1]
        BY <1>1, <2>1 DEF LinkOf, LinksTell
    <3>2. y.to \in Ends /\ Tells(x[1], y.to)
        BY <1>0, <1>1, <1>4, <2>1, MappedStatusTells DEF UpdateTells, UpdateStart, TaskAt
    <3>3. UpdateTells(x[1], y)'
      <4>1. Tells(x[1], y.to)'
          BY <1>0, <3>2, RowStepKeeps
      <4> QED BY <2>1, <3>1, <3>2, <4>1 DEF UpdateTells
    <3> QED BY ZenonT(30), <1>0, <1>1, <1>4, <2>1, <3>3, TaskSet, LinksKept DEF UpdateStart
  <2> QED BY <1>3, <1>4, <2>1 DEF UpdateStart, Becomes
<1>5. CASE UpdateConfig(x)
  <2>1. ASSUME NEW y, BuildProvider(config[TenantOf[x[1]]]),
               y = [pc |-> "update", link |-> task[x].link, to |-> task[x].to,
                    provider |-> config[TenantOf[x[1]]].provider],
               task' = [task EXCEPT ![x] = y]
        PROVE  TasksTell' /\ LinksTell'
    <3>1. Tells(x[1], y.to)'
        BY <1>0, <1>1, <1>5, <2>1, RowStepKeeps DEF UpdateTells, UpdateConfig, TaskAt
    <3>2. UpdateTells(x[1], y)'
        BY <1>1, <1>5, <2>1, <3>1 DEF UpdateTells, UpdateConfig, TaskAt, BuildProvider
    <3> QED BY ZenonT(30), <1>0, <1>1, <1>5, <2>1, <3>2, TaskSet, LinksKept DEF UpdateConfig
  <2> QED BY <1>3, <1>5, <2>1 DEF UpdateConfig, Becomes
<1>6. CASE UpdateTicket(x)
  <2>1. ASSUME NEW y, y = [task[x] EXCEPT !.pc = "linkstatus"],
               task' = [task EXCEPT ![x] = y]
        PROVE  TasksTell' /\ LinksTell'
    <3>1. task[x].pc = "update"
        BY <1>6 DEF UpdateTicket, TaskAt
    <3>2. /\ task[x] \in [pc : {"update", "linkstatus"}, link : LinkRecords, to : Ends,
                          provider : Providers]
          /\ task[x].link.approval = x[1] /\ Tells(x[1], task[x].to)
        BY <1>1, <3>1 DEF UpdateTells
    <3>3. /\ y \in [pc : {"update", "linkstatus"}, link : LinkRecords, to : Ends,
                    provider : Providers]
          /\ y.pc = "linkstatus" /\ y.link.approval = x[1] /\ y.to = task[x].to
        BY <2>1, <3>2
    <3>4. Tells(x[1], y.to)'
        BY <1>0, <3>2, <3>3, RowStepKeeps
    <3>5. UpdateTells(x[1], y)'
        BY <3>3, <3>4 DEF UpdateTells
    <3> QED BY ZenonT(30), <1>0, <1>1, <1>6, <2>1, <3>5, TaskSet, LinksKept DEF UpdateTicket
  <2>2. links' = links
      BY <1>6 DEF UpdateTicket
  <2> QED BY <1>3, <1>6, <2>1, <2>2, ZenonT(30) DEF UpdateTicket, Becomes
<1>7. CASE UpdateLinkStatus(x)
  <2>1. TasksTell'
      BY ZenonT(30), <1>0, <1>1, <1>2, <1>7, TaskSet DEF UpdateLinkStatus, Becomes
  <2>2. /\ task[x].link \in LinkRecords /\ task[x].to \in Ends
        /\ task[x].link.approval = x[1] /\ Tells(x[1], task[x].to)
      BY <1>1, <1>7 DEF UpdateTells, UpdateLinkStatus, TaskAt
  <2>3. PICK l, s : l = task[x].link /\ s = task[x].to
      OBVIOUS
  <2>4. Tells(l.approval, s)'
      BY <1>0, <2>2, <2>3, RowStepKeeps
  <2> QED BY <1>1, <1>7, <2>1, <2>2, <2>3, <2>4, LinkSet DEF UpdateLinkStatus
<1>8. CASE UpdateError(x)
    BY <1>3, <1>8 DEF UpdateError, Becomes
<1> QED BY <1>4, <1>5, <1>6, <1>7, <1>8 DEF TaskStep

\* So are those of the webhook: it moves the row, and then the link.
LEMMA HookKeeps ==
    ASSUME LinkInv, RowStep, status' \in [Approvals -> ApprovalStates], NEW z \in Hooks,
           HookStep(z) \/ \E w \in posted : Webhook(z, w)
    PROVE  HooksTell' /\ LinksTell'
<1>0. HooksTell /\ LinksTell /\ HookTells(hook[z])
    BY DEF LinkInv, HooksTell
<1>1. HookTells(Done)'
    BY DEF HookTells, Done
<1>2. CASE hook' = [hook EXCEPT ![z] = Done] /\ links' = links
    BY ZenonT(30), <1>0, <1>1, <1>2, HookSet, LinksKept
<1>3. ASSUME NEW w \in posted, Webhook(z, w) PROVE HooksTell' /\ LinksTell'
  <2>0. PICK l \in links :
             hook' = [hook EXCEPT ![z] =
               [pc |-> "decide", link |-> l, to |-> MapWebhookStatus(w.provider, w.state)]]
      BY ZenonT(30), <1>3 DEF Webhook, GetTicketLinkByExternalKey
  <2> DEFINE y == [pc |-> "decide", link |-> l, to |-> MapWebhookStatus(w.provider, w.state)]
  <2>1. hook' = [hook EXCEPT ![z] = y]
      BY <2>0
  <2> HIDE DEF y
  <2>2. y.to \in {"APPROVED", "DENIED"}
      BY <1>3, MapWebhookStatusType DEF Webhook, y
  <2>3. HookTells(y)'
      BY <1>0, <2>2, Zenon DEF HookTells, LinksTell, y
  <2> QED BY ZenonT(30), <1>0, <1>3, <2>1, <2>3, HookSet, LinksKept DEF Webhook
<1>4. CASE WebhookDecide(z)
  <2>1. links' = links
      BY <1>4 DEF WebhookDecide
  <2>2. CASE status[hook[z].link.approval] = status'[hook[z].link.approval]
      BY <1>2, <1>4, <2>1, <2>2 DEF WebhookDecide
  <2>3. CASE status[hook[z].link.approval] # status'[hook[z].link.approval]
    <3>1. PICK y : y = [hook[z] EXCEPT !.pc = "link"]
        BY ZenonT(30)
    <3>2. hook' = [hook EXCEPT ![z] = y]
        BY <1>4, <2>3, <3>1, ZenonT(30) DEF WebhookDecide
    <3>3. hook[z] \in [pc : {"decide", "link"}, link : LinkRecords, to : {"APPROVED", "DENIED"}]
        BY <1>0, <1>4 DEF HookTells, WebhookDecide
    <3>4. /\ y \in [pc : {"decide", "link"}, link : LinkRecords, to : {"APPROVED", "DENIED"}]
          /\ y.link = hook[z].link /\ y.to = hook[z].to
        BY <3>1, <3>3
    <3>5. y.link.approval \in Approvals
        BY <3>4 DEF LinkRecords
    <3>6. status' = [status EXCEPT ![y.link.approval] = y.to]
        BY <1>4, <2>3, <3>4 DEF WebhookDecide, UpdateApprovalDecision, rows
    <3>7. status'[y.link.approval] = y.to
        BY <3>5, <3>6 DEF LinkInv
    <3>8. HookTells(y)'
        BY <3>4, <3>7 DEF HookTells, Stands
    <3> QED BY ZenonT(30), <1>0, <2>1, <3>2, <3>8, HookSet, LinksKept
  <2> QED BY <2>2, <2>3
<1>5. CASE WebhookLink(z)
  <2>1. PICK l, s : l = hook[z].link /\ s = IF hook[z].to = "DENIED" THEN "CLOSED" ELSE "RESOLVED"
      OBVIOUS
  <2>2. l \in LinkRecords /\ s \in Ends /\ Tells(l.approval, s)
      BY <1>0, <1>5, <2>1 DEF HookTells, WebhookLink, Stands, Tells, Ends
  <2>3. Tells(l.approval, s)'
      BY <2>2, RowStepKeeps DEF LinkRecords
  <2>4. SetLinkStatus(l, s) /\ hook' = [hook EXCEPT ![z] = Done]
      BY <1>5, <2>1, ZenonT(30) DEF WebhookLink
  <2> QED BY ZenonT(30), <1>0, <1>1, <2>2, <2>3, <2>4, HookSet, LinkSet
<1>6. CASE WebhookError(z)
    BY <1>2, <1>6 DEF WebhookError
<1> QED BY <1>3, <1>4, <1>5, <1>6 DEF HookStep

\* Starting a goroutine for a decision or an expiry.
LEMMA RowsKeep ==
    ASSUME LinkInv, RowStep, NEW a \in Approvals,
           Require(a) \/ Expire(a) \/ \E s \in Decided : Decide(a, s)
    PROVE  TasksTell'
<1>0. TasksTell /\ status \in [Approvals -> ApprovalStates]
    BY DEF LinkInv
<1>1. ASSUME NEW y, NEW z \in Approvals \X Kinds, NEW s, y = [pc |-> "start", status |-> s],
             z[1] = a, task' = [task EXCEPT ![z] = y],
             z[2] # "create" => s \in Decided \cup {"EXPIRED"} /\ status'[a] = s
      PROVE  TasksTell'
  <2>1. CreateTells(y) /\ (z[2] # "create" => UpdateTells(a, y)')
      BY <1>1 DEF CreateTells, UpdateTells, Stands
  <2> QED BY ZenonT(30), <1>0, <1>1, <2>1, TaskSet
<1>2. <<a, "create">> \in Approvals \X Kinds /\ <<a, "decided">> \in Approvals \X Kinds
      /\ <<a, "expired">> \in Approvals \X Kinds
    BY DEF Kinds
<1>3. CASE Require(a)
    BY ZenonT(30), <1>1, <1>2, <1>3 DEF Require, Started
<1>4. CASE Expire(a)
  <2>1. status'[a] = "EXPIRED"
      BY <1>0, <1>4 DEF Expire
  <2> QED BY ZenonT(30), <1>1, <1>2, <1>4, <2>1 DEF Expire, Started
<1>5. ASSUME NEW s \in Decided, Decide(a, s) PROVE TasksTell'
  <2>1. status'[a] = s
      BY <1>0, <1>5 DEF Decide, UpdateApprovalDecision
  <2> QED BY ZenonT(30), <1>1, <1>2, <1>5, <2>1 DEF Decide, Started
<1> QED BY <1>3, <1>4, <1>5

-----------------------------------------------------------------------------
(* Tickets: created once, and then moved from state to state. *)

TicketFor(a, key) == \E k \in tickets : k.approval = a /\ k.key = key

\* No two tickets have the same key, in whichever trackers they are.
KeysAreDistinct == \A k, l \in tickets : k.key = l.key => k = l

LEMMA UpdatedState ==
    ASSUME NEW p \in Providers, NEW st \in TicketStates, NEW s \in Ends
    PROVE  Updated(p, st, s) \in TicketStates
<1>1. MapServiceNowState(s) \in {"6", "7"}
    BY ZenonT(30) DEF MapServiceNowState, Ends
<1>2. CASE p = "jira"
  <2>1. Updated(p, st, s) = UpdatedJira(st, s)
      BY <1>2, ZenonT(30) DEF Updated
  <2> QED BY <2>1, ZenonT(30) DEF UpdatedJira, TicketStates
<1>3. CASE p = "linear"
  <2>1. Updated(p, st, s) = UpdatedLinear(st, s)
      BY <1>3 DEF Updated
  <2> QED BY <2>1, ZenonT(30) DEF UpdatedLinear, TicketStates
<1>4. CASE p = "servicenow"
  <2>1. Updated(p, st, s) = UpdatedServiceNow(st, s)
      BY <1>4 DEF Updated
  <2> QED BY <1>1, <2>1 DEF UpdatedServiceNow, TicketStates
<1> QED BY <1>2, <1>3, <1>4 DEF Providers

\* A move, whoever makes it, changes the state of a ticket and nothing else.
LEMMA TicketMoved ==
    ASSUME TicketsInv, NEW k \in tickets, NEW st \in TicketStates,
           tickets' = (tickets \ {k}) \cup {[k EXCEPT !.state = st]}
    PROVE  /\ TicketsInv'
           /\ \A a, key : TicketFor(a, key) => TicketFor(a, key)'
           /\ KeysAreDistinct => KeysAreDistinct' /\ Cardinality(tickets') = Cardinality(tickets)
           /\ \A l \in tickets' : \E o \in tickets :
                l.tenant = o.tenant /\ l.provider = o.provider /\ l.approval = o.approval
                /\ l.key = o.key
<1>1. PICK n : n = [k EXCEPT !.state = st]
    BY ZenonT(30)
<1>2. /\ n \in TicketRecords /\ k \in TicketRecords /\ n.tenant = k.tenant
      /\ n.provider = k.provider /\ n.approval = k.approval /\ n.key = k.key
    BY <1>1 DEF TicketsInv, TicketRecords
<1>3. tickets' = (tickets \ {k}) \cup {n}
    BY <1>1
<1>4. /\ IsFiniteSet(tickets \ {k}) /\ Cardinality(tickets) \in Nat
      /\ Cardinality(tickets \ {k}) = Cardinality(tickets) - 1
  <2>1. IsFiniteSet(tickets)
      BY DEF TicketsInv
  <2>2. IsFiniteSet(tickets \ {k})
      BY <2>1, FS_RemoveElement
  <2>3. Cardinality(tickets \ {k}) = Cardinality(tickets) - 1
      BY SMTT(30), <2>1, FS_RemoveElement
  <2>4. Cardinality(tickets) \in Nat
      BY <2>1, FS_CardinalityType
  <2> QED BY <2>2, <2>3, <2>4
<1>5. /\ IsFiniteSet((tickets \ {k}) \cup {n})
      /\ n \notin tickets \ {k} =>
           Cardinality((tickets \ {k}) \cup {n}) = Cardinality(tickets \ {k}) + 1
    BY <1>4, FS_AddElement, ZenonT(30)
<1>6. TicketsInv'
    BY <1>2, <1>3, <1>5 DEF TicketsInv
<1>7. \A a, key : TicketFor(a, key) => TicketFor(a, key)'
    BY <1>2, <1>3 DEF TicketFor
<1>8. ASSUME KeysAreDistinct
      PROVE  KeysAreDistinct' /\ Cardinality(tickets') = Cardinality(tickets)
  <2>1. n \notin tickets \ {k}
      BY <1>2, <1>8 DEF KeysAreDistinct
  <2>2. Cardinality(tickets') = Cardinality(tickets \ {k}) + 1
      BY <1>3, <1>5, <2>1
  <2>3. KeysAreDistinct'
      BY <1>2, <1>3, <1>8 DEF KeysAreDistinct
  <2> QED BY <1>4, <2>2, <2>3
<1>9. \A l \in tickets' : \E o \in tickets :
        l.tenant = o.tenant /\ l.provider = o.provider /\ l.approval = o.approval
        /\ l.key = o.key
    BY <1>2, <1>3
<1> QED BY <1>6, <1>7, <1>8, <1>9

\* The ticket that the tracker makes has the next number of that tracker.
LEMMA TicketCreated ==
    ASSUME LinkInv, NEW a \in Approvals, CreateTicket(a)
    PROVE  /\ TicketsInv'
           /\ \A b, key : TicketFor(b, key) => TicketFor(b, key)'
           /\ \E n \in TicketRecords :
                /\ tickets' = tickets \cup {n}
                /\ n.tenant = TenantOf[a] /\ n.provider = task[<<a, "create">>].provider
                /\ n.key = Cardinality(InTracker(n.tenant, n.provider)) + 1
                /\ n.approval = a
                /\ \/ task' = [task EXCEPT ![<<a, "create">>] =
                                 [pc |-> "link", provider |-> n.provider, key |-> n.key]]
                   \/ task' = [task EXCEPT ![<<a, "create">>] = Done]
<1> DEFINE x == <<a, "create">>
<1>1. PICK t, p, key : /\ t = TenantOf[a] /\ p = task[x].provider
                       /\ key = Cardinality(InTracker(t, p)) + 1
    OBVIOUS
<1>2. t \in TicketTenants /\ p \in Providers /\ key \in Nat
  <2>1. x \in Approvals \X Kinds /\ x[2] = "create"
      BY DEF Kinds
  <2>2. CreateTells(task[x]) /\ task[x].pc = "create"
      BY <2>1, ZenonT(30) DEF LinkInv, TasksTell, CreateTicket, TaskAt
  <2>3. IsFiniteSet(InTracker(t, p))
      BY FS_Subset DEF InTracker, LinkInv, TicketsInv
  <2>4. Cardinality(InTracker(t, p)) \in Nat
      BY <2>3, FS_CardinalityType
  <2>5. key \in Nat
      BY ONLY <1>1, <2>4, SMTT(15)
  <2> QED BY ZenonT(30), <1>1, <2>2, <2>5, TicketingAssumption DEF CreateTells
<1>3. PICK n : n = [tenant |-> t, provider |-> p, key |-> key, approval |-> a,
                    state |-> Created(p)]
    BY ZenonT(30)
<1>4. Created(p) \in TicketStates
  <2>1. Created(p) \in {"Open", "1", "Backlog"}
      BY <1>2, ZenonT(30) DEF Created, CreatedJira, CreatedServiceNow, CreatedLinear, Providers
  <2> QED BY <2>1 DEF TicketStates
<1>5. n \in TicketRecords
    BY <1>2, <1>3, <1>4 DEF TicketRecords
<1>6. /\ tickets' = tickets \cup {n}
      /\ \/ task' = [task EXCEPT ![x] = [pc |-> "link", provider |-> p, key |-> key]]
         \/ task' = [task EXCEPT ![x] = Done]
    BY <1>1, <1>3, ZenonT(30) DEF CreateTicket, Becomes
<1>7. TicketsInv'
    BY <1>5, <1>6, FS_AddElement DEF LinkInv, TicketsInv
<1>8. \A b, q : TicketFor(b, q) => TicketFor(b, q)'
    BY <1>6 DEF TicketFor
<1>9. n.tenant = t /\ n.provider = p /\ n.key = key /\ n.approval = a
    BY <1>3
<1> QED BY <1>1, <1>5, <1>6, <1>7, <1>8, <1>9

-----------------------------------------------------------------------------
(* LinkInv is an invariant. *)

LEMMA NextTicketsInv ==
    ASSUME LinkInv, [TicketNext]_ticketVars
    PROVE  /\ TicketsInv'
           /\ \A a, key : TicketFor(a, key) => TicketFor(a, key)'
<1>0. TicketsInv
    BY DEF LinkInv
<1>1. CASE tickets' = tickets
    BY <1>0, <1>1 DEF TicketsInv, TicketFor
<1>2. ASSUME NEW a \in Approvals, CreateTicket(a)
      PROVE  TicketsInv' /\ \A b, key : TicketFor(b, key) => TicketFor(b, key)'
    BY <1>2, TicketCreated, ZenonT(30)
<1>3. ASSUME NEW x \in Approvals \X Kinds, UpdateTicket(x), tickets' # tickets
      PROVE  TicketsInv' /\ \A b, key : TicketFor(b, key) => TicketFor(b, key)'
  <2>1. PICK k, st : /\ k \in tickets /\ st = Updated(k.provider, k.state, task[x].to)
                     /\ tickets' = (tickets \ {k}) \cup {[k EXCEPT !.state = st]}
      BY <1>3, ZenonT(30) DEF UpdateTicket, InTracker
  <2>2. task[x].to \in Ends
    <3>1. task[x].pc = "update" /\ x[2] # "create"
        BY <1>3 DEF UpdateTicket, TaskAt, LinkInv, TasksTell, CreateTells
    <3> QED BY <3>1 DEF LinkInv, TasksTell, UpdateTells
  <2>3. st \in TicketStates
      BY <1>0, <2>1, <2>2, UpdatedState DEF TicketsInv, TicketRecords
  <2> QED BY <1>0, <2>1, <2>3, TicketMoved, ZenonT(30)
<1>4. ASSUME NEW k \in tickets, NEW st \in Moves, Move(k, st)
      PROVE  TicketsInv' /\ \A b, key : TicketFor(b, key) => TicketFor(b, key)'
  <2>1. st \in TicketStates /\ tickets' = (tickets \ {k}) \cup {[k EXCEPT !.state = st]}
      BY <1>4, ZenonT(30) DEF Move, TicketStates
  <2> QED BY <1>0, <2>1, TicketMoved, ZenonT(30)
<1> QED BY <1>1, <1>2, <1>3, <1>4, ZenonT(30)
    DEF TicketNext, ticketVars, trackers, TaskStep, CreateStep, HookStep, Require, Expire, Decide,
        CreateStart, InsertTicketLink, CreateError, UpdateStart, UpdateConfig,
        UpdateLinkStatus, UpdateError, Webhook, WebhookDecide, WebhookLink, WebhookError,
        AdminRead, AdminWrites, ConfigUpdate, SecretRefSet

LEMMA NextLinkInv == ASSUME LinkInv, [TicketNext]_ticketVars PROVE LinkInv'
<1>0. RowStep /\ status' \in [Approvals -> ApprovalStates] /\ TicketsInv'
    BY NextRowStep, NextTicketsInv
<1>1. TasksTell /\ HooksTell /\ LinksTell
    BY DEF LinkInv
<1>2. task' = task => TasksTell'
    BY <1>0, <1>1, TasksKept
<1>3. hook' = hook => HooksTell'
    BY <1>0, <1>1, HooksKept
<1>4. links' = links => LinksTell'
    BY <1>0, <1>1, LinksKept
<1>5. TasksTell' /\ HooksTell' /\ LinksTell'
  <2>1. ASSUME NEW a \in Approvals, Require(a) \/ Expire(a) \/ \E s \in Decided : Decide(a, s)
        PROVE  TasksTell' /\ HooksTell' /\ LinksTell'
    <3>1. hook' = hook /\ links' = links
        BY <2>1, ZenonT(30) DEF Require, Expire, Decide
    <3> QED BY <1>0, <1>3, <1>4, <2>1, <3>1, RowsKeep, ZenonT(30)
  <2>2. ASSUME NEW a \in Approvals, CreateStep(a) PROVE TasksTell' /\ HooksTell' /\ LinksTell'
    <3>1. hook' = hook
        BY <2>2, ZenonT(30) DEF CreateStep, CreateStart, CreateTicket, InsertTicketLink, CreateError
    <3> QED BY <1>0, <1>3, <2>2, <3>1, CreateKeeps, ZenonT(30)
  <2>3. ASSUME NEW x \in Approvals \X Kinds, TaskStep(x)
        PROVE  TasksTell' /\ HooksTell' /\ LinksTell'
    <3>1. hook' = hook
        BY <2>3, ZenonT(30) DEF TaskStep, UpdateStart, UpdateConfig, UpdateTicket, UpdateLinkStatus,
                           UpdateError
    <3> QED BY <1>0, <1>3, <2>3, <3>1, UpdateKeeps, ZenonT(30)
  <2>4. ASSUME NEW h \in Hooks, HookStep(h) \/ \E w \in posted : Webhook(h, w)
        PROVE  TasksTell' /\ HooksTell' /\ LinksTell'
    <3>1. task' = task
        BY <2>4, ZenonT(30) DEF HookStep, Webhook, WebhookDecide, WebhookLink, WebhookError
    <3> QED BY <1>0, <1>2, <2>4, <3>1, HookKeeps, ZenonT(30)
  <2>5. CASE UNCHANGED <<task, hook, links>>
      BY <1>2, <1>3, <1>4, <2>5, ZenonT(30)
  <2> QED BY <2>1, <2>2, <2>3, <2>4, <2>5, ZenonT(30)
      DEF TicketNext, ticketVars, Move, AdminRead, AdminWrites, ConfigUpdate, SecretRefSet
<1> QED BY <1>0, <1>5 DEF LinkInv

LEMMA LinkInvariance == TicketSpec => []LinkInv
  BY InitLinkInv, NextLinkInv, PTL DEF TicketSpec

-----------------------------------------------------------------------------
(* Who decides.  Where a key names one ticket, what rbitr does to a ticket  *)
(* concerns the approval it was created for, and that one is settled.      *)

\* A report that says s says nothing, or what people did, or comes too late.
Founded(a, s) == s = "none" \/ <<a, s>> \in moved \/ Settled(a)

TaskInv ==
    \A x \in Approvals \X Kinds :
      /\ task[x].pc = "link" => TicketFor(x[1], task[x].key)
      /\ task[x].pc \in {"config", "update", "linkstatus"} =>
           TicketFor(x[1], task[x].link.key)

LinksInv == \A l \in links : TicketFor(l.approval, l.key)

PostedInv ==
    \A w \in posted : \E a \in Approvals :
      TicketFor(a, w.key) /\ Founded(a, MapWebhookStatus(w.provider, w.state))

HookInv ==
    \A h \in Hooks : hook[h].pc = "decide" => Founded(hook[h].link.approval, hook[h].to)

ByInv ==
    /\ by \in [Approvals -> {Nothing, "admin", "webhook"}]
    /\ \A a \in Approvals : by[a] = "webhook" =>
         \/ status[a] \in {"APPROVED", "DENIED"} /\ <<a, status[a]>> \in moved
         \/ status[a] = "EXPIRED" /\ <<a, "APPROVED">> \in moved

PeopleInv ==
    TaskInv /\ LinksInv /\ PostedInv /\ HookInv /\ ByInv

\* Tickets stay, and so does what a report is founded on.
LEMMA Grows ==
    ASSUME LinkInv, [TicketNext]_ticketVars
    PROVE  /\ \A a, key : TicketFor(a, key) => TicketFor(a, key)'
           /\ moved \subseteq moved'
           /\ \A a \in Approvals : \A s : Founded(a, s) => Founded(a, s)'
<1>1. moved \subseteq moved'
    BY ZenonT(30) DEF TicketNext, ticketVars, trackers, TaskStep, CreateStep, HookStep, Require, Expire,
        Decide, CreateStart, CreateTicket, InsertTicketLink, CreateError, UpdateStart, UpdateConfig,
        UpdateTicket, UpdateLinkStatus, UpdateError, Move, Webhook, WebhookDecide, WebhookLink,
        WebhookError, AdminRead, AdminWrites, ConfigUpdate, SecretRefSet
<1>2. \A a \in Approvals : Settled(a) => Settled(a)'
    BY NextRowStep, RowStepKeeps
<1> QED BY <1>1, <1>2, NextTicketsInv, ZenonT(30) DEF Founded

LEMMA InitPeopleInv == TicketInit => PeopleInv
<1> SUFFICES ASSUME TicketInit PROVE PeopleInv
    OBVIOUS
<1>1. TaskInv /\ HookInv
    BY DEF TicketInit, TaskInv, HookInv, NoTask
<1>2. LinksInv /\ PostedInv
    BY DEF TicketInit, LinksInv, PostedInv
<1>3. ByInv
    BY ZenonT(30), TicketingAssumption DEF TicketInit, ByInv
<1> QED BY <1>1, <1>2, <1>3 DEF PeopleInv

\* A goroutine works on the ticket of its approval: the one it created, or
\* that of the link it read.
LEMMA NextTaskInv ==
    ASSUME LinkInv, PeopleInv, [TicketNext]_ticketVars
    PROVE  TaskInv'
<1> DEFINE OK(x, y) == /\ y.pc = "link" => TicketFor(x[1], y.key)
                       /\ y.pc \in {"config", "update", "linkstatus"} =>
                            TicketFor(x[1], y.link.key)
<1>0. \A a, key : TicketFor(a, key) => TicketFor(a, key)'
    BY Grows
<1>1. task = [x \in Approvals \X Kinds |-> task[x]] /\ \A x \in Approvals \X Kinds : OK(x, task[x])
    BY DEF LinkInv, TasksTell, PeopleInv, TaskInv
<1>2. CASE task' = task
    BY <1>0, <1>1, <1>2 DEF TaskInv
<1>3. ASSUME NEW z \in Approvals \X Kinds, NEW y, task' = [task EXCEPT ![z] = y], OK(z, y)'
      PROVE  TaskInv'
  <2>1. \A x \in Approvals \X Kinds : task'[x] = IF x = z THEN y ELSE task[x]
      BY <1>1, <1>3
  <2>2. ASSUME NEW x \in Approvals \X Kinds PROVE OK(x, task[x])'
    <3>1. CASE x = z
        BY <1>3, <2>1, <3>1
    <3>2. CASE x # z
        BY <1>0, <1>1, <2>1, <3>2
    <3> QED BY <3>1, <3>2
  <2> QED BY <2>2 DEF TaskInv
<1>4. ASSUME NEW z \in Approvals \X Kinds, task' = [task EXCEPT ![z] = Done] PROVE TaskInv'
  <2>1. OK(z, Done)'
      BY DEF Done
  <2> QED BY ZenonT(30), <1>3, <1>4, <2>1
<1>5. ASSUME NEW a \in Approvals PROVE
        <<a, "create">> \in Approvals \X Kinds /\ <<a, "decided">> \in Approvals \X Kinds
        /\ <<a, "expired">> \in Approvals \X Kinds
    BY DEF Kinds
<1>6. ASSUME NEW a \in Approvals, Require(a) \/ Expire(a) \/ \E s \in Decided : Decide(a, s)
      PROVE  TaskInv'
  <2>1. PICK z, s : /\ z \in Approvals \X Kinds
                    /\ task' = [task EXCEPT ![z] = [pc |-> "start", status |-> s]]
      BY <1>5, <1>6, ZenonT(30) DEF Require, Expire, Decide, Started
  <2>2. OK(z, [pc |-> "start", status |-> s])'
      OBVIOUS
  <2> QED BY ZenonT(30), <1>3, <2>1, <2>2
<1>7. ASSUME NEW a \in Approvals, CreateStep(a) PROVE TaskInv'
  <2> DEFINE x == <<a, "create">>
  <2>0. x \in Approvals \X Kinds /\ x[1] = a
      BY ZenonT(30), <1>5
  <2>1. CASE CreateStart(a)
    <3>1. PICK p : \/ task' = [task EXCEPT ![x] = [pc |-> "create", provider |-> p]]
                   \/ task' = [task EXCEPT ![x] = Done]
        BY <2>1, ZenonT(30) DEF CreateStart, Becomes
    <3>2. OK(x, [pc |-> "create", provider |-> p])'
        OBVIOUS
    <3> QED BY <1>3, <1>4, <2>0, <3>1, <3>2, ZenonT(30)
  <2>2. CASE CreateTicket(a)
    <3>1. PICK n \in TicketRecords :
                /\ tickets' = tickets \cup {n} /\ n.approval = a
                /\ \/ task' = [task EXCEPT ![x] =
                                 [pc |-> "link", provider |-> n.provider, key |-> n.key]]
                   \/ task' = [task EXCEPT ![x] = Done]
        BY <2>2, TicketCreated, ZenonT(30)
    <3>2. TicketFor(a, n.key)'
        BY <3>1 DEF TicketFor
    <3>3. OK(x, [pc |-> "link", provider |-> n.provider, key |-> n.key])'
        BY <2>0, <3>2
    <3> QED BY <1>3, <1>4, <2>0, <3>1, <3>3, ZenonT(30)
  <2> QED BY <1>4, <1>7, <2>0, <2>1, <2>2, ZenonT(30)
      DEF CreateStep, InsertTicketLink, CreateError, Becomes
<1>8. ASSUME NEW x \in Approvals \X Kinds, TaskStep(x) PROVE TaskInv'
  <2>1. CASE UpdateStart(x) /\ task' # [task EXCEPT ![x] = Done]
    <3>1. PICK l, s : /\ l \in links /\ l.approval = x[1]
                      /\ task' = [task EXCEPT ![x] = [pc |-> "config", link |-> l, to |-> s]]
        BY <2>1, ZenonT(30) DEF UpdateStart, Becomes, LinkOf
    <3>2. TicketFor(x[1], l.key)'
        BY <1>0, <3>1 DEF PeopleInv, LinksInv
    <3>3. OK(x, [pc |-> "config", link |-> l, to |-> s])'
        BY <3>2
    <3> QED BY <1>3, <3>1, <3>3, ZenonT(30)
  <2>2. CASE UpdateConfig(x) /\ task' # [task EXCEPT ![x] = Done]
    <3>1. PICK l, s, p : /\ l = task[x].link
                         /\ task' = [task EXCEPT ![x] =
                                       [pc |-> "update", link |-> l, to |-> s, provider |-> p]]
        BY <2>2, ZenonT(30) DEF UpdateConfig, Becomes
    <3>2. TicketFor(x[1], l.key)'
        BY <1>0, <1>1, <2>2, <3>1 DEF UpdateConfig, TaskAt
    <3>3. OK(x, [pc |-> "update", link |-> l, to |-> s, provider |-> p])'
        BY <3>2
    <3> QED BY <1>3, <3>1, <3>3, ZenonT(30)
  <2>3. CASE UpdateTicket(x) /\ task' # [task EXCEPT ![x] = Done]
    <3>1. PICK y : y = [task[x] EXCEPT !.pc = "linkstatus"]
        BY ZenonT(30)
    <3>2. task' = [task EXCEPT ![x] = y]
        BY <2>3, <3>1, ZenonT(30) DEF UpdateTicket, Becomes
    <3>3. task[x].pc = "update" /\ x[2] # "create"
        BY <2>3 DEF UpdateTicket, TaskAt, LinkInv, TasksTell, CreateTells
    <3>4. task[x] \in [pc : {"update", "linkstatus"}, link : LinkRecords, to : Ends,
                       provider : Providers]
        BY <3>3 DEF LinkInv, TasksTell, UpdateTells
    <3>5. y.pc = "linkstatus" /\ y.link = task[x].link
        BY <3>1, <3>4
    <3>6. TicketFor(x[1], y.link.key)'
        BY <1>0, <1>1, <3>3, <3>5
    <3>7. OK(x, y)'
        BY <3>5, <3>6
    <3> QED BY <1>3, <3>2, <3>7, ZenonT(30)
  <2> QED BY <1>4, <1>8, <2>1, <2>2, <2>3, ZenonT(30)
      DEF TaskStep, UpdateLinkStatus, UpdateError, Becomes
<1> QED BY <1>2, <1>6, <1>7, <1>8, ZenonT(30)
    DEF TicketNext, ticketVars, HookStep, Webhook, WebhookDecide, WebhookLink, WebhookError,
        Move, AdminRead, AdminWrites, ConfigUpdate, SecretRefSet

LEMMA NextLinksInv ==
    ASSUME LinkInv, PeopleInv, [TicketNext]_ticketVars
    PROVE  LinksInv'
<1>0. LinksInv /\ \A a, key : TicketFor(a, key) => TicketFor(a, key)'
    BY Grows DEF PeopleInv
<1>1. CASE links' = links
    BY <1>0, <1>1 DEF LinksInv
<1>2. ASSUME NEW l, NEW s, SetLinkStatus(l, s) PROVE LinksInv'
  <2>1. ASSUME NEW n \in links' PROVE TicketFor(n.approval, n.key)'
    <3>1. PICK k \in links : n = k \/ n = [k EXCEPT !.status = s]
        BY <1>2, <2>1, ZenonT(30) DEF SetLinkStatus
    <3>2. k \in LinkRecords
        BY DEF LinkInv, LinksTell
    <3>3. n.approval = k.approval /\ n.key = k.key
        BY <3>1, <3>2 DEF LinkRecords
    <3> QED BY <1>0, <3>3 DEF LinksInv
  <2> QED BY <2>1 DEF LinksInv
<1>3. ASSUME NEW a \in Approvals, InsertTicketLink(a) PROVE LinksInv'
  <2> DEFINE x == <<a, "create">>
  <2>1. PICK l : /\ l = [tenant |-> TenantOf[a], approval |-> a, provider |-> task[x].provider,
                         key |-> task[x].key, status |-> "OPEN"]
                 /\ links' = links \cup {l}
      BY ZenonT(30), <1>3 DEF InsertTicketLink
  <2>2. x \in Approvals \X Kinds /\ x[1] = a
      BY DEF Kinds
  <2>3. TicketFor(x[1], task[x].key)
      BY <1>3, <2>2, ZenonT(30) DEF PeopleInv, TaskInv, InsertTicketLink, TaskAt
  <2>4. TicketFor(l.approval, l.key)
      BY <2>1, <2>2, <2>3
  <2> QED BY <1>0, <2>1, <2>4 DEF LinksInv
<1> QED BY <1>1, <1>2, <1>3, ZenonT(30)
    DEF TicketNext, ticketVars, TaskStep, CreateStep, HookStep, Require, Expire, Decide,
        CreateStart, CreateTicket, CreateError, UpdateStart, UpdateConfig, UpdateTicket,
        UpdateLinkStatus, UpdateError, Move, Webhook, WebhookDecide, WebhookLink, WebhookError,
        AdminRead, AdminWrites, ConfigUpdate, SecretRefSet

\* A move is reported with its state.  One that people make is noted; one
\* that rbitr makes is of the ticket of a settled approval, since the key that
\* it looks for is that of no other ticket.
LEMMA NextPostedInv ==
    ASSUME LinkInv, PeopleInv, KeysAreDistinct, [TicketNext]_ticketVars
    PROVE  PostedInv'
<1>0. /\ PostedInv
      /\ \A a, key : TicketFor(a, key) => TicketFor(a, key)'
      /\ \A a \in Approvals : \A s : Founded(a, s) => Founded(a, s)'
    BY Grows DEF PeopleInv
<1>1. CASE posted' = posted
    BY <1>0, <1>1, ZenonT(30) DEF PostedInv
<1>2. ASSUME NEW n, Post(n), NEW a \in Approvals, TicketFor(a, n.key)',
             Founded(a, MapWebhookStatus(n.provider, n.state))'
      PROVE  PostedInv'
  <2>1. PICK w : /\ w = [tenant |-> n.tenant, provider |-> n.provider, key |-> n.key,
                         state |-> n.state]
                 /\ posted' = posted \cup {w}
      BY ZenonT(30), <1>2 DEF Post
  <2>2. w.key = n.key /\ w.provider = n.provider /\ w.state = n.state
      BY <2>1
  <2> QED BY <1>0, <1>2, <2>1, <2>2, ZenonT(30) DEF PostedInv
<1>3. ASSUME NEW k \in tickets, NEW st \in Moves, Move(k, st) PROVE PostedInv'
  <2>1. PICK n : n = [k EXCEPT !.state = st]
      BY ZenonT(30)
  <2>2. /\ k.approval \in Approvals /\ n.approval = k.approval /\ n.key = k.key
        /\ n.provider = k.provider /\ n.state = st
      BY <2>1 DEF LinkInv, TicketsInv, TicketRecords
  <2>3. Post(n) /\ n \in tickets' /\ <<k.approval, MapWebhookStatus(k.provider, st)>> \in moved'
      BY <1>3, <2>1, ZenonT(30) DEF Move
  <2>4. TicketFor(k.approval, n.key)'
      BY <2>2, <2>3 DEF TicketFor
  <2>5. Founded(k.approval, MapWebhookStatus(n.provider, n.state))'
      BY <2>2, <2>3, ZenonT(30) DEF Founded
  <2> QED BY <1>2, <2>2, <2>3, <2>4, <2>5, ZenonT(30)
<1>4. ASSUME NEW x \in Approvals \X Kinds, UpdateTicket(x), posted' # posted PROVE PostedInv'
  <2>1. PICK k, n :
             /\ k \in tickets /\ k.key = task[x].link.key
             /\ n = [k EXCEPT !.state = Updated(k.provider, k.state, task[x].to)]
             /\ n \in tickets' /\ Post(n)
      BY <1>4, ZenonT(30) DEF UpdateTicket, InTracker
  <2>2. k \in TicketRecords
      BY <2>1 DEF LinkInv, TicketsInv
  <2>3. n.approval = k.approval /\ n.key = k.key
      BY <2>1, <2>2 DEF TicketRecords
  <2>4. task[x].pc = "update" /\ x[2] # "create" /\ x[1] \in Approvals
      BY <1>4 DEF UpdateTicket, TaskAt, LinkInv, TasksTell, CreateTells
  <2>5. TicketFor(x[1], task[x].link.key)
      BY <2>4 DEF PeopleInv, TaskInv
  <2>6. k.approval = x[1]
      BY <2>1, <2>5 DEF TicketFor, KeysAreDistinct
  <2>7. UpdateTells(x[1], task[x])
      BY <2>4 DEF LinkInv, TasksTell
  <2>8. Settled(x[1])
      BY <2>4, <2>7 DEF UpdateTells, Tells, Ends, Settled, Decided
  <2>9. TicketFor(x[1], n.key)'
      BY ZenonT(30), <2>1, <2>3, <2>6 DEF TicketFor
  <2>10. Founded(x[1], MapWebhookStatus(n.provider, n.state))'
      BY <1>0, <2>4, <2>8, ZenonT(30) DEF Founded
  <2> QED BY <1>2, <2>1, <2>4, <2>9, <2>10, ZenonT(30)
<1> QED BY <1>1, <1>3, <1>4, ZenonT(30)
    DEF TicketNext, ticketVars, trackers, TaskStep, CreateStep, HookStep, Require, Expire, Decide,
        CreateStart, CreateTicket, InsertTicketLink, CreateError, UpdateStart, UpdateConfig,
        UpdateLinkStatus, UpdateError, Webhook, WebhookDecide, WebhookLink, WebhookError,
        AdminRead, AdminWrites, ConfigUpdate, SecretRefSet

\* The link that a webhook finds is that of the ticket it reports.
LEMMA NextHookInv ==
    ASSUME LinkInv, PeopleInv, KeysAreDistinct, [TicketNext]_ticketVars
    PROVE  HookInv'
<1>0. /\ HookInv /\ hook = [h \in Hooks |-> hook[h]]
      /\ \A a \in Approvals : \A s : Founded(a, s) => Founded(a, s)'
    BY Grows DEF PeopleInv, LinkInv, HooksTell
<1>1. ASSUME NEW h \in Hooks, hook[h].pc = "decide"
      PROVE  Founded(hook[h].link.approval, hook[h].to)'
             \/ hook'[h] # hook[h]
  <2>1. hook[h].link.approval \in Approvals
      BY <1>1 DEF LinkInv, HooksTell, HookTells, LinkRecords
  <2>2. PICK a, s : a = hook[h].link.approval /\ s = hook[h].to
      OBVIOUS
  <2>3. Founded(a, s)'
      BY <1>0, <1>1, <2>1, <2>2 DEF HookInv
  <2> QED BY <2>2, <2>3, ZenonT(30)
<1>2. CASE hook' = hook
    BY <1>1, <1>2 DEF HookInv
<1>3. ASSUME NEW z \in Hooks, NEW y, hook' = [hook EXCEPT ![z] = y],
             y.pc = "decide" => Founded(y.link.approval, y.to)'
      PROVE  HookInv'
  <2>1. \A h \in Hooks : hook'[h] = IF h = z THEN y ELSE hook[h]
      BY <1>0, <1>3
  <2>2. ASSUME NEW h \in Hooks, hook'[h].pc = "decide"
        PROVE  Founded(hook[h].link.approval, hook[h].to)'
    <3>1. CASE h = z
        BY <1>3, <2>1, <2>2, <3>1
    <3>2. CASE h # z
        BY <1>1, <2>1, <2>2, <3>2
    <3> QED BY <3>1, <3>2
  <2> QED BY <2>2 DEF HookInv
<1>4. ASSUME NEW z \in Hooks, NEW w \in posted, Webhook(z, w) PROVE HookInv'
  <2>1. PICK l, s :
             /\ l \in links /\ l.key = w.key /\ s = MapWebhookStatus(w.provider, w.state)
             /\ hook' = [hook EXCEPT ![z] = [pc |-> "decide", link |-> l, to |-> s]]
      BY <1>4, ZenonT(30) DEF Webhook, GetTicketLinkByExternalKey
  <2>2. PICK a \in Approvals : TicketFor(a, w.key) /\ Founded(a, s)
      BY <2>1, ZenonT(30) DEF PeopleInv, PostedInv
  <2>3. TicketFor(l.approval, w.key)
      BY <2>1 DEF PeopleInv, LinksInv
  <2>4. l.approval = a
      BY <2>2, <2>3 DEF TicketFor, KeysAreDistinct
  <2>5. Founded(l.approval, s)'
      BY <1>0, <2>2, <2>4
  <2>6. PICK y : y = [pc |-> "decide", link |-> l, to |-> s]
      BY ZenonT(30)
  <2>7. y.link.approval = l.approval /\ y.to = s
      BY <2>6
  <2>8. Founded(y.link.approval, y.to)'
      BY <2>5, <2>7, ZenonT(30)
  <2> QED BY <1>3, <2>1, <2>6, <2>8, ZenonT(30)
<1>5. ASSUME NEW z \in Hooks, HookStep(z) PROVE HookInv'
  <2>1. hook[z] \in [pc : {"decide", "link"}, link : LinkRecords, to : {"APPROVED", "DENIED"}]
      BY <1>5 DEF HookStep, WebhookDecide, WebhookLink, WebhookError, LinkInv, HooksTell, HookTells
  <2>2. PICK y : /\ hook' = [hook EXCEPT ![z] = y]
                 /\ y = Done \/ y = [hook[z] EXCEPT !.pc = "link"]
      BY <1>5, ZenonT(30) DEF HookStep, WebhookDecide, WebhookLink, WebhookError
  <2>3. y.pc # "decide"
      BY <2>1, <2>2 DEF Done
  <2> QED BY <1>3, <2>2, <2>3, ZenonT(30)
<1> QED BY <1>2, <1>4, <1>5, ZenonT(30)
    DEF TicketNext, ticketVars, TaskStep, CreateStep, Require, Expire, Decide, CreateStart,
        CreateTicket, InsertTicketLink, CreateError, UpdateStart, UpdateConfig, UpdateTicket,
        UpdateLinkStatus, UpdateError, Move, AdminRead, AdminWrites, ConfigUpdate, SecretRefSet

\* A webhook decides a pending approval, and on what people did.
LEMMA NextByInv ==
    ASSUME LinkInv, PeopleInv, [TicketNext]_ticketVars
    PROVE  ByInv'
<1>0. ByInv /\ status \in [Approvals -> ApprovalStates] /\ moved \subseteq moved'
    BY Grows DEF PeopleInv, LinkInv
<1>1. CASE UNCHANGED rows
    BY <1>0, <1>1 DEF ByInv, rows
<1>2. ASSUME NEW a \in Approvals, Require(a) \/ Expire(a) PROVE ByInv'
  <2>1. by' = by /\ moved' = moved
      BY <1>2 DEF Require, Expire, trackers
  <2>2. CASE Require(a)
      BY ZenonT(30), <1>0, <2>1, <2>2 DEF ByInv, Require
  <2>3. CASE Expire(a)
      BY ZenonT(30), <1>0, <2>1, <2>3 DEF ByInv, Expire
  <2> QED BY <1>2, <2>2, <2>3
<1>3. ASSUME NEW a \in Approvals, NEW s \in Decided, Decide(a, s) PROVE ByInv'
    BY <1>0, <1>3 DEF ByInv, Decide, UpdateApprovalDecision
<1>4. ASSUME NEW h \in Hooks, WebhookDecide(h), ~UNCHANGED rows PROVE ByInv'
  <2>1. PICK a, s : a = hook[h].link.approval /\ s = hook[h].to
      OBVIOUS
  <2>2. hook[h].pc = "decide" /\ status[a] = "PENDING"
        /\ status' = [status EXCEPT ![a] = s] /\ by' = [by EXCEPT ![a] = "webhook"]
      BY <1>4, <2>1, ZenonT(30) DEF WebhookDecide, UpdateApprovalDecision
  <2>3. a \in Approvals /\ s \in {"APPROVED", "DENIED"}
      BY <2>1, <2>2 DEF LinkInv, HooksTell, HookTells, LinkRecords
  <2>4. Founded(a, s)
      BY <2>1, <2>2, Zenon DEF PeopleInv, HookInv
  <2>5. <<a, s>> \in moved
      BY <2>2, <2>3, <2>4 DEF Founded, Settled, Decided
  <2> QED BY <1>0, <2>2, <2>3, <2>5 DEF ByInv
<1> QED BY <1>1, <1>2, <1>3, <1>4, ZenonT(30)
    DEF TicketNext, ticketVars, rows, TaskStep, CreateStep, HookStep, CreateStart,
        CreateTicket, InsertTicketLink, CreateError, UpdateStart, UpdateConfig, UpdateTicket,
        UpdateLinkStatus, UpdateError, Move, Webhook, WebhookLink, WebhookError,
        AdminRead, AdminWrites, ConfigUpdate, SecretRefSet

\* TicketsDecideTruly, while no two tickets have the same key: for any number
\* of approvals, tenants, handlers and trackers, whatever is moved, reported,
\* repeated, lost or configured in between (handleTicketingWebhook, updateTicket).
THEOREM TicketsTellTheTruth == TicketSpec /\ []KeysAreDistinct => []TicketsDecideTruly
<1>1. PeopleInv /\ LinkInv /\ KeysAreDistinct /\ [TicketNext]_ticketVars => PeopleInv'
    BY NextTaskInv, NextLinksInv, NextPostedInv, NextHookInv, NextByInv, ZenonT(30) DEF PeopleInv
<1>2. PeopleInv /\ LinkInv => TicketsDecideTruly
    BY ZenonT(30) DEF PeopleInv, ByInv, LinkInv, LinksTell, TicketsDecideTruly, WebhookDecidesForPeople
<1> QED BY <1>1, <1>2, InitPeopleInv, LinkInvariance, PTL DEF TicketSpec

-----------------------------------------------------------------------------
(* One tracker numbers its tickets 1, 2, ..., so there a key names one. *)

ProvidersUsed == {c.provider : c \in TicketConfigs}

OneTracker ==
    /\ \A a, b \in Approvals : TenantOf[a] = TenantOf[b]
    /\ \A p, q \in ProvidersUsed \cap Providers : p = q

ConfigRecords ==
    [provider : ProvidersUsed, enabled : BOOLEAN, auto : BOOLEAN,
     secret : Secrets \cup {Nothing}]

ConfigInv ==
    /\ config \in [TicketTenants -> ConfigRecords]
    /\ adm = [x \in Admins |-> adm[x]]
    /\ \A x \in Admins : adm[x].pc = "write" =>
         adm[x].tenant \in TicketTenants /\ adm[x].before \in ConfigRecords
    /\ \A a \in Approvals : task[<<a, "create">>].pc = "create" =>
         task[<<a, "create">>].provider \in ProvidersUsed

NumbersInv ==
    /\ KeysAreDistinct
    /\ \A k \in tickets :
         /\ k.tenant = TenantOf[k.approval]
         /\ k.provider \in ProvidersUsed
         /\ k.key <= Cardinality(tickets)

LEMMA InitConfigInv == TicketInit => ConfigInv /\ NumbersInv
<1> SUFFICES ASSUME TicketInit PROVE ConfigInv /\ NumbersInv
    OBVIOUS
<1>1. TicketConfigs \subseteq ConfigRecords
    BY ZenonT(30), TicketingAssumption DEF ConfigRecords, ProvidersUsed
<1>2. ConfigInv
    BY <1>1 DEF TicketInit, ConfigInv, NoTask, Kinds
<1>3. NumbersInv
    BY Zenon DEF TicketInit, NumbersInv, KeysAreDistinct
<1> QED BY <1>2, <1>3

LEMMA NextConfigInv ==
    ASSUME LinkInv, ConfigInv, [TicketNext]_ticketVars
    PROVE  ConfigInv'
<1> DEFINE Creating == \A a \in Approvals : task[<<a, "create">>].pc = "create" =>
                         task[<<a, "create">>].provider \in ProvidersUsed
<1>0. \A a \in Approvals : <<a, "create">> \in Approvals \X Kinds
    BY DEF Kinds
<1>1. Creating'
  <2>0. Creating /\ task = [x \in Approvals \X Kinds |-> task[x]]
      BY ZenonT(30) DEF ConfigInv, LinkInv, TasksTell
  <2>1. CASE task' = task
      BY <2>0, <2>1, Zenon
  <2>2. ASSUME NEW z \in Approvals \X Kinds, NEW y, task' = [task EXCEPT ![z] = y],
               y.pc = "create" => y.provider \in ProvidersUsed
        PROVE  Creating'
    <3>1. \A x \in Approvals \X Kinds : task'[x] = IF x = z THEN y ELSE task[x]
        BY <2>0, <2>2
    <3>2. ASSUME NEW a \in Approvals
          PROVE  task'[<<a, "create">>] = y \/ task'[<<a, "create">>] = task[<<a, "create">>]
        BY <1>0, <3>1
    <3> QED BY <2>0, <2>2, <3>2
  <2>3. Done.pc # "create"
      BY DEF Done
  <2>4. ASSUME NEW a \in Approvals, Require(a) \/ Expire(a) \/ \E s \in Decided : Decide(a, s)
        PROVE  Creating'
    <3>1. PICK z, s : /\ z \in Approvals \X Kinds
                      /\ task' = [task EXCEPT ![z] = [pc |-> "start", status |-> s]]
      <4>1. <<a, "create">> \in Approvals \X Kinds /\ <<a, "decided">> \in Approvals \X Kinds
            /\ <<a, "expired">> \in Approvals \X Kinds
          BY DEF Kinds
      <4> QED BY <2>4, <4>1, ZenonT(30) DEF Require, Expire, Decide, Started
    <3>2. [pc |-> "start", status |-> s].pc # "create"
        OBVIOUS
    <3> QED BY <2>2, <3>1, <3>2, ZenonT(30)
  <2>5. ASSUME NEW a \in Approvals, CreateStart(a), task' # [task EXCEPT ![<<a, "create">>] = Done]
        PROVE  Creating'
    <3>1. PICK y : /\ y = [pc |-> "create", provider |-> config[TenantOf[a]].provider]
                   /\ task' = [task EXCEPT ![<<a, "create">>] = y]
        BY <2>5, ZenonT(30) DEF CreateStart, Becomes
    <3>2. config[TenantOf[a]] \in ConfigRecords
        BY ZenonT(30), TicketingAssumption DEF ConfigInv
    <3>3. y.provider \in ProvidersUsed
        BY <3>1, <3>2 DEF ConfigRecords
    <3> QED BY <1>0, <2>2, <3>1, <3>3, ZenonT(30)
  <2>6. ASSUME NEW a \in Approvals, CreateTicket(a) PROVE Creating'
    <3>1. PICK n \in TicketRecords :
                \/ task' = [task EXCEPT ![<<a, "create">>] =
                              [pc |-> "link", provider |-> n.provider, key |-> n.key]]
                \/ task' = [task EXCEPT ![<<a, "create">>] = Done]
        BY <2>6, TicketCreated, ZenonT(30)
    <3>2. [pc |-> "link", provider |-> n.provider, key |-> n.key].pc # "create"
        OBVIOUS
    <3> QED BY <1>0, <2>2, <2>3, <3>1, <3>2, ZenonT(30)
  <2>7. ASSUME NEW a \in Approvals, CreateStep(a) PROVE Creating'
      BY <1>0, <2>2, <2>3, <2>5, <2>6, <2>7, ZenonT(30)
      DEF CreateStep, InsertTicketLink, CreateError, Becomes
  <2>8. ASSUME NEW x \in Approvals \X Kinds, TaskStep(x) PROVE Creating'
    <3>1. x[2] # "create"
        BY <2>8 DEF TaskStep, UpdateStart, UpdateConfig, UpdateTicket, UpdateLinkStatus,
                    UpdateError, TaskAt, LinkInv, TasksTell, CreateTells
    <3>2. \A a \in Approvals : x # <<a, "create">>
        BY <3>1
    <3>3. PICK y : task' = [task EXCEPT ![x] = y]
        BY <2>8, ZenonT(30) DEF TaskStep, UpdateStart, UpdateConfig, UpdateTicket, UpdateLinkStatus,
                           UpdateError, Becomes
    <3>4. \A a \in Approvals : task'[<<a, "create">>] = task[<<a, "create">>]
        BY ZenonT(30), <1>0, <2>0, <3>2, <3>3
    <3> QED BY ZenonT(30), <2>0, <3>4
  <2> QED BY <2>1, <2>4, <2>7, <2>8, ZenonT(30)
      DEF TicketNext, ticketVars, HookStep, Webhook, WebhookDecide, WebhookLink, WebhookError,
          Move, AdminRead, AdminWrites, ConfigUpdate, SecretRefSet
<1>2. CASE UNCHANGED <<config, adm>>
    BY <1>1, <1>2 DEF ConfigInv
<1>3. ASSUME NEW x \in Admins, NEW t \in TicketTenants, AdminRead(x, t) PROVE ConfigInv'
  <2>1. config' = config /\ adm' = [adm EXCEPT ![x] = [pc |-> "write", tenant |-> t,
                                                        before |-> config[t]]]
      BY <1>3 DEF AdminRead
  <2> QED BY <1>1, <2>1 DEF ConfigInv
<1>4. ASSUME NEW x \in Admins, NEW cfg \in ConfigRecords, NEW ack, AdminWrites(x, cfg, ack)
      PROVE  ConfigInv'
  <2>1. /\ adm[x].tenant \in TicketTenants /\ adm' = [adm EXCEPT ![x] = Done]
        /\ config' = [config EXCEPT ![adm[x].tenant] = cfg]
      BY <1>4 DEF AdminWrites, ConfigInv
  <2> QED BY <1>1, <2>1 DEF ConfigInv, Done
<1>5. ASSUME NEW x \in Admins,
             \/ \E s \in Secrets : SecretRefSet(x, s)
             \/ \E c \in TicketConfigs : ConfigUpdate(x, c.provider, c.enabled)
      PROVE  ConfigInv'
  <2>1. adm[x].before \in ConfigRecords
      BY <1>5, ZenonT(30) DEF ConfigInv, SecretRefSet, ConfigUpdate
  <2>2. ASSUME NEW s \in Secrets, SecretRefSet(x, s) PROVE ConfigInv'
    <3>1. PICK cfg : cfg = [adm[x].before EXCEPT !.secret = s] /\ AdminWrites(x, cfg, s)
        BY <2>2, ZenonT(30) DEF SecretRefSet
    <3>2. cfg \in ConfigRecords
        BY <2>1, <3>1 DEF ConfigRecords
    <3> QED BY <1>4, <3>1, <3>2, ZenonT(30)
  <2>3. ASSUME NEW c \in TicketConfigs, ConfigUpdate(x, c.provider, c.enabled) PROVE ConfigInv'
    <3>1. PICK cfg : /\ cfg = [adm[x].before EXCEPT !.provider = c.provider, !.enabled = c.enabled]
                     /\ AdminWrites(x, cfg, acked[adm[x].tenant])
        BY <2>3, ZenonT(30) DEF ConfigUpdate
    <3>2. c.provider \in ProvidersUsed /\ c.enabled \in BOOLEAN
        BY ZenonT(30), TicketingAssumption DEF ProvidersUsed
    <3>3. cfg \in ConfigRecords
        BY ZenonT(30), <2>1, <3>1, <3>2 DEF ConfigRecords
    <3> QED BY <1>4, <3>1, <3>3, ZenonT(30)
  <2> QED BY <1>5, <2>2, <2>3, ZenonT(30)
<1> QED BY <1>2, <1>3, <1>5, ZenonT(30)
    DEF TicketNext, ticketVars, TaskStep, CreateStep, HookStep, Require, Expire, Decide,
        CreateStart, CreateTicket, InsertTicketLink, CreateError, UpdateStart, UpdateConfig,
        UpdateTicket, UpdateLinkStatus, UpdateError, Move, Webhook, WebhookDecide, WebhookLink,
        WebhookError, adminVars

LEMMA NextNumbersInv ==
    ASSUME OneTracker, LinkInv, ConfigInv, NumbersInv, [TicketNext]_ticketVars
    PROVE  NumbersInv'
<1>0. tickets \subseteq TicketRecords /\ IsFiniteSet(tickets) /\ Cardinality(tickets) \in Nat
    BY FS_CardinalityType DEF LinkInv, TicketsInv
<1>1. CASE tickets' = tickets
    BY <1>1 DEF NumbersInv, KeysAreDistinct
<1>2. ASSUME NEW a \in Approvals, CreateTicket(a) PROVE NumbersInv'
  <2>1. PICK n \in TicketRecords :
              /\ tickets' = tickets \cup {n}
              /\ n.tenant = TenantOf[a] /\ n.provider = task[<<a, "create">>].provider
              /\ n.key = Cardinality(InTracker(n.tenant, n.provider)) + 1
              /\ n.approval = a
      BY <1>2, TicketCreated, ZenonT(30)
  <2>2. n.provider \in ProvidersUsed
      BY <1>2, <2>1, Zenon DEF ConfigInv, CreateTicket, TaskAt
  <2>3. \A k \in tickets : k.tenant = n.tenant /\ k.provider = n.provider
      BY <1>0, <2>1, <2>2, Zenon DEF OneTracker, NumbersInv, TicketRecords
  <2>4. InTracker(n.tenant, n.provider) = tickets
      BY <2>3 DEF InTracker
  <2>5. n.key = Cardinality(tickets) + 1
      BY <2>1, <2>4
  <2>6. \A k \in tickets : k.key \in Nat /\ k.key <= Cardinality(tickets) /\ k.key # n.key
      BY <1>0, <2>5 DEF NumbersInv, TicketRecords
  <2>7. n \notin tickets
      BY <2>6
  <2>8. Cardinality(tickets \cup {n}) = Cardinality(tickets) + 1
      BY ZenonT(30), <1>0, <2>7, FS_AddElement
  <2>9. KeysAreDistinct'
      BY <2>1, <2>6 DEF NumbersInv, KeysAreDistinct
  <2>10. ASSUME NEW k \in tickets'
         PROVE  /\ k.tenant = TenantOf[k.approval] /\ k.provider \in ProvidersUsed
                /\ k.key <= Cardinality(tickets')
    <3>1. CASE k \in tickets
        BY <1>0, <2>1, <2>6, <2>8, <3>1 DEF NumbersInv
    <3>2. CASE k = n
        BY <1>0, <2>1, <2>2, <2>5, <2>8, <3>2
    <3> QED BY <2>1, <3>1, <3>2
  <2> QED BY <2>9, <2>10 DEF NumbersInv
<1>3. ASSUME NEW k \in tickets, NEW st \in TicketStates,
             tickets' = (tickets \ {k}) \cup {[k EXCEPT !.state = st]}
      PROVE  NumbersInv'
  <2>1. /\ KeysAreDistinct' /\ Cardinality(tickets') = Cardinality(tickets)
        /\ \A l \in tickets' : \E o \in tickets :
             l.tenant = o.tenant /\ l.provider = o.provider /\ l.approval = o.approval
             /\ l.key = o.key
      BY <1>3, TicketMoved, ZenonT(30) DEF LinkInv, NumbersInv
  <2> QED BY <2>1 DEF NumbersInv
<1>4. ASSUME NEW x \in Approvals \X Kinds, UpdateTicket(x), tickets' # tickets PROVE NumbersInv'
  <2>1. PICK k, st : /\ k \in tickets /\ st = Updated(k.provider, k.state, task[x].to)
                     /\ tickets' = (tickets \ {k}) \cup {[k EXCEPT !.state = st]}
      BY <1>4, ZenonT(30) DEF UpdateTicket, InTracker
  <2>2. task[x].to \in Ends
    <3>1. task[x].pc = "update" /\ x[2] # "create"
        BY <1>4 DEF UpdateTicket, TaskAt, LinkInv, TasksTell, CreateTells
    <3> QED BY <3>1 DEF LinkInv, TasksTell, UpdateTells
  <2>3. st \in TicketStates
      BY <1>0, <2>1, <2>2, UpdatedState DEF TicketRecords
  <2> QED BY <1>3, <2>1, <2>3, ZenonT(30)
<1>5. ASSUME NEW k \in tickets, NEW st \in Moves, Move(k, st) PROVE NumbersInv'
  <2>1. st \in TicketStates /\ tickets' = (tickets \ {k}) \cup {[k EXCEPT !.state = st]}
      BY <1>5, ZenonT(30) DEF Move, TicketStates
  <2> QED BY <1>3, <2>1, ZenonT(30)
<1> QED BY <1>1, <1>2, <1>4, <1>5, ZenonT(30)
    DEF TicketNext, ticketVars, trackers, TaskStep, CreateStep, HookStep, Require, Expire, Decide,
        CreateStart, InsertTicketLink, CreateError, UpdateStart, UpdateConfig,
        UpdateLinkStatus, UpdateError, Webhook, WebhookDecide, WebhookLink, WebhookError,
        AdminRead, AdminWrites, ConfigUpdate, SecretRefSet

\* With one tracker, whatever else its configuration becomes, the tickets of
\* any number of approvals have different keys, and TicketsDecideTruly holds
\* without more (CreateTicket, handleTicketingWebhook, updateTicket).
THEOREM OneTrackerIsTrue == ASSUME OneTracker PROVE TicketSpec => []TicketsDecideTruly
<1>1. ConfigInv /\ LinkInv /\ [TicketNext]_ticketVars => ConfigInv'
    BY NextConfigInv
<1>2. NumbersInv /\ ConfigInv /\ LinkInv /\ [TicketNext]_ticketVars => NumbersInv'
    BY NextNumbersInv
<1>3. NumbersInv => KeysAreDistinct
    BY DEF NumbersInv
<1> QED BY <1>1, <1>2, <1>3, InitConfigInv, LinkInvariance, TicketsTellTheTruth, PTL DEF TicketSpec
=============================================================================
