------------------------------- MODULE Ticketing -------------------------------
(***************************************************************************)
(* Ticketing: every approval that is required gets a ticket in the         *)
(* tenant's tracker (Jira, ServiceNow or Linear), decisions and expiries   *)
(* are written to the ticket by goroutines that nothing orders, and a      *)
(* webhook turns a move of the ticket into a decision.  A move that rbitr  *)
(* made itself is reported by the webhook like any other.                  *)
(*                                                                         *)
(* The trackers are outside: one per tenant and provider, each numbering   *)
(* its own tickets.  Webhooks may be lost, repeated and late.              *)
(***************************************************************************)
EXTENDS Integers, FiniteSets

CONSTANTS
    Approvals, TicketTenants,
    TenantOf,       \* the tenant of an approval
    TicketConfigs,  \* ticketing configurations a tenant may start with
    Workflow,       \* names of the states a Jira or Linear project has
    Moves,          \* states to which people move tickets
    Hooks,          \* runs of the webhook handler
    Admins,         \* runs of the handlers that write the configuration
    Secrets,        \* secret references
    TicketFaults,   \* whether statements and calls may fail
    Nothing

Providers == {"jira", "servicenow", "linear"}

ASSUME TicketingAssumption ==
    /\ TenantOf \in [Approvals -> TicketTenants]
    /\ TicketConfigs \subseteq
         [provider : Providers \cup {""}, enabled : BOOLEAN, auto : BOOLEAN,
          secret : Secrets \cup {Nothing}]
    /\ TicketFaults \in BOOLEAN
    /\ Nothing \notin Secrets \cup {"admin", "webhook"}

VARIABLES
    status, by,     \* columns of the approval rows
    config,         \* ticketing_config, a row per tenant
    links,          \* ticket_links
    tickets,        \* the tickets of all trackers
    task,           \* the goroutines of an approval
    hook,           \* the webhook handlers
    posted,         \* webhooks that trackers have sent
    moved,          \* what people did to the ticket of an approval
    adm, acked      \* the configuration handlers, and what they confirmed

ticketVars == <<status, by, config, links, tickets, task, hook, posted, moved, adm,
          acked>>
rows == <<status, by>>
trackers == <<tickets, posted, moved>>
adminVars == <<adm, acked>>

Kinds == {"create", "decided", "expired"}
Decided == {"APPROVED", "DENIED", "REVOKED"}
NoTask == [pc |-> "none"]
Done == [pc |-> "done"]

-----------------------------------------------------------------------------
(* What is translated between the two sides. *)

MapApprovalToTicketStatusAll(s) == "RESOLVED"
MapApprovalToTicketStatus(s) ==
    CASE s = "APPROVED" -> "RESOLVED"
      [] s \in {"DENIED", "REVOKED", "EXPIRED"} -> "CLOSED"
      [] OTHER -> "IN_PROGRESS"

\* The names are compared without regard to case.
FoldedName(s) == CASE s = "RESOLVED" -> "Resolved"
                   [] s = "CLOSED" -> "Closed"
                   [] OTHER -> "In_Progress"
MapServiceNowState(s) == CASE s = "RESOLVED" -> "6"
                           [] s = "CLOSED" -> "7"
                           [] OTHER -> "2"

\* The state a ticket has after an update.  Jira and Linear leave it where it
\* is, without an error, if the project has no state of that name.
UpdatedJira(state, s) ==
    IF FoldedName(s) \in Workflow THEN FoldedName(s) ELSE state
UpdatedLinear(state, s) ==
    IF FoldedName(s) \in Workflow THEN FoldedName(s) ELSE state
UpdatedServiceNow(state, s) == MapServiceNowState(s)
Updated(provider, state, s) ==
    CASE provider = "jira" -> UpdatedJira(state, s)
      [] provider = "linear" -> UpdatedLinear(state, s)
      [] provider = "servicenow" -> UpdatedServiceNow(state, s)

ParseServiceNowState(state) == CASE state = "6" -> "resolved"
                                 [] state = "7" -> "closed"
                                 [] state = "8" -> "canceled"
                                 [] OTHER -> state

MapWebhookStatus(provider, state) ==
    LET s == IF provider = "servicenow" THEN ParseServiceNowState(state)
             ELSE state
        approving == CASE provider = "jira" -> {"Done", "Closed", "Resolved"}
                       [] provider = "servicenow" -> {"resolved", "closed"}
                       [] provider = "linear" -> {"Done", "Completed"}
        denying == CASE provider = "jira" -> {"Rejected", "Won't Do",
                                              "Declined"}
                     [] provider = "servicenow" -> {"canceled", "rejected"}
                     [] provider = "linear" -> {"Canceled", "Cancelled"}
    IN  IF s \in approving THEN "APPROVED"
        ELSE IF s \in denying THEN "DENIED" ELSE "none"

-----------------------------------------------------------------------------
TicketInit ==
    /\ status = [a \in Approvals |-> "none"]
    /\ by = [a \in Approvals |-> Nothing]
    /\ config \in [TicketTenants -> TicketConfigs]
    /\ links = {}
    /\ tickets = {}
    /\ task = [x \in Approvals \X Kinds |-> NoTask]
    /\ hook = [h \in Hooks |-> NoTask]
    /\ posted = {}
    /\ moved = {}
    /\ adm = [x \in Admins |-> NoTask]
    /\ acked = [t \in TicketTenants |-> Nothing]

UpdateApprovalDecisionAny(a, s, who) ==
    /\ status' = [status EXCEPT ![a] = s]
    /\ by' = [by EXCEPT ![a] = who]
\* The UPDATE of the approval row, which only a PENDING row matches.
UpdateApprovalDecision(a, s, who) ==
    IF status[a] = "PENDING"
    THEN /\ status' = [status EXCEPT ![a] = s]
         /\ by' = [by EXCEPT ![a] = who]
    ELSE UNCHANGED rows

Started(a, kind, s) ==
    [task EXCEPT ![<<a, kind>>] = [pc |-> "start", status |-> s]]

\* A REST call that needs approval.
Require(a) ==
    /\ status[a] = "none"
    /\ status' = [status EXCEPT ![a] = "PENDING"]
    /\ task' = Started(a, "create", "PENDING")
    /\ UNCHANGED <<by, config, links, trackers, hook, adminVars>>

\* An administrator's decision; a refused one starts no goroutine.
Decide(a, s) ==
    /\ status[a] = "PENDING"
    /\ UpdateApprovalDecision(a, s, "admin")
    /\ task' = Started(a, "decided", s)
    /\ UNCHANGED <<config, links, trackers, hook, adminVars>>

\* The scheduler marks the approval expired.
Expire(a) ==
    /\ status[a] \in {"PENDING", "APPROVED"}
    /\ status' = [status EXCEPT ![a] = "EXPIRED"]
    /\ task' = Started(a, "expired", "EXPIRED")
    /\ UNCHANGED <<by, config, links, trackers, hook, adminVars>>

-----------------------------------------------------------------------------
(* OnApprovalCreated. *)

TaskAt(x, pc) == task[x].pc = pc
Becomes(x, t) == task' = [task EXCEPT ![x] = t]

\* buildProvider fails without a secret reference, or one that does not
\* resolve to a token, and without a provider.
BuildProvider(cfg) == cfg.secret # Nothing /\ cfg.provider \in Providers

CreateStart(a) ==
    LET x == <<a, "create">>
        cfg == config[TenantOf[a]]
    IN  /\ TaskAt(x, "start")
        /\ IF cfg.enabled /\ cfg.auto /\ BuildProvider(cfg)
           THEN Becomes(x, [pc |-> "create", provider |-> cfg.provider])
           ELSE Becomes(x, Done)
        /\ UNCHANGED <<rows, config, links, trackers, hook, adminVars>>

\* Each tracker numbers its tickets and puts them in its own first state.
CreatedJira == "Open"
CreatedServiceNow == "1"
CreatedLinear == "Backlog"
Created(p) == CASE p = "jira" -> CreatedJira
                [] p = "servicenow" -> CreatedServiceNow
                [] p = "linear" -> CreatedLinear

InTracker(t, p) == {k \in tickets : k.tenant = t /\ k.provider = p}

\* The tracker makes the ticket and its answer arrives, or is lost.
CreateTicket(a) ==
    LET x == <<a, "create">>
        t == TenantOf[a]
        p == task[x].provider
        key == Cardinality(InTracker(t, p)) + 1
    IN  /\ TaskAt(x, "create")
        /\ tickets' = tickets \cup
             {[tenant |-> t, provider |-> p, key |-> key, approval |-> a,
               state |-> Created(p)]}
        /\ \/ Becomes(x, [pc |-> "link", provider |-> p, key |-> key])
           \/ TicketFaults /\ Becomes(x, Done)
        /\ UNCHANGED <<rows, config, links, posted, moved, hook, adminVars>>

\* The log line is all that remains of an error of any of the three steps.
CreateError(a) ==
    LET x == <<a, "create">>
    IN  /\ TicketFaults
        /\ task[x].pc \in {"start", "create", "link"}
        /\ Becomes(x, Done)
        /\ UNCHANGED <<rows, config, links, trackers, hook, adminVars>>

InsertTicketLink(a) ==
    LET x == <<a, "create">>
    IN  /\ TaskAt(x, "link")
        /\ links' = links \cup
             {[tenant |-> TenantOf[a], approval |-> a,
               provider |-> task[x].provider, key |-> task[x].key,
               status |-> "OPEN"]}
        /\ Becomes(x, Done)
        /\ UNCHANGED <<rows, config, trackers, hook, adminVars>>

-----------------------------------------------------------------------------
(* OnApprovalDecided and OnApprovalExpired: updateTicket. *)

LinkOf(a) == {l \in links : l.approval = a}

UpdateStart(x) ==
    /\ x[2] # "create"
    /\ TaskAt(x, "start")
    /\ IF LinkOf(x[1]) = {} THEN Becomes(x, Done)
       ELSE \E l \in LinkOf(x[1]) :
              Becomes(x, [pc |-> "config", link |-> l,
                          to |-> MapApprovalToTicketStatus(task[x].status)])
    /\ UNCHANGED <<rows, config, links, trackers, hook, adminVars>>

\* The configuration is the tenant's present one, which need not be the one
\* the ticket was created with.
UpdateConfig(x) ==
    LET cfg == config[TenantOf[x[1]]]
    IN  /\ TaskAt(x, "config")
        /\ IF cfg.enabled /\ BuildProvider(cfg)
           THEN Becomes(x, [pc |-> "update", link |-> task[x].link,
                            to |-> task[x].to, provider |-> cfg.provider])
           ELSE Becomes(x, Done)
        /\ UNCHANGED <<rows, config, links, trackers, hook, adminVars>>

Post(k) == posted' = posted \cup
    {[tenant |-> k.tenant, provider |-> k.provider, key |-> k.key,
      state |-> k.state]}

\* The ticket of the link's key in the tracker that is configured now.  A
\* move is posted to the webhook.
UpdateTicket(x) ==
    LET t == TenantOf[x[1]]
        found == {k \in InTracker(t, task[x].provider) :
                    k.key = task[x].link.key}
    IN  /\ TaskAt(x, "update")
        /\ IF found = {}
           THEN Becomes(x, Done) /\ UNCHANGED <<tickets, posted>>
           ELSE \E k \in found :
                  LET n == [k EXCEPT !.state =
                              Updated(k.provider, k.state, task[x].to)]
                  IN  /\ tickets' = (tickets \ {k}) \cup {n}
                      /\ IF n = k THEN UNCHANGED posted ELSE Post(n)
                      /\ \/ Becomes(x, [task[x] EXCEPT !.pc = "linkstatus"])
                         \/ TicketFaults /\ Becomes(x, Done)
        /\ UNCHANGED <<rows, config, links, moved, hook, adminVars>>

SetLinkStatus(l, s) ==
    links' = {IF k.approval = l.approval /\ k.provider = l.provider
              THEN [k EXCEPT !.status = s] ELSE k : k \in links}

UpdateLinkStatusSkipped(x) ==
    /\ TaskAt(x, "linkstatus")
    /\ Becomes(x, Done)
    /\ UNCHANGED <<rows, config, links, trackers, hook, adminVars>>
UpdateLinkStatus(x) ==
    /\ TaskAt(x, "linkstatus")
    /\ SetLinkStatus(task[x].link, task[x].to)
    /\ Becomes(x, Done)
    /\ UNCHANGED <<rows, config, trackers, hook, adminVars>>

UpdateError(x) ==
    /\ TicketFaults
    /\ x[2] # "create"
    /\ task[x].pc \in {"start", "config", "update", "linkstatus"}
    /\ Becomes(x, Done)
    /\ UNCHANGED <<rows, config, links, trackers, hook, adminVars>>

-----------------------------------------------------------------------------
(* The people of the tracker, and the webhook. *)

Move(k, state) ==
    /\ state # k.state
    /\ tickets' = (tickets \ {k}) \cup {[k EXCEPT !.state = state]}
    /\ Post([k EXCEPT !.state = state])
    /\ moved' = moved \cup
         {<<k.approval, MapWebhookStatus(k.provider, state)>>}
    /\ UNCHANGED <<rows, config, links, task, hook, adminVars>>

\* The link is found by provider and key, for whichever tenant it is.
GetTicketLinkByExternalKey(p, key) ==
    {l \in links : l.provider = p /\ l.key = key}

\* Moves that mean nothing, and keys without a link, are answered at once.
Webhook(h, w) ==
    /\ hook[h].pc = "none"
    /\ MapWebhookStatus(w.provider, w.state) # "none"
    /\ \E l \in GetTicketLinkByExternalKey(w.provider, w.key) :
         hook' = [hook EXCEPT ![h] =
           [pc |-> "decide", link |-> l,
            to |-> MapWebhookStatus(w.provider, w.state)]]
    /\ UNCHANGED <<rows, config, links, trackers, task, adminVars>>

WebhookDecide(h) ==
    LET a == hook[h].link.approval
    IN  /\ hook[h].pc = "decide"
        /\ UpdateApprovalDecision(a, hook[h].to, "webhook")
        /\ hook' = [hook EXCEPT ![h] = IF status'[a] = status[a] THEN Done
                                       ELSE [hook[h] EXCEPT !.pc = "link"]]
        /\ UNCHANGED <<config, links, trackers, task, adminVars>>

WebhookError(h) ==
    /\ TicketFaults
    /\ hook[h].pc \in {"decide", "link"}
    /\ hook' = [hook EXCEPT ![h] = Done]
    /\ UNCHANGED <<rows, config, links, trackers, task, adminVars>>

WebhookLink(h) ==
    /\ hook[h].pc = "link"
    /\ SetLinkStatus(hook[h].link,
                     IF hook[h].to = "DENIED" THEN "CLOSED" ELSE "RESOLVED")
    /\ hook' = [hook EXCEPT ![h] = Done]
    /\ UNCHANGED <<rows, config, trackers, task, adminVars>>

-----------------------------------------------------------------------------
(* The configuration: each handler reads the row and writes all of it. *)

AdminRead(x, t) ==
    /\ adm[x].pc = "none"
    /\ adm' = [adm EXCEPT ![x] = [pc |-> "write", tenant |-> t,
                                  before |-> config[t]]]
    /\ UNCHANGED <<rows, config, links, trackers, task, hook, acked>>

AdminWrites(x, cfg, ack) ==
    /\ adm[x].pc = "write"
    /\ config' = [config EXCEPT ![adm[x].tenant] = cfg]
    /\ acked' = [acked EXCEPT ![adm[x].tenant] = ack]
    /\ adm' = [adm EXCEPT ![x] = Done]
    /\ UNCHANGED <<rows, links, trackers, task, hook>>

ConfigUpdate(x, provider, enabled) ==
    /\ adm[x].pc = "write"
    /\ AdminWrites(x, [adm[x].before EXCEPT !.provider = provider,
                                            !.enabled = enabled],
                   acked[adm[x].tenant])

SecretRefSet(x, secret) ==
    /\ adm[x].pc = "write"
    /\ AdminWrites(x, [adm[x].before EXCEPT !.secret = secret], secret)

-----------------------------------------------------------------------------
TaskStep(x) ==
    \/ UpdateStart(x) \/ UpdateConfig(x) \/ UpdateTicket(x)
    \/ UpdateLinkStatus(x) \/ UpdateError(x)
CreateStep(a) == CreateStart(a) \/ CreateTicket(a) \/ InsertTicketLink(a)
                 \/ CreateError(a)
HookStep(h) == WebhookDecide(h) \/ WebhookLink(h) \/ WebhookError(h)

TicketNext ==
    \/ \E a \in Approvals : \/ Require(a) \/ Expire(a) \/ CreateStep(a)
                            \/ \E s \in Decided : Decide(a, s)
    \/ \E x \in Approvals \X Kinds : TaskStep(x)
    \/ \E k \in tickets, s \in Moves : Move(k, s)
    \/ \E h \in Hooks : HookStep(h) \/ \E w \in posted : Webhook(h, w)
    \/ \E x \in Admins :
         \/ \E t \in TicketTenants : AdminRead(x, t)
         \/ \E s \in Secrets : SecretRefSet(x, s)
         \/ \E c \in TicketConfigs : ConfigUpdate(x, c.provider, c.enabled)

TicketSpec == TicketInit /\ [][TicketNext]_ticketVars

\* Goroutines are scheduled; nothing is assumed of people, webhooks and
\* administrators.
TicketFairSpec ==
    /\ TicketSpec
    /\ \A x \in Approvals \X Kinds : WF_ticketVars(TaskStep(x))
    /\ \A a \in Approvals : WF_ticketVars(CreateStep(a))

-----------------------------------------------------------------------------
(* Properties. *)

\* A decision that a webhook made is one that people made in the tracker, on
\* the ticket of that approval: neither the echo of rbitr's own update, nor
\* a repeated or late report, nor the ticket of another approval decides it.
WebhookDecidesForPeople ==
    \A a \in Approvals : by[a] = "webhook" =>
      \/ <<a, status[a]>> \in moved
      \/ status[a] = "EXPIRED" /\ <<a, "APPROVED">> \in moved

\* The status of a link is one the approval has had: goroutines and webhooks
\* may be late, but never report a decision that was not made.
LinkTellsDecision ==
    \A l \in links :
      /\ l.status = "RESOLVED" => status[l.approval] \in {"APPROVED", "EXPIRED"}
      /\ l.status = "CLOSED" =>
           status[l.approval] \in {"DENIED", "REVOKED", "EXPIRED"}

\* A decision that a webhook made is one that people made on the ticket of
\* that approval: no echo of an update by rbitr, no repeated or late report
\* and no other ticket decides it; and the status of a link is one the
\* approval has had (handleTicketingWebhook, updateTicket).
TicketsDecideTruly == WebhookDecidesForPeople /\ LinkTellsDecision

\* If the link was there when the update of a decision began, the configured
\* tracker has not changed and nothing fails, the link is updated.
LinkedDecisionArrives ==
    \A a \in Approvals :
      (task[<<a, "decided">>].pc = "config"
         ~> \E l \in links : l.approval = a /\ l.status # "OPEN")

-----------------------------------------------------------------------------
(* Claims of the documentation. *)

\* README.md: "Approval decision (approve/deny/revoke) -> ticket updated".
DecisionReachesTicket ==
    \A a \in Approvals :
      ((by[a] = "admin" /\ \E k \in tickets : k.approval = a)
         ~> \E k \in tickets : k.approval = a /\ k.state # Created(k.provider))

\* README.md: "PUT .../ticketing/secret-ref: Set API token secret".
SecretIsSet ==
    \A t \in TicketTenants : acked[t] # Nothing => config[t].secret = acked[t]
=============================================================================
