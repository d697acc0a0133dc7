--------------------------- MODULE AzureSubscription ---------------------------
(***************************************************************************)
(* The license of an installation bought on the Azure marketplace.  The    *)
(* provider learns of the subscription from the landing page, from         *)
(* webhooks and by polling; each of them ends in a refresh, which reads    *)
(* the identifier, asks the service without a lock, and stores the answer. *)
(* The usage reporter has a copy of the identifier and of the plan.        *)
(***************************************************************************)
EXTENDS Integers

CONSTANTS
    Subscriptions,
    Plans,
    Requests,       \* landing pages and webhooks handled at a time
    MaxChanges      \* changes at the marketplace

\* What is assumed of the constants.
AzureSubscriptionAssumption == MaxChanges \in Nat /\ "poll" \notin Requests

Nil == "none"
Statuses == {"PendingFulfillmentStart", "Subscribed", "Suspended", "Unsubscribed"}

VARIABLES
    market,         \* plan and status of each subscription at the marketplace
    changes,
    provider,       \* [sub, plan, status, entitlements, info]
    reporter,       \* [sub, plan]
    task            \* the requests, and the poll

vars == <<market, changes, provider, reporter, task>>

Tasks == Requests \cup {"poll"}
Unanswered == [plan |-> Nil, status |-> Nil]
Task(pc, sub, plan, status, report) ==
    [pc |-> pc, sub |-> sub, plan |-> plan, status |-> status, report |-> report,
     asked |-> Nil, answer |-> Unanswered]
Idle == Task("idle", Nil, Nil, Nil, FALSE)

\* Limits and features by plan; an unknown plan has those of the paid tier.
MapPlanToEntitlements(plan) == IF plan \in {"starter", "pro"} THEN plan ELSE "paid"
IsActiveStatus(status) == status = "Subscribed"
BuildInfo(plan, status, entitlements) ==
    [valid |-> (IsActiveStatus(status) \/ status = Nil) /\ status # "Suspended",
     tier |-> IF plan = "starter" THEN "starter" ELSE "paid",
     entitlements |-> entitlements]
WithInfo(sub, plan, status, entitlements) ==
    [sub |-> sub, plan |-> plan, status |-> status, entitlements |-> entitlements,
     info |-> BuildInfo(plan, status, entitlements)]

\* The gateway starts without a subscription, with the plan of its configuration.
NewProvider(plan) == WithInfo(Nil, plan, Nil, MapPlanToEntitlements(plan))

Init ==
    /\ market \in [Subscriptions -> [plan : Plans, status : {"PendingFulfillmentStart"}]]
    /\ changes = 0
    /\ \E plan \in Plans \cup {Nil} :
         /\ provider = NewProvider(plan)
         /\ reporter = [sub |-> Nil, plan |-> plan]
    /\ task = [t \in Tasks |-> Idle]

MarketChanges(s) ==
    /\ changes < MaxChanges
    /\ changes' = changes + 1
    /\ \E plan \in Plans, status \in Statuses : market' = [market EXCEPT ![s] = [plan |-> plan, status |-> status]]
    /\ UNCHANGED <<provider, reporter, task>>

\* The token names a subscription, which is activated; an error at either call
\* ends the request.  The service may take its time to change the status.
HandleLanding(r, s) ==
    /\ task[r].pc = "idle"
    /\ \/ UNCHANGED market
       \/ market' = [market EXCEPT ![s].status = "Subscribed"]
    /\ task' = [task EXCEPT ![r] = Task("set", s, market[s].plan, Nil, TRUE)]
    /\ UNCHANGED <<changes, provider, reporter>>

SetSubscription(r) ==
    /\ task[r].pc = "set"
    /\ provider' = WithInfo(task[r].sub, task[r].plan, provider.status, MapPlanToEntitlements(task[r].plan))
    /\ task' = [task EXCEPT ![r].pc = "read"]
    /\ UNCHANGED <<market, changes, reporter>>

\* The status that each webhook stands for; only ChangePlan brings a plan.
WebhookStatus == [ChangePlan |-> "Subscribed", Suspend |-> "Suspended",
                  Reinstate |-> "Subscribed", Unsubscribe |-> "Unsubscribed"]
HandleWebhook(r, action, s, plan) ==
    /\ task[r].pc = "idle"
    /\ action = "ChangePlan" <=> plan # Nil
    /\ task' = [task EXCEPT ![r] =
         IF action = "ChangePlan" THEN Task("update", s, plan, WebhookStatus[action], TRUE)
                                  ELSE Task("update", Nil, Nil, WebhookStatus[action], FALSE)]
    /\ UNCHANGED <<market, changes, provider, reporter>>

UpdateStatus(r) ==
    /\ task[r].pc = "update"
    /\ provider' = IF task[r].plan \notin {Nil, provider.plan}
                   THEN WithInfo(provider.sub, task[r].plan, task[r].status, MapPlanToEntitlements(task[r].plan))
                   ELSE WithInfo(provider.sub, provider.plan, task[r].status, provider.entitlements)
    /\ task' = [task EXCEPT ![r].pc = "read"]
    /\ UNCHANGED <<market, changes, reporter>>

\* The poll has nothing to do before a subscription is known.
Poll ==
    /\ task["poll"].pc = "idle"
    /\ provider.sub # Nil
    /\ task' = [task EXCEPT !["poll"].pc = "read"]
    /\ UNCHANGED <<market, changes, provider, reporter>>

AfterRefresh(t) ==
    IF task[t].report
    THEN [task[t] EXCEPT !.pc = "report", !.asked = Nil, !.answer = Unanswered]
    ELSE Idle

\* refresh asks for the subscription that the provider has, without the lock.
RefreshRead(t) ==
    /\ task[t].pc = "read"
    /\ task' = [task EXCEPT ![t] =
         IF provider.sub = Nil THEN AfterRefresh(t) ELSE [@ EXCEPT !.pc = "get", !.asked = provider.sub]]
    /\ UNCHANGED <<market, changes, provider, reporter>>
RefreshGet(t) ==
    /\ task[t].pc = "get"
    /\ task' = [task EXCEPT ![t].pc = "store", ![t].answer = market[task[t].asked]]
    /\ UNCHANGED <<market, changes, provider, reporter>>
\* An error keeps what was known last.
RefreshFails(t) ==
    /\ task[t].pc = "get"
    /\ task' = [task EXCEPT ![t] = AfterRefresh(t)]
    /\ UNCHANGED <<market, changes, provider, reporter>>

Answered(t) ==
    WithInfo(provider.sub, task[t].answer.plan, task[t].answer.status, MapPlanToEntitlements(task[t].answer.plan))
RefreshKeepsInfo(t) ==
    /\ task[t].pc = "store"
    /\ provider' = [Answered(t) EXCEPT !.info = provider.info]
    /\ task' = [task EXCEPT ![t] = AfterRefresh(t)]
    /\ UNCHANGED <<market, changes, reporter>>
RefreshUnlessSuspended(t) ==
    /\ task[t].pc = "store"
    /\ provider' = IF provider.status = "Suspended" THEN provider ELSE Answered(t)
    /\ task' = [task EXCEPT ![t] = AfterRefresh(t)]
    /\ UNCHANGED <<market, changes, reporter>>
RefreshStore(t) ==
    /\ task[t].pc = "store"
    /\ provider' = Answered(t)
    /\ task' = [task EXCEPT ![t] = AfterRefresh(t)]
    /\ UNCHANGED <<market, changes, reporter>>

\* The landing page and ChangePlan pass on what they were given.
ReporterSetSubscription(r) ==
    /\ task[r].pc = "report"
    /\ reporter' = [sub |-> task[r].sub, plan |-> task[r].plan]
    /\ task' = [task EXCEPT ![r] = Idle]
    /\ UNCHANGED <<market, changes, provider>>

\* Nothing is kept on disk.
Restart ==
    /\ \E plan \in Plans \cup {Nil} :
         /\ provider' = NewProvider(plan)
         /\ reporter' = [sub |-> Nil, plan |-> plan]
    /\ task' = [t \in Tasks |-> Idle]
    /\ UNCHANGED <<market, changes>>

Refresh(t) == RefreshRead(t) \/ RefreshGet(t) \/ RefreshFails(t) \/ RefreshStore(t)

Next ==
    \/ \E s \in Subscriptions : MarketChanges(s)
    \/ \E r \in Requests :
         \/ \E s \in Subscriptions : HandleLanding(r, s)
         \/ \E s \in Subscriptions, a \in DOMAIN WebhookStatus, p \in Plans \cup {Nil} :
                HandleWebhook(r, a, s, p)
         \/ SetSubscription(r)
         \/ UpdateStatus(r)
         \/ ReporterSetSubscription(r)
    \/ Poll
    \/ \E t \in Tasks : Refresh(t)
    \/ Restart

Spec == Init /\ [][Next]_vars

\* The ticker keeps firing, calls return, requests end; the service answers a
\* poll that asks again and again.
Fairness ==
    /\ WF_vars(Poll)
    /\ \A t \in Tasks : WF_vars(Refresh(t)) /\ SF_vars(RefreshGet(t))
    /\ \A r \in Requests : WF_vars(SetSubscription(r) \/ UpdateStatus(r) \/ ReporterSetSubscription(r))
FairSpec == Spec /\ Fairness

--------------------------------------------------------------------------------
Quiet == \A t \in Tasks : task[t].pc = "idle"

(***************************************************************************)
(* What the gateway shows and enforces always belongs to one plan and one  *)
(* status, though landing pages, webhooks and polls write them in turn     *)
(* (SetSubscription, UpdateStatus, refresh).                               *)
(***************************************************************************)
InfoOfOneState ==
    /\ provider.info = BuildInfo(provider.plan, provider.status, provider.entitlements)
    /\ provider.entitlements = MapPlanToEntitlements(provider.plan)

(***************************************************************************)
(* A late answer, a lost or a repeated webhook does no lasting harm: as    *)
(* long as a subscription is known, the license comes back to what the     *)
(* marketplace says of it (Start, refresh).                                *)
(***************************************************************************)
Converges ==
    []<>(provider.sub = Nil \/
         (/\ provider.plan = market[provider.sub].plan
          /\ provider.status = market[provider.sub].status))

(***************************************************************************)
(* azure-listing.md: usage is sent with the current plan.                  *)
(***************************************************************************)
ReportsCurrentPlan == (Quiet /\ reporter.sub # Nil) => reporter.plan = provider.plan

(***************************************************************************)
(* azure-listing.md: a license that awaits activation is valid.            *)
(***************************************************************************)
PendingIsValid == provider.status = "PendingFulfillmentStart" => provider.info.valid

================================================================================
