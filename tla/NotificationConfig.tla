-------------------------- MODULE NotificationConfig --------------------------
(***************************************************************************)
(* The row that says how a tenant is notified.  One request replaces its   *)
(* settings and keeps the references to secrets, others set one reference  *)
(* and keep the rest: each reads the row, and then writes a whole row, by  *)
(* statements that other requests come between.  A read that fails counts  *)
(* as an empty row.                                                        *)
(***************************************************************************)
EXTENDS FiniteSets

CONSTANTS
    Requests,
    Channels,       \* channels of this instance
    Refs,           \* references to secrets
    Builtin,        \* those of the schemes env:// and file://
    CanFail,        \* statements may fail
    None

AllChannels == {"slack_webhook", "slack_bot", "email", "telegram", "whatsapp"}

\* What is assumed of the constants.
NotificationConfigAssumption ==
    /\ Channels \subseteq AllChannels
    /\ Builtin \subseteq Refs
    /\ None \notin Refs
    /\ CanFail \in BOOLEAN

VARIABLES
    row,            \* rbitr.notification_config of the tenant
    audited,        \* requests that have their audit event
    req

vars == <<row, audited, req>>

\* Channels that are on, channels whose addresses are given, the provider of
\* e-mail, and the references.
NoRow == [on |-> {}, given |-> {}, provider |-> "none", ref |-> [c \in Channels |-> None]]

Providers == {"none", "ses", "sendgrid"}

Init ==
    /\ row = NoRow
    /\ audited = {}
    /\ req = [r \in Requests |-> [pc |-> "idle"]]

Active(r) == req[r].pc \notin {"idle", "done"}

\* Of an answered request only what it was, for a reference, remains.
Finished(op, fields, status) ==
    [pc |-> "done", op |-> op, status |-> status,
     arg |-> IF op = "ref" THEN fields ELSE [channel |-> None, ref |-> None]]
Answer(r, status) == req' = [req EXCEPT ![r] = Finished(@.op, @.arg, status)]
Refuse(r, op, fields) == req' = [req EXCEPT ![r] = Finished(op, fields, 400)]

\* Requests that ran beside another are marked.
Start(r, op, fields) ==
    LET beside == {x \in Requests : Active(x)}
    IN  req' = [x \in Requests |->
          IF x = r THEN [pc |-> "read", op |-> op, alone |-> beside = {}, before |-> NoRow,
                         missed |-> FALSE, was |-> NoRow, status |-> 0, arg |-> fields]
          ELSE IF x \in beside THEN [req[x] EXCEPT !.alone = FALSE] ELSE req[x]]

-----------------------------------------------------------------------------
(* The handlers. *)

\* A webhook of Slack has its address in the secret; every other channel that
\* is on needs an address, and e-mail a provider.
CompletePayload(p) ==
    /\ p.on \ {"slack_webhook"} \subseteq p.given
    /\ "email" \in p.on => p.provider # "none"

HandleNotificationConfigUpdate(r) ==
    /\ req[r].pc = "idle"
    /\ \E on \in SUBSET Channels, given \in {Channels, {}}, provider \in Providers :
         LET p == [on |-> on, given |-> given, provider |-> provider, channel |-> None, ref |-> None]
         IN  IF CompletePayload(p) THEN Start(r, "update", p) ELSE Refuse(r, "update", p)
    /\ UNCHANGED <<row, audited>>

\* One endpoint each for Slack, e-mail, Telegram and WhatsApp; that of Slack
\* is for the webhook.
IsValidSecretRef(ref) == ref \in Builtin
HandleNotificationSecretRefSet(r) ==
    /\ req[r].pc = "idle"
    /\ \E c \in Channels \ {"slack_bot"}, ref \in Refs :
         LET p == [on |-> {}, given |-> {}, provider |-> "none", channel |-> c, ref |-> ref]
         IN  IF IsValidSecretRef(ref) THEN Start(r, "ref", p) ELSE Refuse(r, "ref", p)
    /\ UNCHANGED <<row, audited>>

\* A row that is not found or cannot be read is an empty one.
GetNotificationConfig(err) == IF err THEN NoRow ELSE row

ReadBefore(r) ==
    /\ req[r].pc = "read"
    /\ \E err \in {FALSE, CanFail} :
         req' = [req EXCEPT ![r].pc = "write", ![r].before = GetNotificationConfig(err), ![r].missed = err]
    /\ UNCHANGED <<row, audited>>

\* Hosted e-mail needs a key that was set before.
MissesKeyNever(p, before) == FALSE
MissesKey(p, before) == "email" \in p.on /\ p.provider = "sendgrid" /\ before.ref["email"] = None

ConfigUpdateRow(p, before) == [on |-> p.on, given |-> p.given, provider |-> p.provider, ref |-> before.ref]
SecretRefRowBare(p, before) == [NoRow EXCEPT !.ref[p.channel] = p.ref]
SecretRefRow(p, before) == [before EXCEPT !.ref[p.channel] = p.ref]

\* UpsertNotificationConfig writes every column.
UpsertNotificationConfig(r) ==
    LET p == req[r].arg
        new == IF req[r].op = "update" THEN ConfigUpdateRow(p, req[r].before)
               ELSE SecretRefRow(p, req[r].before)
    IN  /\ req[r].pc = "write"
        /\ \/ /\ req[r].op = "update" /\ MissesKey(p, req[r].before)
              /\ Answer(r, 400) /\ UNCHANGED row
           \/ /\ req[r].op = "update" => ~MissesKey(p, req[r].before)
              /\ row' = new
              /\ req' = [req EXCEPT ![r].pc = "audit", ![r].was = row]
           \/ CanFail /\ Answer(r, 500) /\ UNCHANGED row
        /\ UNCHANGED audited

EmitAuditEvent(r) ==
    /\ req[r].pc = "audit"
    /\ \/ audited' = audited \cup {r} /\ Answer(r, 204)
       \/ CanFail /\ Answer(r, 500) /\ UNCHANGED audited
    /\ UNCHANGED row

Next ==
    \E r \in Requests :
        \/ HandleNotificationConfigUpdate(r) \/ HandleNotificationSecretRefSet(r)
        \/ ReadBefore(r) \/ UpsertNotificationConfig(r) \/ EmitAuditEvent(r)

Spec == Init /\ [][Next]_vars

-----------------------------------------------------------------------------
(* Properties. *)

Wrote(r) == req[r].pc = "audit"

\* Whatever updates overlap and whatever reads fail, a channel that is on has
\* its address, and hosted e-mail has its key: the check of the key was made
\* against the very references that are written.
EnabledIsUsable ==
    /\ row.on \ {"slack_webhook"} \subseteq row.given
    /\ "email" \in row.on => /\ row.provider # "none"
                             /\ row.provider = "sendgrid" => row.ref["email"] # None

\* A request that ran alone, and read the row, leaves what it is not about:
\* setting a reference keeps the settings and the other references, and an
\* update keeps every reference.
AloneKeepsRest ==
    \A r \in Requests : Wrote(r) /\ req[r].alone /\ ~req[r].missed =>
        LET p == req[r].arg
        IN  IF req[r].op = "update" THEN row.ref = req[r].was.ref
            ELSE row = [req[r].was EXCEPT !.ref[p.channel] = p.ref]

\* README, endpoint `{channel}-secret-ref`: "Set channel secret".  A reference
\* that was set stays until a request sets that channel's again.
SetRefStays ==
    \A r \in Requests : req[r].pc = "done" /\ req[r].op = "ref" /\ req[r].status = 204 =>
        \/ row.ref[req[r].arg.channel] = req[r].arg.ref
        \/ \E x \in Requests \ {r} : /\ req[x].pc # "idle" /\ req[x].op = "ref"
                                     /\ req[x].arg.channel = req[r].arg.channel

\* README: "Secret refs support all registered secret providers".
RefsOfAllProviders ==
    \A r \in Requests : req[r].pc = "done" /\ req[r].op = "ref" => req[r].status # 400

\* README lists Slack Bot with a secret, and "All channels are configured
\* per-tenant via the admin API": once the secret of Slack is set and the bot
\* is on with its channel, the bot has a token.
SlackSecretServesBot ==
    "slack_bot" \in row.on /\ row.ref["slack_webhook"] # None => row.ref["slack_bot"] # None
=============================================================================
