---------------------------- MODULE AdminSettings ----------------------------
(***************************************************************************)
(* The settings of the installation and of a tenant, as the admin API      *)
(* changes them: every request checks its value, reads the old one for the *)
(* audit trail, writes, and then writes the audit event, each by a         *)
(* statement of its own that may fail.  Tenant settings are written under  *)
(* the write lock, the others are not.                                     *)
(*                                                                         *)
(* A value is a sequence of numbers: one number, or the two of the default *)
(* rate limit; the empty sequence is a key that is not stored.             *)
(***************************************************************************)
EXTENDS Integers, Sequences, FiniteSets

CONSTANTS
    Requests,
    Values(_),      \* values that requests carry, valid or not, by key
    LicensedDays,   \* retention that the licence allows at most
    McpTools,       \* tools that unknown MCP methods may be forwarded to
    Keys,           \* settings of this instance
    Env(_),         \* what the environment says at the start of the gateway
    CanFail

Seconds == {"default_approval_ttl", "session_token_ttl"}
FeatureFlags == {"feature_rate_limiting", "feature_session_tokens"}
SecretProviders == {"secret_provider_aws"}
Booleans == FeatureFlags \cup SecretProviders
TenantSettings == {"enforcement_mode", "mcp_passthrough_upstream"}
Absent == <<>>

\* What is assumed of the constants.
AdminSettingsAssumption ==
    /\ Keys \subseteq Seconds \cup Booleans \cup TenantSettings
                 \cup {"audit_retention", "default_rate_limit", "bootstrap_complete", "write_lock"}
    /\ CanFail \in BOOLEAN

VARIABLES
    stored,         \* the rows of system_settings and tenant_config
    audit,          \* audit events, by the request that wrote them
    req

vars == <<stored, audit, req>>

Init ==
    /\ stored = [k \in Keys |-> IF k \in TenantSettings \cup {"write_lock"} THEN <<0>> ELSE Absent]
    /\ audit = {}
    /\ req = [r \in Requests |-> [pc |-> "idle"]]

-----------------------------------------------------------------------------
(* What handlers accept. *)

ValidSeconds(s) == 60 <= s /\ s <= 86400
ValidRetention(d) == 30 <= d /\ d <= 3650
\* Per minute and per day.
ValidRateLimitLoose(v) == v[1] > 0 /\ v[2] > 0
ValidRateLimit(v) == v[1] > 0 /\ v[2] > 0 /\ v[2] >= v[1]

\* The answer to a value that is not accepted, or 0.
Refusal(k, v) ==
    CASE k \in Seconds -> IF ValidSeconds(v[1]) THEN 0 ELSE 400
      [] k = "audit_retention" ->
           IF ~ValidRetention(v[1]) THEN 400 ELSE IF v[1] > LicensedDays THEN 403 ELSE 0
      [] k = "default_rate_limit" -> IF ValidRateLimit(v) THEN 0 ELSE 400
      [] OTHER -> 0

\* The write lock's body has one field, "locked"; a body with another field
\* decodes to false, and so does an empty one.
DecodeWriteLock(field, v) == IF field = "locked" THEN v ELSE <<0>>

-----------------------------------------------------------------------------
(* Requests. *)

Answer(r, status) == req' = [req EXCEPT ![r].pc = "done", ![r].status = status]
Goto(r, pc) == req' = [req EXCEPT ![r].pc = pc]

\* Settings are requests of the same shape: HandleBooleanSystemSettingUpdate,
\* HandleDefaultApprovalTTLUpdate and so on are this one with their key.
Begin(r, k, v, field) ==
    /\ req[r].pc = "idle"
    /\ req' = [req EXCEPT ![r] =
         [pc |-> IF Refusal(k, v) = 0 THEN "before" ELSE "done", key |-> k,
          value |-> IF k = "write_lock" THEN DecodeWriteLock(field, v) ELSE v,
          asked |-> v, status |-> Refusal(k, v), before |-> <<0>>, wrote |-> FALSE,
          locked |-> IF "write_lock" \in Keys THEN {stored["write_lock"]} ELSE {}]]
    /\ UNCHANGED <<stored, audit>>

HandleBooleanSystemSettingUpdate(r) ==
    \E k \in Keys \cap Booleans, v \in {<<0>>, <<1>>} : Begin(r, k, v, "enabled")
HandleSecondsUpdate(r) == \E k \in Keys \cap Seconds : \E v \in Values(k) : Begin(r, k, v, "seconds")
HandleAuditRetentionUpdate(r) ==
    \E k \in Keys \cap {"audit_retention"} : \E v \in Values(k) : Begin(r, k, v, "days")
HandleDefaultRateLimitUpdate(r) ==
    \E k \in Keys \cap {"default_rate_limit"} : \E v \in Values(k) : Begin(r, k, v, "limits")
HandleEnforcementModeUpdate(r) ==
    \E k \in Keys \cap {"enforcement_mode"}, v \in {<<0>>, <<1>>} : Begin(r, k, v, "enforcement_mode")
HandleMCPPassthroughUpstreamUpdate(r) ==
    \E k \in Keys \cap {"mcp_passthrough_upstream"} : \E v \in Values(k) : Begin(r, k, v, "tool_id")
HandleBootstrapComplete(r) ==
    \E k \in Keys \cap {"bootstrap_complete"} : Begin(r, k, <<1>>, "none")
HandleAdminWriteLock(r) ==
    \E k \in Keys \cap {"write_lock"}, v \in {<<0>>, <<1>>}, field \in {"locked", "admin_write_lock"} :
        Begin(r, k, v, field)

\* What the getters answer: a key that is not stored is not found, and its
\* value is then zero; the default rate limit has numbers of its own.
GetDefaultRateLimitConfig ==
    IF stored["default_rate_limit"] = Absent THEN <<60, 1000>> ELSE stored["default_rate_limit"]
GetSystemSetting(k) == IF stored[k] = Absent THEN <<0>> ELSE stored[k]
Get(k) == IF k = "default_rate_limit" THEN GetDefaultRateLimitConfig ELSE GetSystemSetting(k)

\* An error of this statement is ignored, and the old value then is zero;
\* the pass-through tool's tenant must be found.
ReadBefore(r) ==
    LET k == req[r].key
        next == IF k = "mcp_passthrough_upstream" THEN "tool"
                ELSE IF k \in TenantSettings THEN "check" ELSE "write"
    IN  /\ req[r].pc = "before"
        /\ \/ req' = [req EXCEPT ![r].pc = next, ![r].before = Get(k)]
           \/ CanFail /\ k = "mcp_passthrough_upstream" /\ Answer(r, 500)
           \/ CanFail /\ k # "mcp_passthrough_upstream" /\ Goto(r, next)
        /\ UNCHANGED <<stored, audit>>

\* The tool that unknown MCP methods shall go to has to be an MCP tool with
\* a URL; no tool at all is accepted.
CheckPassthroughTool(r) ==
    /\ req[r].pc = "tool"
    /\ \/ req[r].value[1] \in McpTools \cup {0} /\ Goto(r, "check")
       \/ req[r].value[1] \notin McpTools \cup {0} /\ \E status \in {400, 404} : Answer(r, status)
       \/ CanFail /\ req[r].value[1] # 0 /\ Answer(r, 500)
    /\ UNCHANGED <<stored, audit>>

\* EnsureAdminWritesAllowed, in SetTenantEnforcementMode and its like.  A
\* lock that is on is not told from an error.
CheckWriteLockNever(r) == req[r].pc = "check" /\ Goto(r, "write") /\ UNCHANGED <<stored, audit>>
CheckWriteLock(r) ==
    /\ req[r].pc = "check"
    /\ \/ ("write_lock" \in Keys => stored["write_lock"] # <<1>>) /\ Goto(r, "write")
       \/ "write_lock" \in Keys /\ stored["write_lock"] = <<1>> /\ Answer(r, 500)
       \/ CanFail /\ Answer(r, 500)
    /\ UNCHANGED <<stored, audit>>

SetSystemSetting(k, v) == stored' = [stored EXCEPT ![k] = v]

\* One transaction of an upsert per number, rolled back as a whole.
SetDefaultRateLimitConfigLoose(v) ==
    \E kept \in SUBSET {1, 2} :
        stored' = [stored EXCEPT !["default_rate_limit"] =
                     [i \in {1, 2} |-> IF i \in kept THEN GetDefaultRateLimitConfig[i] ELSE v[i]]]
SetDefaultRateLimitConfig(v) == stored' = [stored EXCEPT !["default_rate_limit"] = v]

\* Every other request learns whether the lock has been on or off while it
\* ran.
Write(r) ==
    /\ req[r].pc = "write"
    /\ \/ /\ IF req[r].key = "default_rate_limit"
             THEN SetDefaultRateLimitConfig(req[r].value)
             ELSE SetSystemSetting(req[r].key, req[r].value)
          /\ req' = [x \in Requests |->
               LET moved == IF x = r THEN [req[x] EXCEPT !.pc = "audit", !.wrote = TRUE] ELSE req[x]
               IN  IF req[x].pc = "idle" \/ req[r].key # "write_lock" THEN moved
                   ELSE [moved EXCEPT !.locked = @ \cup {req[r].value}]]
       \/ CanFail /\ Answer(r, 500) /\ UNCHANGED stored
    /\ UNCHANGED audit

\* emitAuditEvent: a failure is the answer, although the value is stored.
EmitAuditEventQuiet(r) ==
    /\ req[r].pc = "audit"
    /\ \/ audit' = audit \cup {[by |-> r, key |-> req[r].key, before |-> req[r].before,
                                after |-> req[r].value]}
       \/ CanFail /\ UNCHANGED audit
    /\ Answer(r, 204)
    /\ UNCHANGED stored
EmitAuditEvent(r) ==
    /\ req[r].pc = "audit"
    /\ \/ /\ audit' = audit \cup {[by |-> r, key |-> req[r].key, before |-> req[r].before,
                                   after |-> req[r].value]}
          /\ Answer(r, 204)
       \/ CanFail /\ Answer(r, 500) /\ UNCHANGED audit
    /\ UNCHANGED stored

Next ==
    \E r \in Requests :
        \/ HandleBooleanSystemSettingUpdate(r) \/ HandleSecondsUpdate(r)
        \/ HandleAuditRetentionUpdate(r) \/ HandleDefaultRateLimitUpdate(r)
        \/ HandleEnforcementModeUpdate(r) \/ HandleMCPPassthroughUpstreamUpdate(r)
        \/ HandleBootstrapComplete(r) \/ HandleAdminWriteLock(r)
        \/ ReadBefore(r) \/ CheckPassthroughTool(r) \/ CheckWriteLock(r) \/ Write(r) \/ EmitAuditEvent(r)

Spec == Init /\ [][Next]_vars

-----------------------------------------------------------------------------
(* What the gateway goes by. *)

\* FeatureRateLimitingEnabled and its like: the stored value, or else the
\* environment's.
FeatureEnabled(k) == IF stored[k] = Absent THEN Env(k) ELSE stored[k]

\* 15 minutes unless a positive number is stored.
DefaultApprovalTTLFromStore ==
    IF stored["default_approval_ttl"] = Absent THEN <<900>> ELSE stored["default_approval_ttl"]

\* GET /admin/settings.
HandleSettingsGet(k) ==
    CASE k = "default_approval_ttl" -> DefaultApprovalTTLFromStore
      [] k = "default_rate_limit" -> GetDefaultRateLimitConfig
      [] k \in Booleans \cup {"session_token_ttl"} -> FeatureEnabled(k)
      [] OTHER -> stored[k]

\* Session tokens need a manager, which exists if the environment says so at
\* the start; its lifetime of tokens and the providers of secrets are taken
\* from the environment alone.
Used(k) ==
    CASE k = "feature_session_tokens" -> IF Env(k) = <<1>> THEN FeatureEnabled(k) ELSE <<0>>
      [] k \in SecretProviders \cup {"session_token_ttl"} -> Env(k)
      [] OTHER -> HandleSettingsGet(k)

-----------------------------------------------------------------------------
(* Properties. *)

\* Whatever requests were interleaved and wherever they failed, what is
\* stored is what handlers accept: both numbers of a rate limit belong
\* together, and the lifetime that approvals get is in range.
StoredIsValid ==
    \A k \in Keys : stored[k] # Absent =>
        /\ k \in Seconds => stored[k][1] \in 60 .. 86400
        /\ k = "audit_retention" => stored[k][1] \in 30 .. 3650 /\ stored[k][1] <= LicensedDays
        /\ k = "default_rate_limit" => stored[k][2] >= stored[k][1] /\ stored[k][1] > 0

\* A request that is answered 204 has its audit event, with the value it
\* wrote; one that is refused has written nothing; and a stored value without
\* an event is that of a request that was answered 500 or is still at work.
ChangeIsAudited ==
    /\ \A r \in Requests : req[r].pc = "done" =>
         /\ req[r].status = 204 => \E e \in audit : e.by = r /\ e.after = req[r].value
         /\ req[r].status \in {400, 403, 404} => ~req[r].wrote
    /\ \A k \in Keys :
         (\E r \in Requests : req[r].pc # "idle" /\ req[r].key = k /\ req[r].wrote) =>
            \/ \E e \in audit : e.key = k /\ e.after = stored[k]
            \/ \E r \in Requests : /\ req[r].pc = "audit" \/ (req[r].pc = "done" /\ req[r].status = 500)
                                   /\ req[r].key = k /\ req[r].wrote /\ req[r].value = stored[k]

\* A tenant's setting is not changed by a request that began after the lock
\* was set and ended before it was released.
LockFreezesTenant ==
    \A r \in Requests : req[r].pc # "idle" /\ req[r].key \in TenantSettings /\ req[r].wrote =>
        <<0>> \in req[r].locked

\* docs/runbooks/incident-response.md: "While the write lock is active, all
\* mutating admin endpoints return `403 Forbidden`."
LockFreezesAll ==
    \A r \in Requests :
        req[r].pc # "idle" /\ req[r].key # "write_lock" /\ req[r].wrote => <<0>> \in req[r].locked

\* The same runbook sets the lock with the body {"admin_write_lock": true}:
\* what such a request asks for is what it does.
LockDoesAsAsked ==
    \A r \in Requests : req[r].pc = "done" /\ req[r].status = 204 => req[r].value = req[r].asked

\* README: "Cloud providers can also be toggled from the admin UI".  What is
\* put and then shown is what the gateway goes by.
ShownIsUsed == \A k \in Keys : Used(k) = HandleSettingsGet(k)
=============================================================================
