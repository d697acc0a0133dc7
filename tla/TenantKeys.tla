------------------------------ MODULE TenantKeys ------------------------------
(***************************************************************************)
(* Tenants, their keys, and the authentication of a request by a key.      *)
(*                                                                         *)
(* A key is stored as a hash: a plain one ("legacy") or one under a secret *)
(* of the gateway's environment.  A gateway looks a presented key up under *)
(* every hash that it can compute, one statement after the other, and      *)
(* replaces a legacy hash by one under its current secret.  Administrators *)
(* create, rotate and revoke keys and create, disable, change and delete   *)
(* tenants meanwhile; a request of theirs is the list of statements that   *)
(* it still has to make.                                                   *)
(***************************************************************************)
EXTENDS Integers, Sequences, FiniteSets, SequencesExt

CONSTANTS
    Gateways,
    Tenants,        \* tenant_ids, in use or not
    SetupTenant,    \* the one that the setup has made
    Keys,           \* key_ids; a generated key is named like its row
    SetupKey,       \* the row of the tenant's first key
    SetupScheme,    \* the hash it has
    ChosenKey,      \* a key that an administrator types in
    AdminKey,       \* the key of the administrator, and the row of its hash
    Configs,        \* RBTR_TENANT_KEY_HMAC_SECRETS of successive deployments
    MaxTenants, MaxActiveKeys,
    Requests, Auths,
    Ops,            \* of the handlers, those that are used
    Presented,      \* of the keys, those that clients present
    Nobody          \* no tenant

Legacy == "legacy"

\* What is assumed of the constants.
TenantKeysAssumption ==
    /\ SetupTenant \in Tenants /\ SetupKey \in Keys
    /\ Nobody \notin Tenants
    /\ MaxTenants \in Nat /\ MaxActiveKeys \in Nat
    /\ \A i \in 1 .. Len(Configs) - 1 : ToSet(Configs[i]) \ {""} \subseteq ToSet(Configs[i + 1])

VARIABLES
    tenants,        \* rows of tenants, with whether tenant_config has one too
    keys,           \* rows of tenant_keys
    adminHash,      \* the row of admin_keys: its hash
    locked,         \* system_settings: admin_write_lock
    conf,           \* the configuration that each gateway was started with
    req, auth

vars == <<tenants, keys, adminHash, locked, conf, req, auth>>

NoTenant == [st |-> "none", enabled |-> FALSE, config |-> FALSE]
NoKey == [tenant |-> Nobody, raw |-> ChosenKey, scheme |-> Legacy, revoked |-> FALSE]

Init ==
    /\ tenants = [t \in Tenants |-> IF t = SetupTenant
         THEN [st |-> "live", enabled |-> TRUE, config |-> TRUE] ELSE NoTenant]
    /\ keys = [k \in Keys |-> IF k = SetupKey
         THEN [tenant |-> SetupTenant, raw |-> k, scheme |-> SetupScheme,
               revoked |-> FALSE]
         ELSE NoKey]
    /\ adminHash = SetupScheme
    /\ locked = FALSE
    /\ conf = [g \in Gateways |-> 1]
    /\ req = [r \in Requests |-> [pc |-> "idle"]]
    /\ auth = [a \in Auths |-> [pc |-> "idle"]]

-----------------------------------------------------------------------------
(* Hashes. *)

\* The secrets without blanks and repetitions; the first one is the current.
NormalizeSecrets(config) ==
    FoldLeft(LAMBDA out, s : IF s = "" \/ Contains(out, s) THEN out ELSE Append(out, s),
             <<>>, config)

Secrets(g) == NormalizeSecrets(Configs[conf[g]])

\* The hashes a gateway tries, in order.
CandidatesForgetful(secrets) ==
    SubSeq(secrets, 1, IF secrets = <<>> THEN 0 ELSE 1) \o <<Legacy>>
BuildTenantKeyHashCandidates(secrets) == secrets \o <<Legacy>>
BuildAdminKeyHashCandidates(secrets) == secrets \o <<Legacy>>

HashTenantKey(g) == Head(BuildTenantKeyHashCandidates(Secrets(g)))

-----------------------------------------------------------------------------
(* Rows. *)

RowsOf(t) == {k \in Keys : keys[k].tenant = t}
Active(t) == {k \in RowsOf(t) : ~keys[k].revoked}
Taken(raw, scheme) ==
    \E k \in Keys : keys[k].tenant # Nobody /\ keys[k].raw = raw /\ keys[k].scheme = scheme

\* Of the rows in ks and ts: those that let a key in, under some hash.
Holders(ts, ks, raw) ==
    {k \in Keys : /\ ks[k].tenant # Nobody
                  /\ ks[k].raw = raw
                  /\ ~ks[k].revoked
                  /\ ts[ks[k].tenant].enabled
                  /\ ts[ks[k].tenant].st = "live"}

GetTenantByKeyHashUnchecked(raw, scheme) ==
    {k \in Keys : keys[k].tenant # Nobody /\ keys[k].raw = raw /\ keys[k].scheme = scheme
                  /\ tenants[keys[k].tenant].st = "live"}
GetTenantByKeyHash(raw, scheme) ==
    {k \in Holders(tenants, keys, raw) : keys[k].scheme = scheme}

GetAdminKeyByHash(scheme) == IF adminHash = scheme THEN {AdminKey} ELSE {}

\* Rows change; what the requests in progress should make of it is history:
\* "valid", their key has been good all along; "ever", it was good at times.
Change(ts, ks) ==
    /\ tenants' = ts
    /\ keys' = ks
    /\ auth' = [a \in Auths |->
         IF auth[a].pc \in {"lookup", "upgrade"} /\ auth[a].raw # AdminKey
         THEN LET good == Holders(ts, ks, auth[a].raw) # {}
              IN  [auth[a] EXCEPT !.valid = @ /\ good, !.ever = @ \/ good]
         ELSE auth[a]]

-----------------------------------------------------------------------------
(* Authentication. *)

\* The tenant key of a request to the tool endpoints, or the administrator's
\* key, arrives at a gateway.
AuthenticateTenantRequest(a, g, raw) ==
    /\ auth[a].pc = "idle"
    /\ raw \in Presented \ {AdminKey}
    /\ LET good == Holders(tenants, keys, raw)
       IN  auth' = [auth EXCEPT ![a] =
             [pc |-> "lookup", gw |-> g, raw |-> raw,
              left |-> BuildTenantKeyHashCandidates(Secrets(g)),
              valid |-> good # {}, ever |-> good # {},
              settled |-> \E k \in good : keys[k].scheme \in ToSet(Secrets(g))]]
    /\ UNCHANGED <<tenants, keys, adminHash, locked, conf, req>>

AuthenticateAdminAny(a, g) ==
    /\ auth[a].pc = "idle"
    /\ AdminKey \in Presented
    /\ auth' = [auth EXCEPT ![a] =
         [pc |-> "lookup", gw |-> g, raw |-> AdminKey,
          left |-> BuildAdminKeyHashCandidates(Secrets(g)),
          valid |-> TRUE, ever |-> TRUE, settled |-> adminHash \in ToSet(Secrets(g))]]
    /\ UNCHANGED <<tenants, keys, adminHash, locked, conf, req>>

Matches(a) ==
    LET scheme == Head(auth[a].left)
    IN  IF auth[a].raw = AdminKey THEN GetAdminKeyByHash(scheme)
        ELSE GetTenantByKeyHash(auth[a].raw, scheme)

\* A legacy hash is replaced only if the gateway has a secret.
AfterMatch(a) ==
    IF Head(auth[a].left) = Legacy /\ Secrets(auth[a].gw) # <<>> THEN "upgrade"
    ELSE "accepted"

\* One lookup; an error of the store other than "not found" ends the request.
TryLookup(a) ==
    /\ auth[a].pc = "lookup"
    /\ \/ /\ Matches(a) # {}
          /\ auth' = [auth EXCEPT ![a].pc = AfterMatch(a)]
       \/ /\ Matches(a) = {}
          /\ auth' = [auth EXCEPT ![a].left = Tail(@),
                                  ![a].pc = IF Len(auth[a].left) = 1 THEN "refused" ELSE @]
       \/ auth' = [auth EXCEPT ![a].pc = "error"]
    /\ UNCHANGED <<tenants, keys, adminHash, locked, conf, req>>

\* The upgrade is best effort: the request is accepted whatever becomes of it.
UpgradeTenantKeyHash(a) ==
    LET raw == auth[a].raw
        current == HashTenantKey(auth[a].gw)
        hit == {k \in Keys : /\ keys[k].tenant # Nobody /\ keys[k].raw = raw
                             /\ keys[k].scheme = Legacy /\ ~keys[k].revoked}
    IN  /\ auth[a].pc = "upgrade"
        /\ raw # AdminKey
        /\ auth' = [auth EXCEPT ![a].pc = "accepted"]
        /\ \/ keys' = keys
           \/ /\ ~Taken(raw, current)
              /\ keys' = [k \in Keys |->
                   IF k \in hit THEN [keys[k] EXCEPT !.scheme = current] ELSE keys[k]]
        /\ UNCHANGED <<tenants, adminHash, locked, conf, req>>

UpgradeAdminKeyHash(a) ==
    /\ auth[a].pc = "upgrade"
    /\ auth[a].raw = AdminKey
    /\ auth' = [auth EXCEPT ![a].pc = "accepted"]
    /\ adminHash' \in {adminHash,
         IF adminHash = Legacy THEN Head(Secrets(auth[a].gw)) ELSE adminHash}
    /\ UNCHANGED <<tenants, keys, locked, conf, req>>

-----------------------------------------------------------------------------
(* Requests of administrators. *)

Start(r, g, op, t, todo) ==
    /\ op \in Ops
    /\ req[r].pc = "idle"
    /\ req' = [req EXCEPT ![r] =
         [pc |-> "running", gw |-> g, op |-> op, tenant |-> t, todo |-> todo,
          left |-> {}, key |-> SetupKey, done |-> FALSE, audited |-> FALSE]]
    /\ UNCHANGED <<tenants, keys, adminHash, locked, conf, auth>>

\* A new tenant_id is drawn at random, so it is not in use.
HandleTenantCreate(r, g, t) ==
    /\ tenants[t].st = "none"
    /\ \A q \in Requests : req[q].pc # "idle" => req[q].tenant # t
    /\ Start(r, g, "create", t, <<"tenant_limit", "insert_tenant", "insert_key", "audit">>)
HandleTenantKeyCreate(r, g, t) ==
    Start(r, g, "key_create", t, <<"visible", "key_limit", "insert_key", "audit">>)
HandleTenantKeyRotate(r, g, t) ==
    Start(r, g, "key_rotate", t, <<"visible", "list", "revoke", "insert_key", "audit">>)
HandleTenantKeyRevoke(r, g, t) ==
    Start(r, g, "key_revoke", t, <<"visible", "revoke_one", "audit">>)
HandleTenantSetEnabled(r, g, t) ==
    \/ Start(r, g, "enable", t, <<"visible", "set_enabled", "audit">>)
    \/ Start(r, g, "disable", t, <<"visible", "set_enabled", "audit">>)
HandleTenantDelete(r, g, t) ==
    Start(r, g, "delete", t, <<"visible", "lock", "delete", "audit">>)
HandleTenantConfigUpdate(r, g, t) ==
    Start(r, g, "config", t, <<"visible", "lock", "set_keys", "must_audit">>)

Now(r, step) == req[r].pc = "running" /\ Head(req[r].todo) = step
Done(r) == [req[r] EXCEPT !.todo = Tail(@)]
Changed(r) == [Done(r) EXCEPT !.done = TRUE]
Answer(r, pc) == req' = [req EXCEPT ![r].pc = pc]
Rows == <<tenants, keys, adminHash, locked, conf, auth>>

\* A row of tenants is read together with the policy version in
\* tenant_config; the version of a tenant without such a row cannot be read.
GetTenant(t) ==
    CASE tenants[t].st # "live" -> "not_found"
      [] tenants[t].st = "live" /\ tenants[t].config -> "found"
      [] OTHER -> "error"

RequireTenantVisible(r) ==
    /\ Now(r, "visible")
    /\ IF GetTenant(req[r].tenant) = "found" THEN req' = [req EXCEPT ![r] = Done(r)]
       ELSE Answer(r, GetTenant(req[r].tenant))
    /\ UNCHANGED Rows

EnsureAdminWritesAllowed(r) ==
    /\ Now(r, "lock")
    /\ \/ locked /\ Answer(r, "locked")
       \/ ~locked /\ req' = [req EXCEPT ![r] = Done(r)]
    /\ UNCHANGED Rows

\* The lock is switched by a request of its own.
SetAdminWriteLock ==
    /\ "write_lock" \in Ops
    /\ locked' = ~locked
    /\ UNCHANGED <<tenants, keys, adminHash, conf, req, auth>>

CheckTenantLimit(r) ==
    LET count == Cardinality({t \in Tenants : tenants[t].st = "live"})
    IN  /\ Now(r, "tenant_limit")
        /\ \/ count >= MaxTenants /\ Answer(r, "limit")
           \/ count < MaxTenants /\ req' = [req EXCEPT ![r] = Done(r)]
        /\ UNCHANGED Rows

CheckActiveKeyLimit(r) ==
    LET count == Cardinality(Active(req[r].tenant))
    IN  /\ Now(r, "key_limit")
        /\ \/ count >= MaxActiveKeys /\ Answer(r, "limit")
           \/ count < MaxActiveKeys /\ req' = [req EXCEPT ![r] = Done(r)]
        /\ UNCHANGED Rows

CreateTenant(r) ==
    /\ Now(r, "insert_tenant")
    /\ Change([tenants EXCEPT ![req[r].tenant] =
                 [st |-> "live", enabled |-> TRUE, config |-> FALSE]], keys)
    /\ req' = [req EXCEPT ![r] = Done(r)]
    /\ UNCHANGED <<adminHash, locked, conf>>

\* GenerateAPIKey and the insertion of the row.
CreateTenantKey(r) ==
    /\ Now(r, "insert_key")
    /\ \E k \in Keys :
         /\ keys[k].tenant = Nobody
         /\ Change(tenants, [keys EXCEPT ![k] =
              [tenant |-> req[r].tenant, raw |-> k, scheme |-> HashTenantKey(req[r].gw),
               revoked |-> FALSE]])
         /\ req' = [req EXCEPT ![r] = [Changed(r) EXCEPT !.key = k]]
    /\ UNCHANGED <<adminHash, locked, conf>>

ListTenantKeys(r) ==
    /\ Now(r, "list")
    /\ req' = [req EXCEPT ![r] = [Done(r) EXCEPT !.left = Active(req[r].tenant)]]
    /\ UNCHANGED Rows

RevokeTenantKey(t, k) ==
    IF keys[k].tenant = t THEN [keys EXCEPT ![k].revoked = TRUE] ELSE keys

\* A rotation revokes the keys that it has listed, and ignores every error.
RotateRevoke(r) ==
    /\ Now(r, "revoke")
    /\ \/ /\ req[r].left = {}
          /\ req' = [req EXCEPT ![r] = Done(r)]
          /\ UNCHANGED Rows
       \/ \E k \in req[r].left :
            /\ req' = [req EXCEPT ![r].left = @ \ {k}]
            /\ \E ks \in {keys, RevokeTenantKey(req[r].tenant, k)} : Change(tenants, ks)
            /\ UNCHANGED <<adminHash, locked, conf>>

RevokeOne(r) ==
    /\ Now(r, "revoke_one")
    /\ \E k \in Keys :
         \/ /\ k \notin Active(req[r].tenant)
            /\ Answer(r, "not_found")
            /\ UNCHANGED Rows
         \/ /\ k \in Active(req[r].tenant)
            /\ Change(tenants, RevokeTenantKey(req[r].tenant, k))
            /\ req' = [req EXCEPT ![r] = [Changed(r) EXCEPT !.key = k]]
            /\ UNCHANGED <<adminHash, locked, conf>>

SetTenantEnabledAnyRow(r) ==
    /\ Now(r, "set_enabled")
    /\ Change([tenants EXCEPT ![req[r].tenant].enabled = (req[r].op = "enable")], keys)
    /\ req' = [req EXCEPT ![r] = Changed(r)]
    /\ UNCHANGED <<adminHash, locked, conf>>
SetTenantEnabled(r) ==
    LET t == req[r].tenant
    IN  /\ Now(r, "set_enabled")
        /\ \/ /\ tenants[t].st # "live"
              /\ Answer(r, "not_found")
              /\ UNCHANGED Rows
           \/ /\ tenants[t].st = "live"
              /\ Change([tenants EXCEPT ![t].enabled = (req[r].op = "enable")], keys)
              /\ req' = [req EXCEPT ![r] = Changed(r)]
              /\ UNCHANGED <<adminHash, locked, conf>>

SoftDeleteTenant(r) ==
    LET t == req[r].tenant
    IN  /\ Now(r, "delete")
        /\ \/ /\ tenants[t].st # "live"
              /\ Answer(r, "not_found")
              /\ UNCHANGED Rows
           \/ /\ tenants[t].st = "live"
              /\ Change([tenants EXCEPT ![t].st = "deleted", ![t].enabled = FALSE], keys)
              /\ req' = [req EXCEPT ![r] = Changed(r)]
              /\ UNCHANGED <<adminHash, locked, conf>>

\* The hash of a typed key goes to every row of the tenant, revoked ones too;
\* the index on hashes refuses it if there are two.
UpdateTenantConfig(r) ==
    LET rows == RowsOf(req[r].tenant)
        scheme == HashTenantKey(req[r].gw)
        clash == \/ Cardinality(rows) > 1
                 \/ \E k \in Keys \ rows : /\ keys[k].tenant # Nobody
                                           /\ keys[k].raw = ChosenKey
                                           /\ keys[k].scheme = scheme
    IN  /\ Now(r, "set_keys")
        /\ \/ /\ clash
              /\ Answer(r, "error")
              /\ UNCHANGED Rows
           \/ /\ ~clash
              /\ Change(tenants, [k \in Keys |->
                   IF k \in rows THEN [keys[k] EXCEPT !.raw = ChosenKey, !.scheme = scheme]
                   ELSE keys[k]])
              /\ req' = [req EXCEPT ![r] = Changed(r)]
              /\ UNCHANGED <<adminHash, locked, conf>>

\* The audit event is best effort, except that of a change of configuration.
EmitAuditEvent(r) ==
    /\ Now(r, "audit") \/ Now(r, "must_audit")
    /\ \/ req' = [req EXCEPT ![r].pc = "acked", ![r].audited = TRUE]
       \/ Now(r, "audit") /\ Answer(r, "acked")
       \/ Now(r, "must_audit") /\ Answer(r, "error")
    /\ UNCHANGED Rows

\* A statement fails.
Fail(r) ==
    /\ req[r].pc = "running"
    /\ Head(req[r].todo) \notin {"audit", "must_audit", "revoke"}
    /\ Answer(r, "error")
    /\ UNCHANGED Rows

\* A deployment replaces one gateway after the other.
Deploy(g) ==
    /\ conf[g] < Len(Configs)
    /\ \A h \in Gateways : conf[h] >= conf[g]
    /\ conf' = [conf EXCEPT ![g] = @ + 1]
    /\ auth' = [a \in Auths |->
         IF auth[a].pc \in {"lookup", "upgrade"} /\ auth[a].gw = g
         THEN [auth[a] EXCEPT !.pc = "error"] ELSE auth[a]]
    /\ req' = [r \in Requests |->
         IF req[r].pc = "running" /\ req[r].gw = g THEN [req[r] EXCEPT !.pc = "error"]
         ELSE req[r]]
    /\ UNCHANGED <<tenants, keys, adminHash, locked>>

Next ==
    \/ \E a \in Auths, g \in Gateways :
         \/ \E raw \in Presented : AuthenticateTenantRequest(a, g, raw)
         \/ AuthenticateAdminAny(a, g)
    \/ \E a \in Auths : TryLookup(a) \/ UpgradeTenantKeyHash(a) \/ UpgradeAdminKeyHash(a)
    \/ \E r \in Requests, g \in Gateways, t \in Tenants :
         \/ HandleTenantCreate(r, g, t)
         \/ HandleTenantKeyCreate(r, g, t)
         \/ HandleTenantKeyRotate(r, g, t)
         \/ HandleTenantKeyRevoke(r, g, t)
         \/ HandleTenantSetEnabled(r, g, t)
         \/ HandleTenantDelete(r, g, t)
         \/ HandleTenantConfigUpdate(r, g, t)
    \/ \E r \in Requests :
         \/ RequireTenantVisible(r) \/ EnsureAdminWritesAllowed(r)
         \/ CheckTenantLimit(r) \/ CheckActiveKeyLimit(r)
         \/ CreateTenant(r) \/ CreateTenantKey(r) \/ ListTenantKeys(r)
         \/ RotateRevoke(r) \/ RevokeOne(r) \/ SetTenantEnabled(r)
         \/ SoftDeleteTenant(r) \/ UpdateTenantConfig(r)
         \/ EmitAuditEvent(r) \/ Fail(r)
    \/ SetAdminWriteLock
    \/ \E g \in Gateways : Deploy(g)

Spec == Init /\ [][Next]_vars

-----------------------------------------------------------------------------
(* Properties. *)

\* A request that a gateway accepts came with a key that was good at some
\* moment of it: not revoked, of a tenant that was enabled and not deleted.
\* Lookups, revocations and the upgrade of the hash are separate statements.
AcceptedWasGood ==
    \A a \in Auths : auth[a].pc = "accepted" => auth[a].ever

\* A key that is good during the whole request is not refused, if its hash is
\* under a secret that the gateway knows: the lookups may find it under a
\* previous secret, and nobody moves it away from there.
SettledKeyNotRefused ==
    \A a \in Auths : auth[a].pc = "refused" => ~(auth[a].valid /\ auth[a].settled)

\* The same of every good key, a legacy one included: what "key verification
\* with automatic hash algorithm upgrade" (README.md) says.
GoodKeyNotRefused ==
    \A a \in Auths : auth[a].pc = "refused" => ~auth[a].valid

\* When a deployment of a new secret is over, every key that is good is
\* accepted by every gateway, whenever and wherever it was hashed.
DeployedSecretsKnowKeys ==
    (\A g, h \in Gateways : conf[g] = conf[h]) =>
        \A g \in Gateways, k \in Keys :
            /\ keys[k].tenant # Nobody =>
                 keys[k].scheme \in ToSet(BuildTenantKeyHashCandidates(Secrets(g)))
            /\ adminHash \in ToSet(BuildAdminKeyHashCandidates(Secrets(g)))

\* An audit event is written only for a change that was made, and whoever is
\* told that a key was revoked, or a tenant deleted, can rely on it.
AckedIsDone ==
    \A r \in Requests :
        /\ req[r].pc = "acked" \/ (req[r].pc # "idle" /\ req[r].audited) => req[r].done
        /\ req[r].pc = "acked" /\ req[r].op = "key_revoke" => keys[req[r].key].revoked
        /\ req[r].pc = "acked" /\ req[r].op = "delete" =>
             /\ tenants[req[r].tenant].st = "deleted"
             /\ ~tenants[req[r].tenant].enabled

\* A rotation "revokes all active keys for the tenant and issues a new one"
\* (docs/runbooks/key-rotation.md): when it answers, its key is the only
\* active one.
RotationRevokesAll ==
    [][\A r \in Requests :
         req[r].pc = "running" /\ req[r].op = "key_rotate" /\ req'[r].pc = "acked" =>
             Active(req[r].tenant) \subseteq {req[r].key}]_vars

\* The free tier has a limit of active keys per tenant (README.md).
ActiveKeyLimit ==
    \A t \in Tenants : Cardinality(Active(t)) <= MaxActiveKeys

\* A tenant that was created can be disabled or deleted, or its keys rotated
\* (README.md): no request for it ends because its row cannot be read.
CreatedIsManageable ==
    \A t \in Tenants : tenants[t].st = "live" => GetTenant(t) = "found"
=============================================================================
