---------------------------- MODULE PolicyLifecycle ---------------------------
(***************************************************************************)
(* A tenant's policy versions: administrators create, publish, roll back   *)
(* and overwrite them, and every gateway evaluates the active one through  *)
(* a cache of prepared queries of its own.                                 *)
(*                                                                         *)
(* A request is the list of statements that are still to be made for it;   *)
(* each is a step of its own and may fail.  A module is a raw text or      *)
(* <<"compiled", source>>, the text that the compiler renders.  The        *)
(* configuration version, which publishing increments, belongs to          *)
(* ToolConfig.                                                             *)
(***************************************************************************)
EXTENDS Integers, Sequences, FiniteSets

CONSTANTS
    Versions,       \* names of policy versions
    First,          \* the version that setup has published
    Texts,          \* modules in Rego
    Broken,         \* of them, those that do not compile
    Sources,        \* structured policies
    Gateways, Requests, Calls,
    Ops,            \* of the handlers, those that are used
    None

\* What is assumed of the constants.
PolicyLifecycleAssumption == First \in Versions /\ Broken \subseteq Texts

VARIABLES
    ver,            \* policy_versions
    active,         \* tenant_config.active_policy_version
    before,         \* history: the version that was active before this one
    created,        \* number of versions created so far
    locked,         \* system_settings: admin_write_lock
    req,            \* requests in progress or answered
    audit,          \* POLICY.ACTIVE events: the request, before and after
    prepared,       \* of each gateway: the module prepared under a version
    call            \* evaluations

vars == <<ver, active, before, created, locked, req, audit, prepared, call>>

Compile(s) == <<"compiled", s>>
Raw(t) == <<"text", t>>
Compiles(module) == module \notin {Raw(t) : t \in Broken}

NoRow == [exists |-> FALSE]
NewRow(module, mode, source, at) ==
    [exists |-> TRUE, module |-> module, mode |-> mode, source |-> source, at |-> at]
Exists(v) == ver[v].exists

Init ==
    /\ \E t \in Texts \ Broken :
         ver = [v \in Versions |-> IF v = First THEN NewRow(Raw(t), "rego", None, 0) ELSE NoRow]
    /\ active = First
    /\ before = None
    /\ created = 0
    /\ locked = FALSE
    /\ req = [r \in Requests |-> [pc |-> "idle"]]
    /\ audit = {}
    /\ prepared = [g \in Gateways |-> [v \in {} |-> Raw(First)]]
    /\ call = [c \in Calls |-> [pc |-> "idle"]]

-----------------------------------------------------------------------------
(* Requests of administrators. *)

\* "frozen" is a history: administrators have been locked out ever since.
Start(r, op, v, module, source, todo) ==
    /\ op \in Ops
    /\ req[r].pc = "idle"
    /\ req' = [req EXCEPT ![r] =
         [pc |-> "running", op |-> op, asked |-> v, target |-> v,
          module |-> module, source |-> source, old |-> None, new |-> None, todo |-> todo,
          frozen |-> locked, wrote |-> FALSE]]
    /\ UNCHANGED <<ver, active, before, created, locked, audit, prepared, call>>

StorePublish == <<"lock", "exists", "activate">>
AnnounceNothing == <<"after">>
Announce == <<"after", "audit_publish">>

CreateAnything(r, v, t) ==
    Start(r, "create", v, Raw(t), None, <<"lock", "insert", "audit_create">>)
\* A module that OPA cannot prepare is refused.
HandlePolicyCreate(r, v, t) ==
    /\ t \notin Broken
    /\ Start(r, "create", v, Raw(t), None, <<"lock", "insert", "audit_create">>)

HandlePolicyStructuredCreate(r, v, s, publish) ==
    Start(r, "structured", v, Compile(s), s,
          <<"lock", "insert", "audit_create">>
            \o (IF publish THEN <<"before">> \o StorePublish \o Announce ELSE <<>>))

HandlePolicyPublish(r, v) ==
    Start(r, "publish", v, None, None, <<"before">> \o StorePublish \o Announce)

\* The version may be left out (None); the store then looks for one.
HandlePolicyRollback(r, v) ==
    Start(r, "rollback", v, None, None,
          <<"before", "lock">> \o (IF v = None THEN <<"current", "previous">> ELSE <<>>)
            \o StorePublish \o Announce)

\* The module is not looked at.
HandlePolicyUpdate(r, v, t) ==
    Start(r, "update", v, Raw(t), None,
          <<"before", "lock", "upsert">> \o StorePublish \o Announce)

Now(r, step) == req[r].pc = "running" /\ Head(req[r].todo) = step
Done(r) == [req[r] EXCEPT !.todo = Tail(@),
                          !.pc = IF Len(req[r].todo) = 1 THEN "acked" ELSE @]
Answer(r, pc) == req' = [req EXCEPT ![r].pc = pc]

\* The configuration read for the audit event; if it cannot be read the
\* event says so with an empty version.
ReadBefore(r) ==
    /\ Now(r, "before")
    /\ \E x \in {active, None} : req' = [req EXCEPT ![r] = [Done(r) EXCEPT !.old = x]]
    /\ UNCHANGED <<ver, active, before, created, locked, audit, prepared, call>>

ReadAfter(r) ==
    /\ Now(r, "after")
    /\ \E x \in {active, None} : req' = [req EXCEPT ![r] = [Done(r) EXCEPT !.new = x]]
    /\ UNCHANGED <<ver, active, before, created, locked, audit, prepared, call>>

EnsureAlways(r) ==
    /\ Now(r, "lock")
    /\ req' = [req EXCEPT ![r] = Done(r)]
    /\ UNCHANGED <<ver, active, before, created, locked, audit, prepared, call>>
EnsureAdminWritesAllowed(r) ==
    /\ Now(r, "lock")
    /\ IF locked THEN Answer(r, "refused") ELSE req' = [req EXCEPT ![r] = Done(r)]
    /\ UNCHANGED <<ver, active, before, created, locked, audit, prepared, call>>

\* (tenant_id, policy_version) is the primary key: a second insert fails.
CreatePolicyVersion(r) ==
    LET v == req[r].target
    IN  /\ Now(r, "insert")
        /\ IF Exists(v)
           THEN Answer(r, "failed") /\ UNCHANGED <<ver, created>>
           ELSE /\ ver' = [ver EXCEPT ![v] =
                     NewRow(req[r].module,
                            IF req[r].op = "structured" THEN "structured" ELSE "rego",
                            req[r].source, created + 1)]
                /\ created' = created + 1
                /\ req' = [req EXCEPT ![r] = [Done(r) EXCEPT !.wrote = TRUE]]
        /\ UNCHANGED <<active, before, locked, audit, prepared, call>>

\* The upsert keeps everything of an existing row but the module.
UpdatePolicy(r) ==
    LET v == req[r].target
    IN  /\ Now(r, "upsert")
        /\ ver' = [ver EXCEPT ![v] =
             IF Exists(v) THEN [@ EXCEPT !.module = req[r].module]
             ELSE NewRow(req[r].module, "rego", None, created + 1)]
        /\ created' = IF Exists(v) THEN created ELSE created + 1
        /\ req' = [req EXCEPT ![r] = [Done(r) EXCEPT !.wrote = TRUE]]
        /\ UNCHANGED <<active, before, locked, audit, prepared, call>>

\* A rollback without a version: the active one is read, and then the one
\* created last of all the others.
ReadCurrent(r) ==
    /\ Now(r, "current")
    /\ req' = [req EXCEPT ![r] = [Done(r) EXCEPT !.target = active]]
    /\ UNCHANGED <<ver, active, before, created, locked, audit, prepared, call>>

RollbackPolicyVersion(r) ==
    LET others == {v \in Versions : Exists(v) /\ v # req[r].target}
    IN  /\ Now(r, "previous")
        /\ IF others = {} THEN Answer(r, "refused")
           ELSE req' = [req EXCEPT ![r] = [Done(r) EXCEPT !.target =
                  CHOOSE v \in others : \A w \in others : ver[w].at <= ver[v].at]]
        /\ UNCHANGED <<ver, active, before, created, locked, audit, prepared, call>>

PublishCheck(r) ==
    /\ Now(r, "exists")
    /\ IF Exists(req[r].target) THEN req' = [req EXCEPT ![r] = Done(r)]
       ELSE Answer(r, "refused")
    /\ UNCHANGED <<ver, active, before, created, locked, audit, prepared, call>>

PublishPolicyVersion(r) ==
    /\ Now(r, "activate")
    /\ active' = req[r].target
    /\ before' = IF active' = active THEN before ELSE active
    /\ req' = [req EXCEPT ![r] = [Done(r) EXCEPT !.wrote = TRUE]]
    /\ UNCHANGED <<ver, created, locked, audit, prepared, call>>

AuditCreate(r) ==
    /\ Now(r, "audit_create")
    /\ req' = [req EXCEPT ![r] = Done(r)]
    /\ UNCHANGED <<ver, active, before, created, locked, audit, prepared, call>>

AuditPublish(r) ==
    /\ Now(r, "audit_publish")
    /\ audit' = audit \cup
         {[req |-> r, version |-> req[r].target, old |-> req[r].old, new |-> req[r].new]}
    /\ req' = [req EXCEPT ![r] = Done(r)]
    /\ UNCHANGED <<ver, active, before, created, locked, prepared, call>>

\* Any other statement may fail, and ends the request.
Fail(r) ==
    /\ req[r].pc = "running"
    /\ Head(req[r].todo) \notin {"before", "after"}
    /\ Answer(r, "failed")
    /\ UNCHANGED <<ver, active, before, created, locked, audit, prepared, call>>

SetAdminWriteLock ==
    /\ "lock" \in Ops
    /\ locked' = ~locked
    /\ req' = [r \in Requests |->
         IF req[r].pc = "running" THEN [req[r] EXCEPT !.frozen = @ /\ locked'] ELSE req[r]]
    /\ UNCHANGED <<ver, active, before, created, audit, prepared, call>>

-----------------------------------------------------------------------------
(* Evaluations. *)

GetPolicy(c, g) ==
    /\ call[c].pc = "idle"
    /\ call' = [call EXCEPT ![c] =
         [pc |-> "policy", gw |-> g, version |-> active, module |-> ver[active].module]]
    /\ UNCHANGED <<ver, active, before, created, locked, req, audit, prepared>>

CachedByVersion(c) == call[c].version \in DOMAIN prepared[call[c].gw]
CachedModule(c) ==
    /\ call[c].version \in DOMAIN prepared[call[c].gw]
    /\ prepared[call[c].gw][call[c].version] = call[c].module

Finish(c, pc, module) ==
    call' = [call EXCEPT ![c] =
      [pc |-> pc, gw |-> @.gw, version |-> @.version, module |-> @.module, used |-> module]]

\* The prepared query is used if it is that of the module just read.
EvaluatePrepared(c) ==
    /\ call[c].pc = "policy"
    /\ CachedModule(c)
    /\ Finish(c, "done", prepared[call[c].gw][call[c].version])
    /\ UNCHANGED <<ver, active, before, created, locked, req, audit, prepared>>

PrepareQuery(c) ==
    LET g == call[c].gw
        v == call[c].version
    IN  /\ call[c].pc = "policy"
        /\ ~CachedModule(c)
        /\ IF Compiles(call[c].module)
           THEN /\ prepared' = [prepared EXCEPT ![g] =
                     [w \in DOMAIN @ \cup {v} |-> IF w = v THEN call[c].module ELSE @[w]]]
                /\ Finish(c, "done", call[c].module)
           ELSE /\ Finish(c, "error", None)
                /\ UNCHANGED prepared
        /\ UNCHANGED <<ver, active, before, created, locked, req, audit>>

\* An entry is used for five minutes at most.
Expire(g, v) ==
    /\ v \in DOMAIN prepared[g]
    /\ prepared' = [prepared EXCEPT ![g] = [w \in DOMAIN @ \ {v} |-> @[w]]]
    /\ UNCHANGED <<ver, active, before, created, locked, req, audit, call>>

Next ==
    \/ \E r \in Requests :
         \/ \E v \in Versions :
              \/ \E t \in Texts : HandlePolicyCreate(r, v, t) \/ HandlePolicyUpdate(r, v, t)
              \/ \E s \in Sources, publish \in BOOLEAN :
                   HandlePolicyStructuredCreate(r, v, s, publish)
              \/ HandlePolicyPublish(r, v)
         \/ \E v \in Versions \cup {None} : HandlePolicyRollback(r, v)
         \/ ReadBefore(r) \/ ReadAfter(r)
         \/ EnsureAdminWritesAllowed(r)
         \/ CreatePolicyVersion(r) \/ UpdatePolicy(r)
         \/ ReadCurrent(r) \/ RollbackPolicyVersion(r)
         \/ PublishCheck(r) \/ PublishPolicyVersion(r)
         \/ AuditCreate(r) \/ AuditPublish(r)
         \/ Fail(r)
    \/ SetAdminWriteLock
    \/ \E c \in Calls :
         (\E g \in Gateways : GetPolicy(c, g)) \/ EvaluatePrepared(c) \/ PrepareQuery(c)
    \/ \E g \in Gateways : \E v \in DOMAIN prepared[g] : Expire(g, v)

Spec == Init /\ [][Next]_vars

-----------------------------------------------------------------------------
(* Properties. *)

\* A call is decided by the module that the active version had when the call
\* read it, whatever this gateway had prepared under that version's name.
DecidedByWhatWasRead ==
    \A c \in Calls : call[c].pc = "done" => call[c].used = call[c].module

\* Without the update that writes a module and publishes it in one request,
\* no policy that does not compile is ever active.
ActiveCompiles == "update" \notin Ops => Compiles(ver[active].module)

\* A request that begins while administrators are locked out, and for as long
\* as they are, changes no version and does not change which one is active.
LockFreezesPolicies ==
    \A r \in Requests : req[r].pc # "idle" => (req[r].frozen => ~req[r].wrote)

\* A change of the active version that was acknowledged has its audit event,
\* with the version that was asked for.
AckedIsAudited ==
    \A r \in Requests :
      req[r].pc = "acked" /\ (req[r].old # None \/ req[r].new # None) =>
        \E e \in audit : e.req = r /\ e.version = req[r].target

\* A rollback that names no version returns to the version that was active
\* before the present one.
RollbackToPrevious ==
    [][\A r \in Requests :
         /\ Now(r, "activate")
         /\ req[r].op = "rollback" /\ req[r].asked = None
         /\ req'[r] = [Done(r) EXCEPT !.wrote = TRUE]
         /\ before # None
         => active' = before]_vars

\* A version that the rule builder opens is enforced as the builder shows it.
BuilderShowsEnforced ==
    \A v \in Versions : Exists(v) /\ ver[v].mode = "structured" =>
      ver[v].module = Compile(ver[v].source)
=============================================================================
