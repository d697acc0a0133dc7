------------------------------- MODULE ToolConfig ------------------------------
(***************************************************************************)
(* A tenant's tools and risk overrides: administrators change the rows     *)
(* through any gateway, and every gateway looks them up through a cache of *)
(* its own, under a key with the tenant's configuration version.           *)
(*                                                                         *)
(* A request is the list of statements that its handler and the store      *)
(* still have to make, and every statement is a step of its own: the check *)
(* of the write lock, the write, the increment of the version, the         *)
(* invalidation of this gateway's caches and the audit event.  The         *)
(* lifetime of a cache entry is left open: an entry may disappear at any   *)
(* time.                                                                   *)
(***************************************************************************)
EXTENDS Integers, Sequences, FiniteSets, FiniteSetsExt

CONSTANTS
    Gateways,
    Tools,          \* tool_ids
    Registered,     \* of them, those that are registered at first
    Batches,        \* sequences of tools that a specification is turned into
    Actions,        \* action types with a risk override
    Requests, Lookups,
    Ops,            \* of the handlers, those that are used
    HasConfig,      \* whether the tenant has a tenant_config row
    Absent          \* no row

Items == Tools \cup Actions
Locking == {"write_lock_on", "write_lock_off"}

\* What is assumed of the constants.
ToolConfigAssumption ==
    /\ HasConfig \in BOOLEAN
    /\ Tools \cap Actions = {}
    /\ Registered \subseteq Tools

VARIABLES
    row,            \* tools and action_risk_overrides: what an item is, and
                    \* the number of the write that made it so
    writes,         \* number of writes so far
    version,        \* tenant_config.version
    locked,         \* system_settings: admin_write_lock
    cache,          \* of each gateway: the items known for a version
    req, look,      \* requests and lookups in progress or answered
    audit,          \* admin_audit_events: the request, before and after
    acked           \* history: newest acknowledged write of each item

vars == <<row, writes, version, locked, cache, req, look, audit, acked>>

Unknown == [val |-> Absent, stamp |-> 0]
NoCache == [k \in {} |-> Unknown]

Init ==
    /\ row = [i \in Items |->
         [val |-> IF i \in Registered THEN "live" ELSE Absent, stamp |-> 0]]
    /\ writes = 0
    /\ version = 1
    /\ locked = FALSE
    /\ cache = [g \in Gateways |-> NoCache]
    /\ req = [r \in Requests |-> [pc |-> "idle"]]
    /\ look = [l \in Lookups |-> [pc |-> "idle"]]
    /\ audit = {}
    /\ acked = [i \in Items |-> 0]

-----------------------------------------------------------------------------
(* Requests of administrators. *)

\* A handler starts: it has read the row that the audit event calls "before",
\* if it reads one.  "frozen" is a history: the write lock has been on ever
\* since.
Start(r, g, op, item, before, todo) ==
    /\ op \in Ops
    /\ req[r].pc = "idle"
    /\ req' = [req EXCEPT ![r] =
         [pc |-> "running", gw |-> g, op |-> op, items |-> <<item>>,
          before |-> before, todo |-> todo, wrote |-> {}, frozen |-> locked]]
    /\ UNCHANGED <<row, writes, version, locked, cache, look, audit, acked>>

StoreWrite == <<"lock", "write", "bump">>
Unchecked == <<"write", "bump", "invalidate", "audit">>

HandleToolConfigUpdateUnlocked(r, g, t) == Start(r, g, "config", t, row[t], Unchecked)
HandleToolConfigUpdate(r, g, t) ==
    Start(r, g, "config", t, row[t], StoreWrite \o <<"invalidate", "audit">>)
HandleToolMetadataUpdate(r, g, t) ==
    Start(r, g, "metadata", t, row[t], StoreWrite \o <<"invalidate", "audit">>)
HandleToolCreate(r, g, t) ==
    Start(r, g, "create", t, Unknown, StoreWrite \o <<"invalidate", "audit">>)
HandleToolArchive(r, g, t) ==
    Start(r, g, "archive", t, Unknown, StoreWrite \o <<"invalidate", "audit">>)
HandleToolRestore(r, g, t) ==
    Start(r, g, "restore", t, Unknown, StoreWrite \o <<"invalidate", "audit">>)
HandleRiskOverrideUpdate(r, g, a) ==
    Start(r, g, "risk_set", a, row[a], StoreWrite \o <<"invalidate", "audit">>)
HandleRiskOverrideDelete(r, g, a) ==
    Start(r, g, "risk_delete", a, row[a], StoreWrite \o <<"invalidate", "audit">>)

\* An import inserts one tool after the other; a tool that exists is skipped.
HandleOpenAPIImportConfirm(r, g, ts) ==
    /\ "import" \in Ops
    /\ req[r].pc = "idle"
    /\ req' = [req EXCEPT ![r] =
         [pc |-> "running", gw |-> g, op |-> "import", items |-> ts,
          before |-> Unknown, todo |-> StoreWrite \o <<"next">>, wrote |-> {},
          frozen |-> locked]]
    /\ UNCHANGED <<row, writes, version, locked, cache, look, audit, acked>>

\* The lock itself is written without a check and without a version.
HandleAdminWriteLock(r, g, op) ==
    /\ op \in Ops \cap Locking
    /\ req[r].pc = "idle"
    /\ req' = [req EXCEPT ![r] =
         [pc |-> "running", gw |-> g, op |-> op, items |-> <<>>,
          before |-> Unknown, todo |-> <<"set", "audit">>, wrote |-> {},
          frozen |-> FALSE]]
    /\ UNCHANGED <<row, writes, version, locked, cache, look, audit, acked>>

Now(r, step) == req[r].pc = "running" /\ Head(req[r].todo) = step
Item(r) == req[r].items[1]
Done(r) == [req[r] EXCEPT !.todo = Tail(@)]
Answer(r, pc) == req' = [req EXCEPT ![r].pc = pc]

EnsureAdminWritesAllowed(r) ==
    /\ Now(r, "lock")
    /\ \/ locked /\ Answer(r, "refused")
       \/ ~locked /\ req' = [req EXCEPT ![r] = Done(r)]
    /\ UNCHANGED <<row, writes, version, locked, cache, look, audit, acked>>

\* The statements: what they make of the row, or nothing if they do not find
\* the row that they are for.
InsertTool(val) == IF val = Absent THEN {"live"} ELSE {}
ArchiveTool(val) == IF val = "live" THEN {"archived"} ELSE {}
RestoreTool(val) == IF val = "archived" THEN {"live"} ELSE {}
UpdateToolConfig(val) == {val} \ {Absent}
UpdateToolMetadata(val) == {val} \ {Absent}
UpdateRiskOverride(val) == {"set"}
DeleteRiskOverride(val) == {Absent}

Statement(op, val) ==
    CASE op \in {"create", "import"} -> InsertTool(val)
      [] op = "archive" -> ArchiveTool(val)
      [] op = "restore" -> RestoreTool(val)
      [] op = "config" -> UpdateToolConfig(val)
      [] op = "metadata" -> UpdateToolMetadata(val)
      [] op = "risk_set" -> UpdateRiskOverride(val)
      [] op = "risk_delete" -> DeleteRiskOverride(val)

Write(r) ==
    LET op == req[r].op
        i == Item(r)
    IN  /\ Now(r, "write")
        /\ \E val \in Statement(op, row[i].val) :
             row' = [row EXCEPT ![i] = [val |-> val, stamp |-> writes + 1]]
        /\ writes' = writes + 1
        /\ req' = [req EXCEPT ![r] = [Done(r) EXCEPT
             !.wrote = @ \cup {[item |-> i, stamp |-> writes + 1]}]]
        /\ UNCHANGED <<version, locked, cache, look, audit, acked>>

WriteNothingUnnoticed(r) ==
    /\ Now(r, "write")
    /\ Statement(req[r].op, row[Item(r)].val) = {}
    /\ req' = [req EXCEPT ![r] = Done(r)]
    /\ UNCHANGED <<row, writes, version, locked, cache, look, audit, acked>>
\* Statements that find no row: archiving and restoring report it, creating
\* reports the duplicate, an import goes on with the next tool, and an update
\* takes it for done.
WriteNothing(r) ==
    LET op == req[r].op
    IN  /\ Now(r, "write")
        /\ Statement(op, row[Item(r)].val) = {}
        /\ \/ op \in {"create", "archive", "restore"} /\ Answer(r, "refused")
           \/ op \in {"config", "metadata"} /\ req' = [req EXCEPT ![r] = Done(r)]
           \/ op = "import" /\ req' = [req EXCEPT ![r].todo = <<"next">>]
        /\ UNCHANGED <<row, writes, version, locked, cache, look, audit, acked>>

SetAdminWriteLock(r) ==
    /\ Now(r, "set")
    /\ locked' = (req[r].op = "write_lock_on")
    /\ req' = [x \in Requests |->
         LET y == IF x = r THEN Done(r) ELSE req[x]
         IN  IF y.pc = "running" THEN [y EXCEPT !.frozen = @ /\ locked'] ELSE y]
    /\ UNCHANGED <<row, writes, version, cache, look, audit, acked>>

BumpNothing(r) ==
    /\ Now(r, "bump")
    /\ req' = [req EXCEPT ![r] = Done(r)]
    /\ UNCHANGED <<row, writes, version, locked, cache, look, audit, acked>>
\* Without a tenant_config row the statement changes nothing, and says so to
\* nobody.
BumpTenantConfigVersion(r) ==
    /\ Now(r, "bump")
    /\ version' = IF HasConfig THEN version + 1 ELSE version
    /\ req' = [req EXCEPT ![r] = Done(r)]
    /\ UNCHANGED <<row, writes, locked, cache, look, audit, acked>>

ImportNext(r) ==
    /\ Now(r, "next")
    /\ req' = [req EXCEPT ![r] =
         IF Len(@.items) > 1
         THEN [@ EXCEPT !.items = Tail(@), !.todo = StoreWrite \o <<"next">>]
         ELSE [@ EXCEPT !.todo = <<"invalidate", "audit">>]]
    /\ UNCHANGED <<row, writes, version, locked, cache, look, audit, acked>>

InvalidateTenantCaches(r) ==
    /\ Now(r, "invalidate")
    /\ cache' = [cache EXCEPT ![req[r].gw] = NoCache]
    /\ req' = [req EXCEPT ![r] = Done(r)]
    /\ UNCHANGED <<row, writes, version, locked, look, audit, acked>>

\* The event is written last, and the request is acknowledged.
EmitAuditEvent(r) ==
    /\ Now(r, "audit")
    /\ audit' = audit \cup {[req |-> r, before |-> req[r].before,
                             wrote |-> req[r].wrote]}
    /\ Answer(r, "acked")
    /\ acked' = [i \in Items |->
         Max({acked[i]} \cup {w.stamp : w \in {x \in req[r].wrote : x.item = i}})]
    /\ UNCHANGED <<row, writes, version, locked, cache, look>>

\* Any statement may fail; the request ends there, with what it has done.
Fail(r) ==
    /\ req[r].pc = "running"
    /\ Head(req[r].todo) \notin {"invalidate", "next"}
    /\ Answer(r, "failed")
    /\ UNCHANGED <<row, writes, version, locked, cache, look, audit, acked>>

-----------------------------------------------------------------------------
(* Lookups by tool calls. *)

\* The version is read first; without it the key is that of version 1.
TenantCacheVersion(l, g, i) ==
    /\ look[l].pc = "idle"
    /\ \E v \in {version, 1} :
         look' = [look EXCEPT ![l] =
           [pc |-> "get", gw |-> g, item |-> i, ver |-> v,
            exact |-> v = version, floor |-> acked[i]]]
    /\ UNCHANGED <<row, writes, version, locked, cache, req, audit, acked>>

Key(l) == <<look[l].ver, look[l].item>>

CacheGet(l) ==
    LET known == cache[look[l].gw]
    IN  /\ look[l].pc = "get"
        /\ look' = [look EXCEPT ![l] =
             IF Key(l) \in DOMAIN known
             THEN [pc |-> "done", gw |-> @.gw, item |-> @.item,
                   exact |-> @.exact, floor |-> @.floor,
                   val |-> known[Key(l)]]
             ELSE [@ EXCEPT !.pc = "read"]]
        /\ UNCHANGED <<row, writes, version, locked, cache, req, audit, acked>>

\* GetTool finds archived tools as well; a row that is not there is not cached.
GetTool(l) ==
    LET x == row[look[l].item]
    IN  /\ look[l].pc = "read"
        /\ look' = [look EXCEPT ![l] =
             [pc |-> IF x.val = Absent THEN "done" ELSE "set", gw |-> @.gw,
              item |-> @.item, ver |-> @.ver, exact |-> @.exact,
              floor |-> @.floor, val |-> x]]
        /\ UNCHANGED <<row, writes, version, locked, cache, req, audit, acked>>

CacheSet(l) ==
    /\ look[l].pc = "set"
    /\ cache' = [cache EXCEPT ![look[l].gw] =
         [k \in DOMAIN @ \cup {Key(l)} |->
            IF k = Key(l) THEN look[l].val ELSE @[k]]]
    /\ look' = [look EXCEPT ![l].pc = "done"]
    /\ UNCHANGED <<row, writes, version, locked, req, audit, acked>>

\* An entry is used until its lifetime is over.
Expire(g, k) ==
    /\ k \in DOMAIN cache[g]
    /\ cache' = [cache EXCEPT ![g] = [j \in DOMAIN @ \ {k} |-> @[j]]]
    /\ UNCHANGED <<row, writes, version, locked, req, look, audit, acked>>

Next ==
    \/ \E r \in Requests :
         \/ \E g \in Gateways, t \in Tools :
              \/ HandleToolConfigUpdate(r, g, t)
              \/ HandleToolMetadataUpdate(r, g, t)
              \/ HandleToolCreate(r, g, t)
              \/ HandleToolArchive(r, g, t)
              \/ HandleToolRestore(r, g, t)
         \/ \E g \in Gateways, ts \in Batches : HandleOpenAPIImportConfirm(r, g, ts)
         \/ \E g \in Gateways, a \in Actions :
              HandleRiskOverrideUpdate(r, g, a) \/ HandleRiskOverrideDelete(r, g, a)
         \/ \E g \in Gateways, op \in Locking : HandleAdminWriteLock(r, g, op)
         \/ EnsureAdminWritesAllowed(r) \/ Write(r) \/ WriteNothing(r)
         \/ SetAdminWriteLock(r)
         \/ BumpTenantConfigVersion(r)
         \/ ImportNext(r)
         \/ InvalidateTenantCaches(r)
         \/ EmitAuditEvent(r)
         \/ Fail(r)
    \/ \E l \in Lookups :
         \/ \E g \in Gateways, i \in Items : TenantCacheVersion(l, g, i)
         \/ CacheGet(l) \/ GetTool(l) \/ CacheSet(l)
    \/ \E g \in Gateways : \E k \in DOMAIN cache[g] : Expire(g, k)

Spec == Init /\ [][Next]_vars

-----------------------------------------------------------------------------
(* Properties. *)

\* A lookup that begins after a change was acknowledged, on whatever gateway,
\* does not return what was there before, if it could read the version.
FreshAfterAck ==
    \A l \in Lookups : look[l].pc = "done" /\ look[l].exact =>
      look[l].val.stamp >= look[l].floor

\* A request that begins while administrators are locked out changes no row
\* for as long as they are.
LockFreezes ==
    \A r \in Requests : req[r].pc # "idle" =>
      (req[r].frozen => req[r].wrote = {})

\* An event of a change that the handler would have refused to find nothing
\* to change for tells of a write that was made, and of the row before it
\* no later than that write.
AuditTellsWrite ==
    \A e \in audit :
      LET x == req[e.req]
      IN  /\ x.op \notin Locking \cup {"config", "metadata", "import"} =>
               e.wrote # {}
          /\ \A w \in e.wrote : e.before.stamp < w.stamp

\* While the lock is on, no row changes.
NoWriteWhileLocked == [][locked => UNCHANGED row]_vars
=============================================================================
