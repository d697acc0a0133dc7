------------------------------ MODULE AuditTrail ------------------------------
(***************************************************************************)
(* The admin audit trail: the table rbitr.admin_audit_events, the hash     *)
(* chain of every stream that InsertAuditEvent extends, the trigger of     *)
(* migration 14 that keeps the rows as they are, the retention job that    *)
(* tries to delete old ones, and the listing that an administrator pages   *)
(* through, cut off at the window of the licence tier.                     *)
(*                                                                         *)
(* A hash is the pair of what went into it, so equal hashes mean equal     *)
(* inputs.  A body is the set of the fields of before and after.  Time is  *)
(* counted in the steps of the gateway's clock; the database keeps         *)
(* created_at to Res of them.                                              *)
(***************************************************************************)
EXTENDS Integers, FiniteSets

CONSTANTS
    Writers,        \* runs of emitAuditEvent
    TrailTenants,   \* each has a stream of its own, next to "global"
    EventIds,       \* audit_event_id: a random order, here a set of numbers
    Allowlist,      \* resource type |-> the fields it may show
    ResourceTypes,  \* resource types of the events, listed there or not
    EventBodies,    \* sets of fields that handlers pass
    Res,            \* clock steps in a microsecond
    FreeWindow,     \* the free tier's AuditRetentionDays
    Retention,      \* audit_retention_days
    PageSize,       \* the limit of the listing
    Froms,          \* starts an administrator asks the listing for
    Tiers,          \* licence tiers
    MaxTrailTime,   \* bound on the clock
    NoFloor

ASSUME AuditAssumption ==
    /\ EventIds \subseteq Nat
    /\ Res \in Nat \ {0}
    /\ PageSize \in Nat \ {0}
    /\ FreeWindow \in Nat /\ Froms \subseteq Nat /\ NoFloor \notin Int
    /\ "global" \notin TrailTenants
    /\ DOMAIN Allowlist \subseteq ResourceTypes

VARIABLES
    events,         \* the rows
    pend,           \* what a writer is about to insert
    trailClock, tier,
    swept,          \* the cutoff of the last retention run, or NoFloor
    pager,          \* an administrator who pages through a listing
    disturbed       \* streams whose writers overlapped or shared a microsecond

trailVars == <<events, pend, trailClock, tier, swept, pager, disturbed>>

Streams == TrailTenants \cup {"global"}
InStream(s) == {e \in events : e.stream = s}
Stored(t) == (t \div Res) * Res

\* A field that is not in the list of its resource type is dropped; a type
\* without a list keeps no field.
RedactPayloadAll(rt, body) == body
RedactPayload(rt, body) ==
    IF rt \in DOMAIN Allowlist THEN body \cap Allowlist[rt] ELSE {}

BuildHashPayload(s, id, t, rt, body) == <<s, id, t, rt, body>>
ComputeEventHash(prev, payload) == <<prev, payload>>

Later(a, b) == \/ a.at > b.at
               \/ a.at = b.at /\ a.id > b.id

\* The newest row by created_at, then by id: not by the order of inserts.
LastAuditHashAnyStream(s) ==
    IF events = {} THEN {<<>>}
    ELSE {e.hash : e \in {x \in events : \A f \in events \ {x} : Later(x, f)}}
LastAuditHash(s) ==
    IF InStream(s) = {} THEN {<<>>}
    ELSE {e.hash : e \in {x \in InStream(s) : \A f \in InStream(s) \ {x} : Later(x, f)}}

NoWalk == [busy |-> FALSE, pages |-> {}, base |-> {}, offset |-> 0,
         stream |-> "global", from |-> 0, served |-> {}, cut |-> 0]

TrailInit ==
    /\ events = {}
    /\ pend = [w \in Writers |-> NoFloor]
    /\ trailClock = 0
    /\ tier \in Tiers
    /\ swept = NoFloor
    /\ pager = NoWalk
    /\ disturbed = {}

-----------------------------------------------------------------------------
(* Writing an event. *)

UsedIds == {e.id : e \in events} \cup
           {pend[w].id : w \in {v \in Writers : pend[v] # NoFloor}}

\* emitAuditEvent stamps and redacts the event, then InsertAuditEvent picks
\* the stream, reads the last hash of it and computes the new one.
Emit(w, s, rt, body) ==
    /\ pend[w] = NoFloor
    /\ \E id \in EventIds \ UsedIds, prev \in LastAuditHash(s) :
         LET kept == RedactPayload(rt, body)
             payload == BuildHashPayload(s, id, trailClock, rt, kept)
         IN  pend' = [pend EXCEPT ![w] =
                 [stream |-> s, id |-> id, at |-> Stored(trailClock), rt |-> rt,
                  body |-> kept, prev |-> prev,
                  hash |-> ComputeEventHash(prev, payload)]]
    /\ disturbed' =
         IF \/ \E v \in Writers : pend[v] # NoFloor /\ pend[v].stream = s
            \/ \E e \in InStream(s) : e.at >= Stored(trailClock)
         THEN disturbed \cup {s} ELSE disturbed
    /\ UNCHANGED <<events, trailClock, tier, swept, pager>>

Insert(w) ==
    /\ pend[w] # NoFloor
    /\ events' = events \cup {pend[w]}
    /\ pend' = [pend EXCEPT ![w] = NoFloor]
    /\ UNCHANGED <<trailClock, tier, swept, pager, disturbed>>

\* The handler answers 500 and the event is lost.
InsertError(w) ==
    /\ pend[w] # NoFloor
    /\ pend' = [pend EXCEPT ![w] = NoFloor]
    /\ UNCHANGED <<events, trailClock, tier, swept, pager, disturbed>>

-----------------------------------------------------------------------------
(* Retention. *)

\* The trigger raises an exception for the first row that a DELETE reaches,
\* which undoes the statement: one that reaches no row does nothing either.
BlockAuditMutations(old) == {}

DeleteAuditEventsBefore(cutoff) ==
    LET old == {e \in events : e.at < cutoff}
        gone == BlockAuditMutations(old)
    IN  events' = events \ gone

Retain ==
    /\ trailClock >= Retention
    /\ swept # trailClock - Retention
    /\ DeleteAuditEventsBefore(trailClock - Retention)
    /\ swept' = trailClock - Retention
    /\ UNCHANGED <<pend, trailClock, tier, pager, disturbed>>

-----------------------------------------------------------------------------
(* Listing. *)

AuditVisibilityFloor == IF tier = "free" THEN trailClock - FreeWindow ELSE NoFloor

ApplyVisibilityFloorSwapped(from, floor) ==
    IF floor = NoFloor \/ from < floor THEN from ELSE floor
ApplyVisibilityFloor(from, floor) ==
    IF floor = NoFloor \/ from >= floor THEN from ELSE floor

OrdersUnsorted(sel) ==
    {q \in [1..Cardinality(sel) -> sel] : \A i, j \in DOMAIN q : i # j => q[i] # q[j]}
\* The orders in which a query may return a set of rows: newest first, and
\* rows of the same created_at in any order, which the next query may change.
Orders(sel) ==
    {q \in [1..Cardinality(sel) -> sel] :
       /\ \A i, j \in DOMAIN q : i # j => q[i] # q[j]
       /\ \A i, j \in DOMAIN q : i < j => q[i].at >= q[j].at}

\* The rows after the first offset ones, and whether they are the last.
ListAuditEvents(s, from, offset) ==
    LET sel == {e \in InStream(s) : e.at >= from}
        end == offset + PageSize
        last == end >= Cardinality(sel)
    IN  {[rows |-> {q[i] : i \in {j \in DOMAIN q : offset < j /\ j <= end}},
          last |-> last] : q \in Orders(sel)}

\* With all=true the limit is 0, and the query has no LIMIT and no OFFSET.
ListAuditEventsExport(s, from) ==
    [rows |-> {e \in InStream(s) : e.at >= from}, last |-> TRUE]

Served(p, page) ==
    [busy |-> ~page.last, pages |-> p.pages \cup page.rows, base |-> p.base,
     offset |-> p.offset + PageSize, stream |-> p.stream, from |-> p.from, served |-> page.rows,
     cut |-> IF tier = "free" THEN trailClock - FreeWindow ELSE 0]

Walk(s, from) == [NoWalk EXCEPT !.stream = s, !.from = from,
                              !.base = InStream(s)]

\* An administrator's request for a page of the listing.
PageFrom(p) ==
    LET from == ApplyVisibilityFloor(p.from, AuditVisibilityFloor)
    IN  \E page \in ListAuditEvents(p.stream, from, p.offset) :
          pager' = Served(p, page)

Export(s, from) ==
    /\ ~pager.busy
    /\ events # {}
    /\ LET floor == ApplyVisibilityFloor(from, AuditVisibilityFloor)
       IN  pager' = Served(Walk(s, from), ListAuditEventsExport(s, floor))
    /\ UNCHANGED <<events, pend, trailClock, tier, swept, disturbed>>

ListFirst(s, from) ==
    /\ ~pager.busy
    /\ events # {}
    /\ PageFrom(Walk(s, from))
    /\ UNCHANGED <<events, pend, trailClock, tier, swept, disturbed>>

ListNext ==
    /\ pager.busy
    /\ PageFrom(pager)
    /\ UNCHANGED <<events, pend, trailClock, tier, swept, disturbed>>

-----------------------------------------------------------------------------
TrailTick ==
    /\ trailClock < MaxTrailTime
    /\ trailClock' = trailClock + 1
    /\ UNCHANGED <<events, pend, tier, swept, pager, disturbed>>

\* The licence is changed.
SetTier ==
    /\ tier' \in Tiers \ {tier}
    /\ UNCHANGED <<events, pend, trailClock, swept, pager, disturbed>>

TrailNext ==
    \/ \E w \in Writers :
         \/ \E s \in Streams, rt \in ResourceTypes, b \in EventBodies :
              Emit(w, s, rt, b)
         \/ Insert(w)
         \/ InsertError(w)
    \/ Retain
    \/ \E s \in Streams, from \in Froms : ListFirst(s, from) \/ Export(s, from)
    \/ ListNext
    \/ TrailTick
    \/ SetTier

TrailSpec == TrailInit /\ [][TrailNext]_trailVars

-----------------------------------------------------------------------------
(* Properties. *)

\* Whatever writers overlap, and whatever the retention job attempts, an
\* event continues an event of its own stream that is still there, or it
\* starts the stream: no row is ever cut loose from the chain that
\* lastAuditHash found for it.
ChainGrounded ==
    \A e \in events : e.prev = <<>> \/ \E f \in InStream(e.stream) :
                                        f.hash = e.prev /\ f.at <= e.at

\* A stream whose writers never overlapped, and never shared a microsecond,
\* is one chain: each event but the last has exactly one successor.
SerialChain ==
    \A s \in Streams \ disturbed :
      \A e, f \in InStream(s) : e # f => e.prev # f.prev

\* Only fields that the resource type lists reach the table.
RedactedBodies ==
    \A e \in events : \A f \in e.body :
      e.rt \in DOMAIN Allowlist /\ f \in Allowlist[e.rt]

\* An administrator who has walked through the pages of a stream has seen
\* every event that was stored when the walk began and is still in the
\* window, whatever was written between two pages.  Rows that share a
\* created_at are the exception: the listing has no tie-breaker.
WalkIsComplete ==
    (~pager.busy /\ pager.offset > 0) =>
      \A e \in pager.base :
        \/ e \in pager.pages
        \/ e.at < pager.from
        \/ e.at < trailClock - FreeWindow
        \/ \E f \in InStream(e.stream) \ {e} : f.at = e.at

\* A page served to the free tier holds no event from before its window,
\* whatever start the administrator asked for.
FreeTierWindow == \A e \in pager.served : e.at >= pager.cut

\* Whatever writers overlap and retention attempts, an audit event continues
\* one of its own stream that is still there, or starts the stream, and a
\* stream whose writers never overlapped is one chain; only listed fields
\* are stored; and a page served to the free tier holds no event from before
\* its window (InsertAuditEvent, block_audit_mutations, RedactPayload,
\* applyVisibilityFloor).
TrailHolds ==
    /\ ChainGrounded
    /\ SerialChain
    /\ RedactedBodies
    /\ FreeTierWindow

-----------------------------------------------------------------------------
(* Claims of the documentation. *)

\* The query of docs/runbooks/disaster-recovery.md: in the order of the rows
\* every event of a stream names the hash of the one before it.
ChainUnbroken ==
    \A s \in Streams : \A e, f \in InStream(s) :
      (Later(e, f) /\ ~\E x \in InStream(s) : Later(e, x) /\ Later(x, f)) => e.prev = f.hash

\* An event's hash can be computed again from the row, to detect tampering.
HashRecomputes ==
    \A e \in events :
      e.hash = ComputeEventHash(e.prev,
                 BuildHashPayload(e.stream, e.id, e.at, e.rt, e.body))

\* After a retention run the events from before its cutoff are gone.
RetentionApplies == swept # NoFloor => \A e \in events : e.at >= swept
=============================================================================
