-------------------------- MODULE Background_proofs --------------------------
(***************************************************************************)
(* What is proved of what the requests of all gateways share: the scheduled *)
(* jobs that gateways take turns at, the audit trail that all of them      *)
(* write, and the counters of the rate limits.                             *)
(***************************************************************************)
EXTENDS JobLock, AuditTrail, RateLimit, FiniteSetTheorems, TLAPS

\* The provers that try a leaf which names none, and their time.
USE SMTT(15), ZenonT(30)

-----------------------------------------------------------------------------
(* The job lock, for any number of gateways and connections, whichever     *)
(* sessions the pools hand out, close or lose.  WorkIsLocked is not        *)
(* inductive: that another gateway's lock or release leaves the lock of a  *)
(* run alone follows only when the session that has it is known to be one  *)
(* of the gateway that runs.                                               *)

\* The lock of a run that lost no connection is held, by the session that
\* took it, which is a session of the gateway that runs.
Held(n) == owner = via[n] /\ via[n] \in ConnsOf(n)

JobInv ==
    /\ job \in [Nodes -> JobStates]
    /\ via \in [Nodes -> Conns \cup {NoConn}]
    /\ lost \subseteq Nodes
    /\ \A n \in Nodes : AtWork(n) /\ n \notin lost => Held(n)

\* A session belongs to one gateway, and is not the absence of one.
LEMMA ConnsApart ==
    ASSUME NEW n \in Nodes, NEW m \in Nodes, NEW c \in ConnsOf(n)
    PROVE  c \in Conns /\ c # NoConn /\ (c \in ConnsOf(m) => n = m)
  BY JobLockAssumption DEF ConnsOf, Conns

LEMMA InitJobInv == JobInit => JobInv
  BY DEF JobInit, JobInv, JobStates, AtWork

\* A step of gateway n, which may take or leave the lock with a session of
\* its own, does not touch the lock of another gateway's run.
LEMMA OthersKeep ==
    ASSUME JobInv, NEW n \in Nodes, NEW c \in ConnsOf(n),
           NEW s \in JobStates, NEW v \in Conns \cup {NoConn},
           job' = [job EXCEPT ![n] = s], via' = [via EXCEPT ![n] = v],
           lost' = lost \ {n},
           owner \notin {NoConn, c} => owner' = owner,
           s \in {"working", "releasing"} => v = c /\ owner' = c
    PROVE  JobInv'
<1>1. job' \in [Nodes -> JobStates] /\ via' \in [Nodes -> Conns \cup {NoConn}] /\ lost' \subseteq Nodes
    BY DEF JobInv
<1>2. ASSUME NEW m \in Nodes, AtWork(m)', m \notin lost' PROVE Held(m)'
  <2>1. CASE m = n
    <3>1. job'[m] = s /\ via'[m] = v
        BY <2>1 DEF JobInv
    <3> QED BY <1>2, <2>1, <3>1 DEF AtWork, Held, ConnsOf, Conns
  <2>2. CASE m # n
    <3>1. job'[m] = job[m] /\ via'[m] = via[m] /\ m \notin lost
        BY <1>2, <2>2 DEF JobInv
    <3>2. owner = via[m] /\ via[m] \in ConnsOf(m)
        BY <1>2, <3>1 DEF JobInv, AtWork, Held
    <3>3. owner # NoConn /\ owner # c
        BY <2>2, <3>2, ConnsApart
    <3> QED BY <3>1, <3>2, <3>3 DEF Held, ConnsOf, Conns
  <2> QED BY <2>1, <2>2
<1> QED BY <1>1, <1>2 DEF JobInv

LEMMA LockJobInv == ASSUME JobInv, NEW n \in Nodes, Lock(n) PROVE JobInv'
<1>1. PICK c \in ConnsOf(n) : TryAdvisoryLock(n, c)
    BY DEF Lock, Takes
<1>2. c \in Conns
    BY DEF ConnsOf
<1>3. CASE owner \in {NoConn, c}
    BY <1>1, <1>2, <1>3, OthersKeep DEF TryAdvisoryLock, JobStates
<1>4. CASE owner \notin {NoConn, c}
    BY <1>1, <1>4
    DEF TryAdvisoryLock, lockVars, runVars, JobInv, AtWork, Held, ConnsOf, Conns,
        JobStates
<1> QED BY <1>3, <1>4

LEMMA ReleaseJobInv == ASSUME JobInv, NEW n \in Nodes, Release(n) PROVE JobInv'
<1>1. PICK c \in ConnsOf(n) : ReleaseAdvisoryLock(c)
    BY DEF Release, Takes
<1>2. owner \notin {NoConn, c} => owner' = owner
    BY <1>1 DEF ReleaseAdvisoryLock, lockVars
<1> QED BY <1>2, OthersKeep, ZenonT(30) DEF Release, EndRun, JobStates

\* What leaves the lock, the sessions and the lost runs alone, and begins no
\* run, keeps the invariant.
LEMMA NoRunBegins ==
    ASSUME JobInv, job' \in [Nodes -> JobStates],
           UNCHANGED <<owner, via, lost>>,
           \A n \in Nodes : AtWork(n)' => AtWork(n)
    PROVE  JobInv'
  BY DEF JobInv, Held, ConnsOf, Conns

\* Recycle: the run whose session is closed has lost its connection.
LEMMA RecycleJobInv == ASSUME JobInv, NEW c \in Conns, Recycle(c) PROVE JobInv'
  BY DEF JobInv, Recycle, CloseConns, AtWork, Held, ConnsOf, Conns

LEMMA StopJobInv == ASSUME JobInv, NEW n \in Nodes, Stop(n) PROVE JobInv'
<1>1. job' \in [Nodes -> JobStates] /\ via' \in [Nodes -> Conns \cup {NoConn}] /\ lost' \subseteq Nodes
    BY DEF JobInv, Stop, JobStates
<1>2. ASSUME NEW m \in Nodes, AtWork(m)', m \notin lost' PROVE Held(m)'
  <2>1. m # n
      BY <1>2 DEF Stop, AtWork, JobInv
  <2>2. job'[m] = job[m] /\ via'[m] = via[m] /\ m \notin lost
      BY <1>2, <2>1 DEF Stop, JobInv
  <2>3. owner = via[m] /\ via[m] \in ConnsOf(m)
      BY <1>2, <2>2 DEF JobInv, AtWork, Held
  <2>4. owner \notin ConnsOf(n)
      BY <2>1, <2>3, ConnsApart
  <2> QED BY <2>2, <2>3, <2>4 DEF Stop, CloseConns, Held, ConnsOf, Conns
<1> QED BY <1>1, <1>2 DEF JobInv

LEMMA NextJobInv == JobInv /\ [JobNext]_jobVars => JobInv'
<1> SUFFICES ASSUME JobInv, [JobNext]_jobVars PROVE JobInv'
    OBVIOUS
<1>1. CASE Interval
    BY <1>1, NoRunBegins DEF Interval, JobInv, AtWork, JobStates, lockVars, runVars
<1>2. ASSUME NEW n \in Nodes, JobStep(n) PROVE JobInv'
  <2>1. CASE LockError(n) \/ Run(n)
      BY <2>1, NoRunBegins
      DEF LockError, Run, JobInv, AtWork, JobStates, lockVars, runVars
  <2>2. CASE ReleaseError(n)
      BY <2>2
      DEF ReleaseError, EndRun, JobInv, AtWork, Held, JobStates, lockVars, ConnsOf,
          Conns
  <2> QED BY <1>2, <2>1, <2>2, LockJobInv, ReleaseJobInv DEF JobStep
<1>3. ASSUME NEW n \in Nodes, Start(n) PROVE JobInv'
    BY <1>3, NoRunBegins DEF Start, JobInv, AtWork, JobStates, lockVars, runVars
<1>4. ASSUME NEW c \in Conns, Borrow(c) \/ Return(c) PROVE JobInv'
    BY <1>4, NoRunBegins DEF Borrow, Return, JobInv, AtWork, lockVars, runVars
<1>5. CASE UNCHANGED jobVars
    BY <1>5, NoRunBegins DEF jobVars, JobInv, AtWork
<1> QED BY <1>1, <1>2, <1>3, <1>4, <1>5, RecycleJobInv, StopJobInv DEF JobNext

LEMMA JobInvAlways == JobSpec => []JobInv
  BY InitJobInv, NextJobInv, PTL DEF JobSpec

\* TryAdvisoryLock, ReleaseAdvisoryLock and ApprovalExpiryScheduler.run: a
\* gateway that is at work and has lost no connection holds the lock of the
\* job, so that two gateways are at work at the same time only when the pool
\* has closed, under one of them, the connection whose session had the lock.
THEOREM JobsAreExclusive == JobSpec => []JobIsExclusive
<1>1. JobInv => WorkIsLocked
    BY DEF JobInv, WorkIsLocked, Held
<1>2. JobInv => Exclusive
    BY ConnsApart DEF JobInv, Exclusive, Held
<1>3. JobInv => JobIsExclusive
    BY <1>1, <1>2 DEF JobIsExclusive
<1> QED BY JobInvAlways, <1>3, PTL

-----------------------------------------------------------------------------
(* The audit trail. *)

\* What holds of every row, stored or about to be.
TrailRowOK(e) ==
    /\ e.at \in Nat /\ e.at <= Stored(trailClock)
    /\ e.hash # <<>> /\ e.hash[2][2] = e.id
    /\ e.prev = <<>> \/ \E f \in InStream(e.stream) : f.hash = e.prev /\ f.at <= e.at
    /\ \A x \in e.body : e.rt \in DOMAIN Allowlist /\ x \in Allowlist[e.rt]

Pending(w) == pend[w] # NoFloor
PendingIn(w, s) == Pending(w) /\ pend[w].stream = s

FreshIds ==
    \A w \in Writers : Pending(w) =>
        /\ \A e \in events : e.id # pend[w].id
        /\ \A v \in Writers \ {w} : Pending(v) => pend[v].id # pend[w].id

\* A stream that was not disturbed has one writer at a time, which extends
\* it at its end.
SerialStream(s) ==
    /\ \A w, v \in Writers : PendingIn(w, s) /\ PendingIn(v, s) => w = v
    /\ \A w \in Writers : PendingIn(w, s) =>
         \A e \in InStream(s) : e.at < pend[w].at /\ e.prev # pend[w].prev
    /\ \A e, f \in InStream(s) : e.prev = f.hash => f.at < e.at
    /\ \A e, f \in InStream(s) : e # f => e.prev # f.prev

TrailInv ==
    /\ trailClock \in Nat
    /\ pend = [w \in Writers |-> pend[w]]
    /\ \A e \in events : TrailRowOK(e)
    /\ \A w \in Writers : Pending(w) => TrailRowOK(pend[w])
    /\ FreshIds
    /\ \A s \in Streams \ disturbed : SerialStream(s)
    /\ pager.from \in Nat
    /\ FreeTierWindow

LEMMA MultMono == ASSUME NEW a \in Nat, NEW b \in Nat, NEW c \in Nat, a <= b PROVE a * c <= b * c
<1>1. b * c - a * c = (b - a) * c
    OBVIOUS
<1>2. (b - a) * c \in Nat
    OBVIOUS
<1>3. a * c \in Nat /\ b * c \in Nat
    OBVIOUS
<1> QED BY <1>1, <1>2, <1>3

\* created_at never goes back.
LEMMA StoredIs == ASSUME NEW t \in Nat PROVE Stored(t) \in Nat /\ Stored(t) <= Stored(t + 1)
<1> DEFINE a == t \div Res
           b == (t + 1) \div Res
<1>1. Res \in Nat /\ Res >= 1
    BY AuditAssumption
<1>2. a \in Nat /\ b \in Nat /\ a <= b
    BY <1>1
<1> HIDE DEF a, b
<1>3. a * Res \in Nat /\ a * Res <= b * Res
    BY <1>1, <1>2, MultMono
<1> QED BY <1>3 DEF Stored, a, b

LEMMA InitTrailInv == TrailInit => TrailInv
<1> SUFFICES ASSUME TrailInit PROVE TrailInv
    OBVIOUS
<1>1. /\ trailClock = 0 /\ events = {} /\ pend = [w \in Writers |-> pend[w]]
      /\ \A w \in Writers : ~Pending(w)
    BY DEF TrailInit, Pending
<1>2. pager.from = 0 /\ pager.served = {}
    BY DEF TrailInit, NoWalk
<1>3. \A s \in Streams : SerialStream(s)
    BY <1>1 DEF SerialStream, PendingIn, InStream
<1> QED BY <1>1, <1>2, <1>3 DEF TrailInv, FreshIds, FreeTierWindow

\* Steps that write no event.
LEMMA TrailStill ==
    ASSUME TrailInv, UNCHANGED <<events, pend, disturbed>>, trailClock' \in Nat,
           Stored(trailClock) \in Nat, Stored(trailClock') \in Nat,
           Stored(trailClock) <= Stored(trailClock'),
           pager'.from \in Nat, FreeTierWindow'
    PROVE  TrailInv'
<1>1. /\ \A w \in Writers : Pending(w)' <=> Pending(w)
      /\ \A s : InStream(s)' = InStream(s)
    BY DEF Pending, InStream
<1>2. ASSUME NEW e, TrailRowOK(e) PROVE TrailRowOK(e)'
    BY <1>1, <1>2 DEF TrailRowOK
<1>3. \A e \in events' : TrailRowOK(e)'
    BY <1>2 DEF TrailInv
<1>4. \A w \in Writers : Pending(w)' => TrailRowOK(pend[w])'
  <2> SUFFICES ASSUME NEW w \in Writers, Pending(w) PROVE TrailRowOK(pend[w])'
      BY <1>1
  <2>1. TrailRowOK(pend[w])
      BY DEF TrailInv
  <2> QED BY <1>1, <2>1 DEF TrailRowOK
<1>5. FreshIds'
    BY <1>1 DEF TrailInv, FreshIds
<1>6. \A s \in Streams \ disturbed' : SerialStream(s)'
    BY <1>1 DEF TrailInv, SerialStream, PendingIn
<1> QED BY <1>3, <1>4, <1>5, <1>6 DEF TrailInv

LEMMA RetainKeeps == ASSUME TrailInv, Retain PROVE TrailInv'
<1>1. /\ events' = events /\ UNCHANGED <<pend, trailClock, tier, pager, disturbed>>
    BY DEF Retain, DeleteAuditEventsBefore, BlockAuditMutations
<1>2. FreeTierWindow' /\ pager'.from \in Nat /\ trailClock \in Nat
    BY <1>1 DEF TrailInv, FreeTierWindow
<1>3. Stored(trailClock) \in Nat /\ Stored(trailClock') = Stored(trailClock)
    BY <1>1, <1>2, StoredIs
<1> QED BY <1>1, <1>2, <1>3, TrailStill

LEMMA TrailTickKeeps == ASSUME TrailInv, TrailTick PROVE TrailInv'
<1>1. /\ trailClock' = trailClock + 1 /\ UNCHANGED <<events, pend, tier, swept, pager, disturbed>>
    BY DEF TrailTick
<1>2. FreeTierWindow' /\ pager'.from \in Nat /\ trailClock \in Nat
    BY <1>1 DEF TrailInv, FreeTierWindow
<1>3. Stored(trailClock) \in Nat /\ Stored(trailClock') \in Nat /\ Stored(trailClock) <= Stored(trailClock')
    BY <1>1, <1>2, StoredIs
<1> QED BY <1>1, <1>2, <1>3, TrailStill

\* A page holds rows from its start on, and the start is in the window.
LEMMA PageIsInWindow ==
    ASSUME TrailInv, NEW p, p.from \in Nat, NEW page, pager' = Served(p, page),
           UNCHANGED <<events, pend, trailClock, tier, swept, disturbed>>,
           \A e \in page.rows :
              e \in events /\ e.at >= ApplyVisibilityFloor(p.from, AuditVisibilityFloor)
    PROVE  TrailInv'
<1>1. /\ pager'.from = p.from /\ pager'.served = page.rows
      /\ pager'.cut = IF tier = "free" THEN trailClock - FreeWindow ELSE 0
    BY DEF Served
<1>2. \A e \in page.rows : e.at \in Nat
    BY DEF TrailInv, TrailRowOK
<1>3. trailClock \in Nat /\ FreeWindow \in Nat /\ NoFloor \notin Int
    BY AuditAssumption DEF TrailInv
<1>4. ASSUME NEW e \in page.rows PROVE e.at >= pager'.cut
  <2>1. CASE tier # "free"
      BY <1>1, <1>2, <2>1
  <2>2. CASE tier = "free"
    <3>1. AuditVisibilityFloor = trailClock - FreeWindow /\ AuditVisibilityFloor \in Int
        BY <1>3, <2>2 DEF AuditVisibilityFloor
    <3>2. ApplyVisibilityFloor(p.from, AuditVisibilityFloor) \in Int
        BY <3>1 DEF ApplyVisibilityFloor
    <3>3. ApplyVisibilityFloor(p.from, AuditVisibilityFloor) >= AuditVisibilityFloor
        BY <1>3, <3>1 DEF ApplyVisibilityFloor
    <3> QED BY <1>1, <1>2, <2>2, <3>1, <3>2, <3>3
  <2> QED BY <2>1, <2>2
<1>5. FreeTierWindow'
    BY <1>1, <1>4 DEF FreeTierWindow
<1>6. Stored(trailClock) \in Nat /\ Stored(trailClock') = Stored(trailClock)
    BY <1>3, StoredIs
<1> QED BY <1>1, <1>3, <1>5, <1>6, TrailStill

LEMMA PageFromKeeps ==
    ASSUME TrailInv, NEW p, p.from \in Nat, PageFrom(p),
           UNCHANGED <<events, pend, trailClock, tier, swept, disturbed>>
    PROVE  TrailInv'
<1> DEFINE from == ApplyVisibilityFloor(p.from, AuditVisibilityFloor)
           sel == {e \in InStream(p.stream) : e.at >= from}
<1>1. PICK page \in ListAuditEvents(p.stream, from, p.offset) : pager' = Served(p, page)
    BY DEF PageFrom
<1>2. PICK q \in Orders(sel) :
        page.rows = {q[i] : i \in {j \in DOMAIN q : p.offset < j /\ j <= p.offset + PageSize}}
  <2>1. PICK q \in Orders(sel) :
          page = [rows |-> {q[i] : i \in {j \in DOMAIN q : p.offset < j /\ j <= p.offset + PageSize}},
                  last |-> p.offset + PageSize >= Cardinality(sel)]
      BY <1>1, ZenonT(30) DEF ListAuditEvents
  <2> QED BY ZenonT(30), <2>1
<1>3. q \in [1..Cardinality(sel) -> sel]
    BY DEF Orders
<1>4. page.rows \subseteq sel
    BY <1>2, <1>3, Zenon
<1>5. \A e \in page.rows : e \in events /\ e.at >= from
    BY <1>4, Zenon DEF InStream
<1> QED BY <1>1, <1>5, PageIsInWindow

LEMMA ListingKeeps ==
    ASSUME TrailInv,
           ListNext \/ \E s \in Streams, from \in Froms : ListFirst(s, from) \/ Export(s, from)
    PROVE  TrailInv'
<1>1. CASE ListNext
    BY <1>1, PageFromKeeps DEF ListNext, TrailInv
<1>2. ASSUME NEW s \in Streams, NEW from \in Froms, ListFirst(s, from) PROVE TrailInv'
  <2>1. Walk(s, from).from \in Nat
      BY AuditAssumption DEF Walk, NoWalk
  <2> QED BY <1>2, <2>1, PageFromKeeps DEF ListFirst
<1>3. ASSUME NEW s \in Streams, NEW from \in Froms, Export(s, from) PROVE TrailInv'
  <2> DEFINE p == Walk(s, from)
             page == ListAuditEventsExport(s, ApplyVisibilityFloor(from, AuditVisibilityFloor))
  <2>1. p.from = from /\ from \in Nat
      BY AuditAssumption DEF Walk, NoWalk
  <2>2. \A e \in page.rows :
           e \in events /\ e.at >= ApplyVisibilityFloor(from, AuditVisibilityFloor)
      BY DEF ListAuditEventsExport, InStream
  <2>3. /\ pager' = Served(p, page)
        /\ UNCHANGED <<events, pend, trailClock, tier, swept, disturbed>>
      BY <1>3 DEF Export
  <2> HIDE DEF p, page
  <2> QED BY <2>1, <2>2, <2>3, PageIsInWindow
<1> QED BY <1>1, <1>2, <1>3

\* A row stays good as rows are added.
LEMMA RowStays ==
    ASSUME NEW e, TrailRowOK(e), events \subseteq events', trailClock' = trailClock
    PROVE  TrailRowOK(e)'
<1>1. InStream(e.stream) \subseteq InStream(e.stream)'
    BY DEF InStream
<1> QED BY <1>1, Zenon DEF TrailRowOK

LEMMA EmitKeeps ==
    ASSUME TrailInv, NEW w \in Writers, NEW s \in Streams, NEW rt \in ResourceTypes,
           NEW body \in EventBodies, Emit(w, s, rt, body)
    PROVE  TrailInv'
<1> DEFINE kept == RedactPayload(rt, body)
           NewRow(id, prev) ==
             [stream |-> s, id |-> id, at |-> Stored(trailClock), rt |-> rt, body |-> kept,
              prev |-> prev, hash |-> <<prev, <<s, id, trailClock, rt, kept>>>>]
<1>1. PICK id \in EventIds \ UsedIds, prev \in LastAuditHash(s) :
         pend' = [pend EXCEPT ![w] = NewRow(id, prev)]
    BY ZenonT(30) DEF Emit, ComputeEventHash, BuildHashPayload
<1> DEFINE p == NewRow(id, prev)
<1>2. /\ p.stream = s /\ p.id = id /\ p.at = Stored(trailClock) /\ p.rt = rt /\ p.body = kept
      /\ p.prev = prev /\ p.hash = <<prev, <<s, id, trailClock, rt, kept>>>>
    OBVIOUS
<1>3. p.hash # <<>> /\ p.hash[2][2] = p.id
    BY <1>2, Zenon
<1>4. \A x \in kept : rt \in DOMAIN Allowlist /\ x \in Allowlist[rt]
    BY DEF RedactPayload
<1>5. pend' = [pend EXCEPT ![w] = p]
    BY <1>1
<1> HIDE DEF kept, p
<1>6. /\ UNCHANGED <<events, trailClock, pager>> /\ ~Pending(w) /\ disturbed \subseteq disturbed'
      /\ s \notin disturbed' =>
           /\ \A v \in Writers : ~PendingIn(v, s)
           /\ \A e \in InStream(s) : ~(e.at >= Stored(trailClock))
    BY ZenonT(30) DEF Emit, Pending, PendingIn
<1>7. pend'[w] = p /\ \A v \in Writers : v # w => pend'[v] = pend[v]
    BY <1>5 DEF TrailInv
<1>8. \A v \in Writers : v # w => (Pending(v)' <=> Pending(v))
    BY <1>7 DEF Pending
<1>9. trailClock \in Nat /\ Stored(trailClock) \in Nat
    BY StoredIs DEF TrailInv
<1>10. prev = <<>> \/ \E f \in InStream(s) : f.hash = prev
    BY DEF LastAuditHash
<1>11. \A f \in InStream(s) : f.at \in Nat /\ f.at <= Stored(trailClock)
    BY DEF TrailInv, TrailRowOK, InStream
<1>12. TrailRowOK(p)
  <2>1. p.at \in Nat /\ p.at <= Stored(trailClock)
    <3>1. p.at = Stored(trailClock) /\ Stored(trailClock) \in Nat
        BY <1>2, <1>9, Zenon
    <3> QED BY ONLY <3>1, SMTT(15)
  <2>2. p.prev = <<>> \/ \E f \in InStream(p.stream) : f.hash = p.prev /\ f.at <= p.at
      BY <1>2, <1>10, <1>11, Zenon
  <2>3. \A x \in p.body : p.rt \in DOMAIN Allowlist /\ x \in Allowlist[p.rt]
      BY <1>2, <1>4, Zenon
  <2> QED BY <1>3, <2>1, <2>2, <2>3, Zenon DEF TrailRowOK
<1>13. \A e \in events' : TrailRowOK(e)'
    BY ZenonT(30), <1>6, RowStays DEF TrailInv
<1>14. \A v \in Writers : Pending(v)' => TrailRowOK(pend[v])'
  <2> SUFFICES ASSUME NEW v \in Writers, Pending(v)' PROVE TrailRowOK(pend[v])'
      OBVIOUS
  <2>1. TrailRowOK(pend'[v])
      BY <1>7, <1>8, <1>12 DEF TrailInv
  <2> QED BY ZenonT(30), <1>6, <2>1 DEF TrailRowOK, InStream
<1>15. FreshIds'
  <2>1. \A e \in events : e.id # id
      BY Zenon DEF UsedIds
  <2>2. \A v \in Writers : Pending(v) => pend[v].id # id
      BY Zenon DEF UsedIds, Pending
  <2> SUFFICES ASSUME NEW v \in Writers, Pending(v)'
               PROVE  /\ \A e \in events' : e.id # pend'[v].id
                      /\ \A x \in Writers \ {v} : Pending(x)' => pend'[x].id # pend'[v].id
      BY Zenon DEF FreshIds
  <2>3. \A e \in events' : e.id # pend'[v].id
      BY <1>2, <1>6, <1>7, <1>8, <2>1 DEF TrailInv, FreshIds
  <2>4. \A x \in Writers \ {v} : Pending(x)' => pend'[x].id # pend'[v].id
      BY ZenonT(30), <1>2, <1>7, <1>8, <2>2 DEF TrailInv, FreshIds
  <2> QED BY <2>3, <2>4, Zenon
<1>16. ASSUME NEW z \in Streams \ disturbed' PROVE SerialStream(z)'
  <2>1. SerialStream(z) /\ InStream(z)' = InStream(z)
      BY <1>6 DEF TrailInv, InStream
  <2>2. \A v \in Writers : v # w => (PendingIn(v, z)' <=> PendingIn(v, z)) /\ pend'[v] = pend[v]
      BY <1>7, <1>8, Zenon DEF PendingIn
  <2>3. PendingIn(w, z)' => z = s
      BY ZenonT(30), <1>2, <1>7 DEF PendingIn
  <2>4. \A v, x \in Writers : PendingIn(v, z)' /\ PendingIn(x, z)' => v = x
    <3>1. ASSUME NEW v \in Writers, v # w, PendingIn(v, z)' PROVE PendingIn(v, z)
        BY ZenonT(30), <2>2, <3>1
    <3>2. ASSUME NEW v \in Writers, v # w, PendingIn(v, z)' PROVE ~PendingIn(w, z)'
        BY ZenonT(30), <1>6, <2>3, <3>1, <3>2
    <3>3. \A v, x \in Writers : PendingIn(v, z) /\ PendingIn(x, z) => v = x
        BY <2>1, Zenon DEF SerialStream
    <3> QED BY ZenonT(30), <3>1, <3>2, <3>3
  <2>5. ASSUME z = s, NEW e \in InStream(s) PROVE e.at < p.at /\ e.prev # p.prev
    <3>1. e.at < p.at
      <4>1. /\ e.at \in Nat /\ Stored(trailClock) \in Nat /\ p.at = Stored(trailClock)
            /\ ~(e.at >= Stored(trailClock))
          BY <1>2, <1>6, <1>9, <1>11, <2>3, <2>5, Zenon
      <4> QED BY ONLY <4>1, SMTT(15)
    <3>2. PICK x \in InStream(s) : prev = x.hash /\ \A f \in InStream(s) \ {x} : Later(x, f)
        BY ZenonT(30), <2>5 DEF LastAuditHash
    <3>3. e.prev = prev => x.at < e.at
        BY ZenonT(30), <2>1, <2>5, <3>2 DEF SerialStream
    <3>4. ~(x.at < e.at)
      <4>1. e = x \/ Later(x, e)
          BY ZenonT(30), <2>5, <3>2
      <4>2. x.at \in Nat /\ e.at \in Nat
          BY ZenonT(30), <1>11, <2>5, <3>2
      <4> QED BY <4>1, <4>2 DEF Later
    <3> QED BY ZenonT(30), <1>2, <3>1, <3>3, <3>4
  <2>6. \A v \in Writers : PendingIn(v, z)' =>
            \A e \in InStream(z) : e.at < pend'[v].at /\ e.prev # pend'[v].prev
      BY ZenonT(30), <1>7, <2>1, <2>2, <2>3, <2>5 DEF SerialStream
  <2> QED BY <2>1, <2>4, <2>6, Zenon DEF SerialStream
<1>17. pend' = [v \in Writers |-> pend'[v]]
    BY <1>5 DEF TrailInv
<1>18. pager'.from \in Nat /\ FreeTierWindow'
    BY <1>6 DEF TrailInv, FreeTierWindow
<1> QED BY <1>6, <1>9, <1>13, <1>14, <1>15, <1>16, <1>17, <1>18 DEF TrailInv

LEMMA InsertErrorKeeps == ASSUME TrailInv, NEW w \in Writers, InsertError(w) PROVE TrailInv'
<1>1. /\ pend' = [pend EXCEPT ![w] = NoFloor]
      /\ UNCHANGED <<events, trailClock, pager, disturbed>>
    BY DEF InsertError
<1>2. \A v \in Writers : Pending(v)' => Pending(v) /\ pend'[v] = pend[v]
    BY <1>1 DEF Pending, TrailInv
<1>3. \A e \in events' : TrailRowOK(e)'
    BY <1>1, RowStays DEF TrailInv
<1>4. \A v \in Writers : Pending(v)' => TrailRowOK(pend[v])'
  <2> SUFFICES ASSUME NEW v \in Writers, Pending(v)' PROVE TrailRowOK(pend[v])'
      OBVIOUS
  <2>1. TrailRowOK(pend'[v])
      BY <1>2 DEF TrailInv
  <2> QED BY <1>1, <2>1, Zenon DEF TrailRowOK, InStream
<1>5. FreshIds'
    BY <1>1, <1>2 DEF TrailInv, FreshIds
<1>6. ASSUME NEW s \in Streams \ disturbed' PROVE SerialStream(s)'
  <2>1. SerialStream(s) /\ InStream(s)' = InStream(s)
      BY <1>1 DEF TrailInv, InStream
  <2>2. \A v \in Writers : PendingIn(v, s)' => PendingIn(v, s) /\ pend'[v] = pend[v]
      BY <1>2, Zenon DEF PendingIn
  <2> QED BY <2>1, <2>2, Zenon DEF SerialStream
<1>7. pend' = [v \in Writers |-> pend'[v]]
    BY <1>1 DEF TrailInv
<1>8. pager'.from \in Nat /\ FreeTierWindow'
    BY <1>1 DEF TrailInv, FreeTierWindow
<1> QED BY <1>1, <1>3, <1>4, <1>5, <1>6, <1>7, <1>8 DEF TrailInv

\* The row that is inserted has an id of its own, so no row continues it yet.
LEMMA InsertKeeps == ASSUME TrailInv, NEW w \in Writers, Insert(w) PROVE TrailInv'
<1> DEFINE p == pend[w]
<1>1. /\ events' = events \cup {p} /\ pend' = [pend EXCEPT ![w] = NoFloor] /\ Pending(w)
      /\ UNCHANGED <<trailClock, pager, disturbed>>
    BY DEF Insert, Pending
<1>2. TrailRowOK(p) /\ \A e \in events : e.id # p.id
    BY <1>1 DEF TrailInv, FreshIds
<1>3. \A v \in Writers \ {w} : Pending(v) => pend[v].id # p.id
    BY <1>1 DEF TrailInv, FreshIds
<1>4. \A v \in Writers : Pending(v)' => v # w /\ Pending(v) /\ pend'[v] = pend[v]
    BY <1>1 DEF Pending, TrailInv
<1>5. \A e \in events' : TrailRowOK(e)'
    BY <1>1, <1>2, RowStays DEF TrailInv
<1>6. \A v \in Writers : Pending(v)' => TrailRowOK(pend[v])'
  <2> SUFFICES ASSUME NEW v \in Writers, Pending(v)' PROVE TrailRowOK(pend[v])'
      OBVIOUS
  <2>1. TrailRowOK(pend'[v]) /\ \A s : InStream(s) \subseteq InStream(s)'
      BY <1>1, <1>4 DEF TrailInv, InStream
  <2> QED BY <1>1, <2>1, Zenon DEF TrailRowOK
<1>7. FreshIds'
    BY <1>1, <1>3, <1>4 DEF TrailInv, FreshIds
<1>8. ASSUME NEW e, TrailRowOK(e) PROVE e.prev # p.hash
  <2>1. CASE e.prev = <<>>
      BY <1>2, <2>1, Zenon DEF TrailRowOK
  <2>2. CASE \E f \in InStream(e.stream) : f.hash = e.prev
    <3>1. PICK f \in events : f.hash = e.prev
        BY <2>2 DEF InStream
    <3>2. f.hash[2][2] = f.id /\ p.hash[2][2] = p.id /\ f.id # p.id
        BY <1>2, Zenon DEF TrailInv, TrailRowOK
    <3> QED BY <3>1, <3>2, Zenon
  <2> QED BY <1>8, <2>1, <2>2, Zenon DEF TrailRowOK
<1> HIDE DEF p
<1>9. ASSUME NEW s \in Streams \ disturbed' PROVE SerialStream(s)'
  <2>1. SerialStream(s)
      BY <1>1 DEF TrailInv
  <2>2. \A v \in Writers : PendingIn(v, s)' => v # w /\ PendingIn(v, s) /\ pend'[v] = pend[v]
      BY <1>4 DEF PendingIn
  <2>3. CASE p.stream # s
    <3>1. InStream(s)' = InStream(s)
        BY <1>1, <2>3 DEF InStream
    <3> QED BY <2>1, <2>2, <3>1, Zenon DEF SerialStream
  <2>4. CASE p.stream = s
    <3>1. InStream(s)' = InStream(s) \cup {p} /\ PendingIn(w, s)
        BY <1>1, <2>4 DEF InStream, PendingIn, p
    <3>2. \A v \in Writers : ~PendingIn(v, s)'
        BY <2>1, <2>2, <3>1, Zenon DEF SerialStream
    <3>3. \A e \in InStream(s) : e.at < p.at /\ e.prev # p.prev
        BY <2>1, <3>1, Zenon DEF SerialStream, p
    <3>4. \A e \in InStream(s)' : e.prev # p.hash
        BY <1>2, <1>8, <3>1 DEF TrailInv, InStream
    <3>5. \A e, f \in InStream(s)' : e.prev = f.hash => f.at < e.at
        BY <2>1, <3>1, <3>3, <3>4, Zenon DEF SerialStream
    <3>6. \A e, f \in InStream(s)' : e # f => e.prev # f.prev
        BY <2>1, <3>1, <3>3, Zenon DEF SerialStream
    <3> QED BY <3>2, <3>5, <3>6, Zenon DEF SerialStream
  <2> QED BY <2>3, <2>4
<1>10. pend' = [v \in Writers |-> pend'[v]]
    BY <1>1 DEF TrailInv
<1>11. pager'.from \in Nat /\ FreeTierWindow'
    BY <1>1 DEF TrailInv, FreeTierWindow
<1> QED BY <1>1, <1>5, <1>6, <1>7, <1>9, <1>10, <1>11 DEF TrailInv

LEMMA NextTrailInv == TrailInv /\ [TrailNext]_trailVars => TrailInv'
<1> SUFFICES ASSUME TrailInv, [TrailNext]_trailVars PROVE TrailInv'
    OBVIOUS
<1>1. CASE SetTier \/ UNCHANGED trailVars
  <2>1. UNCHANGED <<events, pend, trailClock, pager, disturbed>>
      BY <1>1 DEF SetTier, trailVars
  <2>2. trailClock' \in Nat /\ pager'.from \in Nat /\ FreeTierWindow'
      BY <2>1 DEF TrailInv, FreeTierWindow
  <2>3. Stored(trailClock) \in Nat /\ Stored(trailClock') = Stored(trailClock)
      BY <2>1, StoredIs DEF TrailInv
  <2> QED BY <2>1, <2>2, <2>3, TrailStill
<1>2. CASE \E w \in Writers : \E s \in Streams, rt \in ResourceTypes, b \in EventBodies :
              Emit(w, s, rt, b)
    BY <1>2, EmitKeeps
<1>3. CASE \E w \in Writers : Insert(w) \/ InsertError(w)
    BY <1>3, InsertKeeps, InsertErrorKeeps
<1>4. CASE \/ ListNext
           \/ \E s \in Streams, from \in Froms : ListFirst(s, from) \/ Export(s, from)
    BY <1>4, ListingKeeps
<1> QED BY <1>1, <1>2, <1>3, <1>4, RetainKeeps, TrailTickKeeps DEF TrailNext

\* InsertAuditEvent, block_audit_mutations, RedactPayload and
\* applyVisibilityFloor: whatever writers overlap and retention attempts, an
\* audit event continues one of its own stream that is still there, or
\* starts the stream; a stream whose writers never overlapped is one chain;
\* only listed fields are stored; and a page served to the free tier holds
\* no event from before its window.
THEOREM TrailIsSound == TrailSpec => []TrailHolds
<1>1. TrailInv => TrailHolds
  <2> SUFFICES ASSUME TrailInv PROVE TrailHolds
      OBVIOUS
  <2>1. ChainGrounded
      BY DEF TrailInv, TrailRowOK, ChainGrounded
  <2>2. SerialChain
      BY DEF TrailInv, SerialStream, SerialChain
  <2>3. RedactedBodies
      BY DEF TrailInv, TrailRowOK, RedactedBodies
  <2> QED BY <2>1, <2>2, <2>3 DEF TrailInv, TrailHolds
<1> QED BY InitTrailInv, NextTrailInv, <1>1, PTL DEF TrailSpec
-----------------------------------------------------------------------------
(* The rate limits.                                                          *)

LimitValues == [perMinute : Nat, perDay : Nat, scope : Scopes]
CheckRecords ==
    [pc : {"idle", "clock", "minute", "day", "allowed", "refused", "failed"},
     agent : Agents \cup {""}, tool : RateTools \cup {""}, cfg : LimitValues, at : Nat,
     key : RateKeys \cup {<<"", "">>}, window : {"minute", "day"}, retry : Int]

RateTypes ==
    /\ rateClock \in 0 .. MaxRateTime
    /\ settings \in [perMinute : Nat \cup {Unset}, perDay : Nat \cup {Unset},
                     scope : Scopes \cup {Unset}]
    /\ count \in [Counters -> Nat]
    /\ check \in [Checks -> CheckRecords]

\* What a call has read, from where it is.
CheckOK(c) ==
    /\ check[c].pc = "clock" => check[c].agent \in Agents /\ check[c].tool \in RateTools
    /\ check[c].pc \in {"minute", "day", "allowed"} =>
         check[c].key \in RateKeys /\ check[c].at \in 0 .. MaxRateTime
    /\ check[c].pc = "refused" =>
         check[c].retry = SecondsUntilNext(check[c].window, check[c].at)

\* The calls of a bucket are counted.  Of any of them, some one is under a
\* limit that they all fit in: the last of them to take its place.  (That one
\* call of the whole bucket is does not survive a refusal for the day, which
\* may be that call's.)
Fits(P, f, n) ==
    /\ IsFiniteSet(P)
    /\ Cardinality(P) <= n
    /\ \A S \in SUBSET P : S # {} => \E d \in S : Cardinality(S) <= f[d]

LimitsFor(w) == [c \in Checks |-> LimitOf(c, w)]
BucketOK(r) == Fits(Placed(r), LimitsFor(r[2]), count[r])

RateLimitInv ==
    /\ RateTypes
    /\ \A c \in Checks : CheckOK(c)
    /\ \A r \in Counters : BucketOK(r)

LEMMA WindowLengths == Minute \in Nat \ {0} /\ Day \in Nat \ {0}
<1>1. \A m, n \in Nat \ {0} : m * n \in Nat \ {0}
    BY SMT
<1>2. Minute \in Nat \ {0}
    BY <1>1, RateLimitAssumption DEF Minute
<1> QED BY <1>1, <1>2, RateLimitAssumption DEF Day

LEMMA BucketTypes ==
    ASSUME NEW w \in {"minute", "day"}, NEW t \in Nat
    PROVE  BucketStart(w, t) \in Int /\ Length(w) \in Int /\ SecondsUntilNext(w, t) \in Int
<1>1. \A m \in Nat \ {0} : t % m \in Int
    BY SMT
<1>2. BucketStart(w, t) \in Int /\ Length(w) \in Int
    BY <1>1, WindowLengths DEF BucketStart, MinuteBucketStart, DayBucketStart, Length
<1>3. \A n \in Int, m \in Nat \ {0} : n \div m \in Int
    BY SMT
<1>4. SecondTicks \in Nat \ {0}
    BY RateLimitAssumption
<1> QED BY <1>2, <1>3, <1>4 DEF SecondsUntilNext

\* Rounding up to whole seconds.
LEMMA RoundUp ==
    ASSUME NEW n \in Int, NEW s \in Nat \ {0}
    PROVE  LET q == (n + s - 1) \div s IN n <= q * s /\ q * s < n + s
<1> DEFINE m == n + s - 1
           q == m \div s
<1>1. m \in Int
    OBVIOUS
<1>2. q \in Int /\ q * s <= m /\ m < q * s + s
    BY <1>1
<1>3. q * s \in Int
    BY <1>2
<1> QED BY <1>2, <1>3

LEMMA RowCounted ==
    ASSUME NEW c \in Checks, NEW w \in {"minute", "day"},
           check[c].key \in RateKeys, check[c].at \in 0 .. MaxRateTime
    PROVE  Row(c, w) \in Counters
  BY DEF Row, Counters, Buckets

LEMMA CounterWindow == \A r \in Counters : r[2] \in {"minute", "day"}
  BY DEF Counters

LEMMA LimitsTyped ==
    ASSUME RateTypes, NEW o \in Overrides
    PROVE  ApplyPolicyRateLimitOverrides(GetEffectiveRateLimitConfig, o) \in LimitValues
<1>1. ASSUME NEW cfg \in LimitValues,
             NEW v \in [perMinute : Nat \cup {Unset}, perDay : Nat \cup {Unset}, scope : Scopes \cup {Unset}]
      PROVE  ApplyPolicyRateLimitOverrides(cfg, v) \in LimitValues
    BY RateLimitAssumption DEF ApplyPolicyRateLimitOverrides, LimitValues
<1>2. DefaultConfig \in LimitValues
    BY RateLimitAssumption DEF LimitValues
<1>3. GetEffectiveRateLimitConfig \in LimitValues
    BY <1>1, <1>2, RateLimitAssumption DEF GetEffectiveRateLimitConfig, RateTypes
<1> QED BY <1>1, <1>3, RateLimitAssumption

LEMMA UncheckedTyped == Unchecked \in CheckRecords
<1>1. DefaultConfig \in LimitValues
    BY RateLimitAssumption DEF LimitValues
<1> QED BY <1>1 DEF Unchecked, CheckRecords

LEMMA InitRateLimitInv == RateLimitInit => RateLimitInv
<1> SUFFICES ASSUME RateLimitInit PROVE RateLimitInv
    OBVIOUS
<1>1. RateTypes
    BY UncheckedTyped, RateLimitAssumption DEF RateLimitInit, RateTypes
<1>2. \A c \in Checks : check[c].pc = "idle"
    BY ZenonT(30) DEF RateLimitInit, Unchecked
<1>3. \A c \in Checks : CheckOK(c)
    BY <1>2 DEF CheckOK
<1>4. ASSUME NEW r \in Counters PROVE BucketOK(r)
  <2>1. Placed(r) = {} /\ count[r] = 0
      BY ZenonT(30), <1>2 DEF Placed, RateLimitInit
  <2> QED BY <2>1, FS_EmptySet DEF BucketOK, Fits
<1> QED BY <1>1, <1>3, <1>4 DEF RateLimitInv

\* The calls of a bucket when one call moves: it leaves the bucket, stays in
\* it under the same limit, or takes a place that is counted and within its
\* limit.
LEMMA FitsStep ==
    ASSUME NEW P, NEW Q, NEW c, NEW f, NEW g, NEW m \in Nat, NEW n \in Nat, m <= n,
           Fits(P, f, m), g[c] \in Nat, Q \subseteq P \cup {c},
           \A d \in Q \ {c} : g[d] = f[d],
           c \in Q => (c \in P /\ g[c] = f[c]) \/ (n = m + 1 /\ m < g[c])
    PROVE  Fits(Q, g, n)
<1>2. IsFiniteSet(P) /\ Cardinality(P) \in Nat /\ Cardinality(P) <= m
    BY FS_CardinalityType, Zenon DEF Fits
<1>3. \A S \in SUBSET P : S # {} => \E d \in S : Cardinality(S) <= f[d]
    BY Zenon DEF Fits
<1>5. IsFiniteSet(P \cup {c}) /\ Cardinality(P \cup {c}) <= Cardinality(P) + 1
  <2>1. /\ IsFiniteSet(P \cup {c})
        /\ Cardinality(P \cup {c}) = IF c \in P THEN Cardinality(P) ELSE Cardinality(P) + 1
      BY <1>2, FS_AddElement, ZenonT(30)
  <2> QED BY ONLY <1>2, <2>1, SMTT(15)
<1>6. IsFiniteSet(Q) /\ Cardinality(Q) \in Nat /\ Cardinality(Q) <= Cardinality(P \cup {c})
      /\ Cardinality(P \cup {c}) \in Nat
    BY ZenonT(30), <1>5, FS_Subset, FS_CardinalityType
<1>7. CASE c \notin Q \/ (c \in P /\ g[c] = f[c])
  <2>1. Q \subseteq P /\ \A d \in Q : g[d] = f[d]
      BY <1>7, Zenon
  <2>2. Cardinality(Q) <= Cardinality(P)
      BY ZenonT(30), <1>2, <2>1, FS_Subset
  <2>3. Cardinality(Q) <= n
      BY ONLY <1>2, <1>6, <2>2, m \in Nat, n \in Nat, m <= n, SMTT(15)
  <2>4. \A S \in SUBSET Q : S # {} => \E d \in S : Cardinality(S) <= g[d]
      BY <1>3, <2>1, Zenon
  <2> QED BY <1>6, <2>3, <2>4, Zenon DEF Fits
<1>8. CASE c \in Q /\ n = m + 1 /\ m < g[c]
  <2>1. Cardinality(Q) <= n /\ Cardinality(Q) <= g[c]
      BY ONLY <1>2, <1>5, <1>6, <1>8, m \in Nat, g[c] \in Nat, SMTT(15)
  <2>2. ASSUME NEW S \in SUBSET Q, S # {}
        PROVE  \E d \in S : Cardinality(S) <= g[d]
    <3>1. CASE c \in S
      <4>1. Cardinality(S) <= Cardinality(Q) /\ IsFiniteSet(S)
          BY ZenonT(30), <1>6, FS_Subset
      <4>2. Cardinality(S) \in Nat
          BY <4>1, FS_CardinalityType, Zenon
      <4>3. Cardinality(S) <= g[c]
          BY ONLY <1>6, <2>1, <4>1, <4>2, g[c] \in Nat, SMTT(15)
      <4> QED BY ZenonT(30), <3>1, <4>3
    <3>2. CASE c \notin S
      <4>1. S \in SUBSET P
          BY <3>2, Zenon
      <4>2. PICK d \in S : Cardinality(S) <= f[d]
          BY ZenonT(30), <1>3, <2>2, <4>1
      <4> QED BY <3>2, <4>2, Zenon
    <3> QED BY ZenonT(30), <3>1, <3>2
  <2> QED BY ZenonT(30), <1>6, <2>1, <2>2 DEF Fits
<1> QED BY ZenonT(30), <1>7, <1>8

\* A call that does not step has the limits and the rows that it had.
LEMMA SameCheck ==
    ASSUME NEW d, NEW w, check'[d] = check[d]
    PROVE  LimitOf(d, w)' = LimitOf(d, w) /\ Row(d, w)' = Row(d, w)
  BY DEF LimitOf, Row

\* A step of one call.
LEMMA OneCheck ==
    ASSUME RateLimitInv, NEW c \in Checks, NEW r \in CheckRecords,
           check' = [check EXCEPT ![c] = r],
           UNCHANGED <<rateClock, settings>>,
           count' \in [Counters -> Nat],
           \A x \in Counters : count[x] <= count'[x],
           CheckOK(c)',
           \A x \in Counters : c \in Placed(x)' =>
             \/ c \in Placed(x) /\ LimitOf(c, x[2])' = LimitOf(c, x[2])
             \/ count'[x] = count[x] + 1 /\ count[x] < LimitOf(c, x[2])'
    PROVE  RateLimitInv'
<1>1. \A d \in Checks : check'[d] = IF d = c THEN r ELSE check[d]
    BY DEF RateLimitInv, RateTypes
<1>2. RateTypes'
    BY ZenonT(30) DEF RateLimitInv, RateTypes
<1>3. \A d \in Checks \ {c} : CheckOK(d)'
    BY ZenonT(30), <1>1 DEF RateLimitInv, CheckOK
<1>4. ASSUME NEW x \in Counters PROVE BucketOK(x)'
  <2>1. ASSUME NEW d \in Checks, d # c
        PROVE  LimitOf(d, x[2])' = LimitOf(d, x[2]) /\ Row(d, x[2])' = Row(d, x[2])
               /\ check'[d].pc = check[d].pc
    <3>1. check'[d] = check[d]
        BY ZenonT(30), <1>1, <2>1
    <3> QED BY ZenonT(30), <3>1, SameCheck
  <2>2. \A d \in Checks \ {c} : d \in Placed(x)' <=> d \in Placed(x)
      BY ZenonT(30), <2>1 DEF Placed
  <2>3. LimitOf(c, x[2])' \in Nat
      BY ZenonT(30), <1>1 DEF LimitOf, CheckRecords, LimitValues
  <2>4. BucketOK(x) /\ count[x] \in Nat /\ count'[x] \in Nat
      BY ZenonT(30) DEF RateLimitInv, RateTypes
  <2>5. Placed(x)' \subseteq Checks /\ Placed(x) \subseteq Checks
      BY Zenon DEF Placed
  <2>6. /\ \A d \in Checks \ {c} : LimitsFor(x[2])'[d] = LimitsFor(x[2])[d]
        /\ LimitsFor(x[2])'[c] = LimitOf(c, x[2])' /\ LimitsFor(x[2])[c] = LimitOf(c, x[2])
      BY ZenonT(30), <2>1 DEF LimitsFor
  <2> DEFINE P == Placed(x)
             Q == Placed(x)'
             f == LimitsFor(x[2])
             g == LimitsFor(x[2])'
             m == count[x]
             n == count'[x]
  <2>7. /\ Q \subseteq P \cup {c} /\ g[c] \in Nat /\ \A d \in Q \ {c} : g[d] = f[d]
        /\ c \in Q => (c \in P /\ g[c] = f[c]) \/ (n = m + 1 /\ m < g[c])
      BY ZenonT(30), <2>2, <2>3, <2>5, <2>6
  <2>8. m \in Nat /\ n \in Nat /\ m <= n /\ Fits(P, f, m)
      BY ZenonT(30), <2>4 DEF BucketOK
  <2> HIDE DEF P, Q, f, g, m, n
  <2>9. Fits(Q, g, n)
      BY ZenonT(30), <2>7, <2>8, FitsStep
  <2> QED BY ZenonT(30), <2>9 DEF BucketOK, P, Q, f, g, m, n
<1> QED BY <1>2, <1>3, <1>4, Zenon DEF RateLimitInv

\* A call that holds no place after the step.
LEMMA NoPlace ==
    ASSUME RateLimitInv, NEW c \in Checks, NEW r \in CheckRecords,
           check' = [check EXCEPT ![c] = r],
           UNCHANGED <<rateClock, settings>>,
           count' \in [Counters -> Nat],
           \A x \in Counters : count[x] <= count'[x],
           r.pc \notin {"day", "allowed"}, CheckOK(c)'
    PROVE  RateLimitInv'
<1>1. check'[c] = r
    BY DEF RateLimitInv, RateTypes
<1>2. \A x \in Counters : c \notin Placed(x)'
  <2> SUFFICES ASSUME NEW x \in Counters, c \in Placed(x)' PROVE FALSE
      BY Zenon
  <2>1. check'[c].pc \in (IF x[2] = "minute" THEN {"day", "allowed"} ELSE {"allowed"})
      BY Zenon DEF Placed
  <2>2. check'[c].pc \in {"day", "allowed"}
      BY ONLY <2>1, Zenon
  <2> QED BY <1>1, <2>2, Zenon
<1> QED BY ZenonT(30), <1>2, OneCheck

LEMMA SameCount ==
    ASSUME RateLimitInv, UNCHANGED count
    PROVE  count' \in [Counters -> Nat] /\ \A x \in Counters : count[x] <= count'[x]
  BY DEF RateLimitInv, RateTypes

LEMMA OneMore ==
    ASSUME RateLimitInv, NEW c \in Checks, NEW w \in {"minute", "day"}, NEW limit,
           check[c].pc \in {"minute", "day"},
           IncrementRateLimitCounter(c, w, limit)
    PROVE  /\ Row(c, w) \in Counters
           /\ count' \in [Counters -> Nat] /\ \A x \in Counters : count[x] <= count'[x]
           /\ count'[Row(c, w)] = count[Row(c, w)] + 1 /\ count[Row(c, w)] < limit
<1>1. Row(c, w) \in Counters
    BY RowCounted, Zenon DEF RateLimitInv, CheckOK
<1> HIDE DEF Row
<1>2. count \in [Counters -> Nat]
    BY DEF RateLimitInv, RateTypes
<1> QED BY <1>1, <1>2 DEF IncrementRateLimitCounter

LEMMA ReadLimitsInv ==
    ASSUME RateLimitInv, NEW c \in Checks, NEW a \in Agents, NEW t \in RateTools,
           NEW o \in Overrides, ReadLimits(c, a, t, o)
    PROVE  RateLimitInv'
<1> DEFINE l == ApplyPolicyRateLimitOverrides(GetEffectiveRateLimitConfig, o)
           r == [check[c] EXCEPT !.pc = "clock", !.agent = a, !.tool = t, !.cfg = l]
<1>1. l \in LimitValues
    BY LimitsTyped DEF RateLimitInv
<1>2. check' = [check EXCEPT ![c] = r] /\ check'[c] = r /\ UNCHANGED <<rateClock, settings, count>>
    BY ZenonT(30) DEF ReadLimits, RateLimitInv, RateTypes
<1> HIDE DEF l
<1>3. check[c] \in CheckRecords
    BY DEF RateLimitInv, RateTypes
<1>4. r \in CheckRecords /\ r.pc = "clock" /\ r.agent = a /\ r.tool = t
    BY ZenonT(30), <1>1, <1>3 DEF CheckRecords
<1> HIDE DEF r
<1>5. CheckOK(c)'
    BY <1>2, <1>4, Zenon DEF CheckOK
<1> QED BY ZenonT(30), <1>2, <1>4, <1>5, SameCount, NoPlace

LEMMA ReadClockInv ==
    ASSUME RateLimitInv, NEW c \in Checks, ReadClock(c) PROVE RateLimitInv'
<1> DEFINE k == ApplyRateLimitScope(check[c].cfg.scope, check[c].agent, check[c].tool)
           r == [Unchecked EXCEPT !.pc = "minute", !.cfg = check[c].cfg, !.at = rateClock, !.key = k]
<1>1. check[c] \in CheckRecords /\ rateClock \in 0 .. MaxRateTime /\ rateClock \in Nat
    BY DEF RateLimitInv, RateTypes
<1>2. check[c].cfg \in LimitValues /\ check[c].cfg.scope \in Scopes
    BY ZenonT(30), <1>1 DEF CheckRecords, LimitValues
<1>3. k \in RateKeys
    BY <1>2 DEF ReadClock, RateLimitInv, CheckOK, RateKeys
<1>4. check' = [check EXCEPT ![c] = r] /\ check'[c] = r /\ UNCHANGED <<rateClock, settings, count>>
    BY DEF ReadClock, RateLimitInv, RateTypes
<1> HIDE DEF k
<1>5. r \in CheckRecords /\ r.pc = "minute" /\ r.key = k /\ r.at = rateClock
    BY ZenonT(30), <1>1, <1>2, <1>3, UncheckedTyped DEF CheckRecords
<1> HIDE DEF r
<1>6. CheckOK(c)'
    BY <1>1, <1>3, <1>4, <1>5, Zenon DEF CheckOK
<1> QED BY ZenonT(30), <1>4, <1>5, <1>6, SameCount, NoPlace

LEMMA RefuseInv ==
    ASSUME RateLimitInv, NEW c \in Checks, NEW w \in {"minute", "day"}, NEW limit,
           check[c].pc \in {"minute", "day"}, OverLimit(c, w, limit), UNCHANGED <<rateClock, settings>>
    PROVE  RateLimitInv'
<1> DEFINE s == SecondsUntilNext(w, check[c].at)
           r == [Unchecked EXCEPT !.pc = "refused", !.at = check[c].at, !.key = check[c].key,
                                  !.window = w, !.retry = s]
<1>1. check[c] \in CheckRecords /\ check[c].key \in RateKeys
    BY DEF RateLimitInv, RateTypes, CheckOK
<1>2. check[c].at \in Nat
    BY ZenonT(30), <1>1 DEF CheckRecords
<1>3. s \in Int
    BY <1>2, BucketTypes, Zenon
<1>4. check' = [check EXCEPT ![c] = r] /\ check'[c] = r /\ UNCHANGED count
    BY DEF OverLimit, RateLimitInv, RateTypes
<1> HIDE DEF s
<1>5. r \in CheckRecords /\ r.pc = "refused" /\ r.at = check[c].at /\ r.window = w /\ r.retry = s
    BY ZenonT(30), <1>1, <1>2, <1>3, UncheckedTyped DEF CheckRecords
<1> HIDE DEF r
<1>6. CheckOK(c)'
    BY <1>4, <1>5 DEF CheckOK, s
<1> QED BY ZenonT(30), <1>4, <1>5, <1>6, SameCount, NoPlace

\* A call passes a window: it takes a place there, unless the window is off.
LEMMA PassWindow ==
    ASSUME RateLimitInv, NEW c \in Checks, NEW w \in {"minute", "day"}, NEW p \in {"day", "allowed"},
           w = "minute" <=> p = "day",
           check[c].pc = w,
           check' = [check EXCEPT ![c].pc = p],
           UNCHANGED <<rateClock, settings>>,
           \/ LimitOf(c, w) = 0 /\ UNCHANGED count
           \/ IncrementRateLimitCounter(c, w, LimitOf(c, w))
    PROVE  RateLimitInv'
<1> DEFINE r == [check[c] EXCEPT !.pc = p]
<1>1. check[c] \in CheckRecords /\ CheckOK(c)
    BY DEF RateLimitInv, RateTypes
<1>2. check' = [check EXCEPT ![c] = r] /\ check'[c] = r
    BY DEF RateLimitInv, RateTypes
<1>3. r \in CheckRecords /\ r.pc = p /\ r.cfg = check[c].cfg /\ r.key = check[c].key /\ r.at = check[c].at
    BY ZenonT(30), <1>1 DEF CheckRecords
<1> HIDE DEF r
<1>4. CheckOK(c)'
    BY <1>1, <1>2, <1>3 DEF CheckOK
<1>5. \A v : LimitOf(c, v)' = LimitOf(c, v) /\ Row(c, v)' = Row(c, v)
    BY <1>2, <1>3 DEF LimitOf, Row
<1>6. count' \in [Counters -> Nat] /\ \A x \in Counters : count[x] <= count'[x]
    BY SameCount, OneMore
<1>7. ASSUME NEW x \in Counters, c \in Placed(x)'
      PROVE  \/ c \in Placed(x) /\ LimitOf(c, x[2])' = LimitOf(c, x[2])
             \/ count'[x] = count[x] + 1 /\ count[x] < LimitOf(c, x[2])'
  <2>1. LimitOf(c, x[2]) > 0 /\ Row(c, x[2]) = x /\ x[2] \in {"minute", "day"}
      BY <1>5, <1>7, CounterWindow DEF Placed
  <2>2. CASE x[2] = w
    <3>1. IncrementRateLimitCounter(c, w, LimitOf(c, w))
        BY <2>1, <2>2
    <3> QED BY <1>5, <2>1, <2>2, <3>1, OneMore
  <2>3. CASE x[2] # w
    <3>1. w = "day" /\ x[2] = "minute"
        BY <1>2, <1>3, <1>7, <2>1, <2>3 DEF Placed
    <3>2. c \in Placed(x)
        BY <2>1, <3>1 DEF Placed
    <3> QED BY <1>5, <3>2
  <2> QED BY <2>2, <2>3
<1> QED BY ZenonT(30), <1>2, <1>3, <1>4, <1>6, <1>7, OneCheck

LEMMA EnforceWindowInv ==
    ASSUME RateLimitInv, NEW c \in Checks, EnforceMinute(c) \/ EnforceDay(c) PROVE RateLimitInv'
<1>1. UNCHANGED <<rateClock, settings>>
    BY DEF EnforceMinute, EnforceDay
<1>2. CASE EnforceMinute(c)
  <2>1. check[c].pc = "minute" /\ LimitOf(c, "minute") = check[c].cfg.perMinute
      BY <1>2 DEF EnforceMinute, LimitOf
  <2>2. CASE OverLimit(c, "minute", check[c].cfg.perMinute)
    <3>1. "minute" \in {"minute", "day"} /\ check[c].pc \in {"minute", "day"}
        BY <2>1, Zenon
    <3> QED BY ONLY RateLimitInv, c \in Checks, <1>1, <2>2, <3>1, RefuseInv, SMTT(15)
  <2>3. CASE ~OverLimit(c, "minute", check[c].cfg.perMinute)
    <3>1. /\ check' = [check EXCEPT ![c].pc = "day"]
          /\ \/ LimitOf(c, "minute") = 0 /\ UNCHANGED count
             \/ IncrementRateLimitCounter(c, "minute", LimitOf(c, "minute"))
        BY <1>2, <2>1, <2>3 DEF EnforceMinute
    <3> QED BY ZenonT(30), <1>1, <2>1, <3>1, PassWindow
  <2> QED BY <2>2, <2>3
<1>3. CASE EnforceDay(c)
  <2>1. check[c].pc = "day" /\ LimitOf(c, "day") = check[c].cfg.perDay
      BY ZenonT(30), <1>3 DEF EnforceDay, LimitOf
  <2>2. CASE OverLimit(c, "day", check[c].cfg.perDay)
    <3>1. "day" \in {"minute", "day"} /\ check[c].pc \in {"minute", "day"}
        BY <2>1, Zenon
    <3> QED BY ONLY RateLimitInv, c \in Checks, <1>1, <2>2, <3>1, RefuseInv, SMTT(15)
  <2>3. CASE ~OverLimit(c, "day", check[c].cfg.perDay)
    <3>1. /\ check' = [check EXCEPT ![c].pc = "allowed"]
          /\ \/ LimitOf(c, "day") = 0 /\ UNCHANGED count
             \/ IncrementRateLimitCounter(c, "day", LimitOf(c, "day"))
        BY <1>3, <2>1, <2>3 DEF EnforceDay
    <3> QED BY ZenonT(30), <1>1, <2>1, <3>1, PassWindow
  <2> QED BY <2>2, <2>3
<1> QED BY <1>2, <1>3

\* The place that a call takes before it fails stays taken.
LEMMA EnforceErrorInv ==
    ASSUME RateLimitInv, NEW c \in Checks, EnforceError(c) PROVE RateLimitInv'
<1> DEFINE r == [Unchecked EXCEPT !.pc = "failed"]
<1>1. r \in CheckRecords /\ r.pc = "failed"
    BY ZenonT(30), UncheckedTyped DEF CheckRecords
<1>2. /\ check' = [check EXCEPT ![c] = r] /\ check'[c] = r /\ UNCHANGED <<rateClock, settings>>
    BY DEF EnforceError, RateLimitInv, RateTypes
<1>3. count' \in [Counters -> Nat] /\ \A x \in Counters : count[x] <= count'[x]
    BY SameCount, OneMore DEF EnforceError
<1> HIDE DEF r
<1>4. CheckOK(c)'
    BY <1>1, <1>2 DEF CheckOK
<1> QED BY ZenonT(30), <1>1, <1>2, <1>3, <1>4, NoPlace

LEMMA NextRateLimitInv == RateLimitInv /\ [RateLimitNext]_rateLimitVars => RateLimitInv'
<1> SUFFICES ASSUME RateLimitInv, [RateLimitNext]_rateLimitVars PROVE RateLimitInv'
    OBVIOUS
<1>1. ASSUME UNCHANGED <<check, count>>, RateTypes' PROVE RateLimitInv'
  <2>1. \A c \in Checks : CheckOK(c)'
      BY <1>1, Zenon DEF RateLimitInv, CheckOK
  <2>2. \A r \in Counters : BucketOK(r)'
      BY ZenonT(30), <1>1 DEF RateLimitInv, BucketOK, LimitsFor, Placed, LimitOf, Row
  <2> QED BY ZenonT(30), <1>1, <2>1, <2>2 DEF RateLimitInv
<1>2. CASE UNCHANGED rateLimitVars
    BY ZenonT(30), <1>1, <1>2 DEF rateLimitVars, RateLimitInv, RateTypes
<1>3. CASE RateTick
  <2>1. rateClock \in 0 .. MaxRateTime /\ rateClock < MaxRateTime /\ rateClock' = rateClock + 1
      BY <1>3, Zenon DEF RateTick, RateLimitInv, RateTypes
  <2>2. rateClock' \in 0 .. MaxRateTime
      BY ONLY <2>1, RateLimitAssumption, SMTT(15)
  <2> QED BY <1>1, <1>3, <2>2, Zenon DEF RateTick, RateLimitInv, RateTypes
<1>4. ASSUME NEW cfg \in LimitConfigs, SetDefaultRateLimitConfig(cfg) PROVE RateLimitInv'
  <2>1. cfg \in [perMinute : Nat \cup {Unset}, perDay : Nat \cup {Unset}, scope : Scopes \cup {Unset}]
      BY RateLimitAssumption
  <2> QED BY <1>1, <1>4, <2>1, Zenon DEF SetDefaultRateLimitConfig, RateLimitInv, RateTypes
<1>5. ASSUME NEW c \in Checks, NEW a \in Agents, NEW t \in RateTools, NEW o \in Overrides,
             ReadLimits(c, a, t, o)
      PROVE  RateLimitInv'
    BY <1>5, ReadLimitsInv
<1>6. ASSUME NEW c \in Checks, ReadClock(c) \/ EnforceMinute(c) \/ EnforceDay(c) \/ EnforceError(c)
      PROVE  RateLimitInv'
    BY <1>6, ReadClockInv, EnforceWindowInv, EnforceErrorInv
<1> QED BY <1>2, <1>3, <1>4, <1>5, <1>6 DEF RateLimitNext

\* The calls let through in a bucket are counted, and at most as many as the
\* largest limit any of them was under; a caller that waits as long as it is
\* told finds a new bucket, less than a second after it began
\* (enforceRateLimit, IncrementRateLimitCounter).
THEOREM LimitsAreHeld == RateLimitSpec => []LimitsHold
<1>1. RateLimitInv => NoMoreThanLimit
    BY ZenonT(30) DEF RateLimitInv, BucketOK, Fits, LimitsFor, Placed, NoMoreThanLimit
<1>2. RateLimitInv => RetryFindsNewBucket
  <2> SUFFICES ASSUME RateLimitInv, NEW c \in Checks, check[c].pc = "refused"
               PROVE  LET again == check[c].at + check[c].retry * SecondTicks
                          next == BucketStart(check[c].window, check[c].at) + Length(check[c].window)
                      IN  next <= again /\ again < next + SecondTicks
      BY Zenon DEF RetryFindsNewBucket
  <2> DEFINE w == check[c].window
             t == check[c].at
             b == BucketStart(w, t)
             l == Length(w)
             n == b + l - t
             q == (n + SecondTicks - 1) \div SecondTicks
  <2>1. check[c] \in CheckRecords /\ CheckOK(c)
      BY DEF RateLimitInv, RateTypes
  <2>2. w \in {"minute", "day"} /\ t \in Nat
      BY ZenonT(30), <2>1 DEF CheckRecords
  <2>3. b \in Int /\ l \in Int /\ SecondTicks \in Nat \ {0}
      BY ZenonT(30), <2>2, BucketTypes, RateLimitAssumption
  <2>4. check[c].retry = q
      BY ZenonT(30), <2>1 DEF CheckOK, SecondsUntilNext
  <2>5. q \in Int
      BY <2>2, <2>4, BucketTypes, <2>1, Zenon DEF CheckOK
  <2> HIDE DEF w, t, b, l
  <2>6. n \in Int
      BY <2>2, <2>3
  <2>7. n <= q * SecondTicks /\ q * SecondTicks < n + SecondTicks
      BY ZenonT(30), <2>3, <2>6, RoundUp
  <2>8. q * SecondTicks \in Int
      BY <2>3, <2>5
  <2> HIDE DEF q
  <2>9. b + l <= t + q * SecondTicks /\ t + q * SecondTicks < b + l + SecondTicks
      BY <2>2, <2>3, <2>7, <2>8
  <2> QED BY ZenonT(30), <2>4, <2>9 DEF w, t, b, l
<1>3. RateLimitInv => LimitsHold
    BY <1>1, <1>2 DEF LimitsHold
<1> QED BY <1>3, InitRateLimitInv, NextRateLimitInv, PTL DEF RateLimitSpec
==============================================================================
