-------------------------------- MODULE JobLock --------------------------------
(***************************************************************************)
(* The advisory lock that keeps a background job (the expiry of approvals, *)
(* the retention of audit events) to one gateway at a time.  Every gateway *)
(* runs the job on a timer.  TryAdvisoryLock and ReleaseAdvisoryLock are   *)
(* two statements on the gateway's connection pool, each on whichever      *)
(* connection is idle; PostgreSQL gives the lock to the session, that is   *)
(* to the connection, and lets a session take it again.  A closed          *)
(* connection gives up its locks.                                          *)
(***************************************************************************)
EXTENDS Integers, FiniteSets

CONSTANTS
    Nodes,          \* gateway processes
    PoolSize,       \* connections a gateway may have open
    JobFaults,      \* whether statements may fail
    MaxStops,       \* bound on the stops of gateways
    MaxDepth,       \* bound on how often a session takes the lock
    MaxLate,        \* bound on the count of intervals without a run
    NoConn

ASSUME JobLockAssumption ==
    /\ PoolSize \in Nat \ {0}
    /\ MaxStops \in Nat
    /\ MaxDepth \in Nat \ {0}
    /\ MaxLate \in Nat \ {0}
    /\ JobFaults \in BOOLEAN
    /\ NoConn \notin Nodes \X (1 .. PoolSize)

VARIABLES
    conn,           \* state of every connection
    owner, depth,   \* the session that holds the lock, and how often
    job,            \* state of the job on every gateway
    lost,           \* gateways whose lock ended under a run
    via,            \* the session that got the lock for a run
    late,           \* intervals that began since the last run of the job
    stops

jobVars == <<conn, owner, depth, job, lost, via, late, stops>>
lockVars == <<owner, depth>>
runVars == <<lost, via>>

Conns == Nodes \X (1..PoolSize)
ConnsOf(n) == {c \in Conns : c[1] = n}

\* A job is between two runs, due, at work under the lock, about to release
\* it, or its process is stopped.
JobStates == {"idle", "due", "working", "releasing", "down"}
AtWork(n) == job[n] \in {"working", "releasing"}

JobInit ==
    /\ conn = [c \in Conns |-> "closed"]
    /\ owner = NoConn
    /\ depth = 0
    /\ job = [n \in Nodes |-> "due"]
    /\ lost = {}
    /\ via = [n \in Nodes |-> NoConn]
    /\ late = 0
    /\ stops = 0

\* The lock after the connections in cs were closed.
CloseConns(cs) ==
    /\ conn' = [c \in Conns |-> IF c \in cs THEN "closed" ELSE conn[c]]
    /\ owner' = IF owner \in cs THEN NoConn ELSE owner
    /\ depth' = IF owner \in cs THEN 0 ELSE depth

-----------------------------------------------------------------------------
\* The timers of the gateways fire.  A run that is still going on misses it.
Interval ==
    /\ \E n \in Nodes : job[n] # "down"
    /\ \A n \in Nodes : job[n] \in {"idle", "down"}
    /\ job' = [n \in Nodes |-> IF job[n] = "idle" THEN "due" ELSE job[n]]
    /\ late' = IF late < MaxLate THEN late + 1 ELSE late
    /\ UNCHANGED <<conn, lockVars, runVars, stops>>

\* The pool hands out an idle connection, or opens another one.
Takes(n, c) == c \in ConnsOf(n) /\ conn[c] # "busy"

TryAdvisoryLockAny(n, c) ==
    /\ owner' = c
    /\ depth' = depth + 1
    /\ job' = [job EXCEPT ![n] = "working"]
    /\ via' = [via EXCEPT ![n] = c]
    /\ lost' = lost \ {n}
TryAdvisoryLock(n, c) ==
    IF owner \in {NoConn, c}
    THEN /\ owner' = c
         /\ depth' = depth + 1
         /\ job' = [job EXCEPT ![n] = "working"]
         /\ via' = [via EXCEPT ![n] = c]
         /\ lost' = lost \ {n}
    ELSE /\ job' = [job EXCEPT ![n] = "idle"]
         /\ UNCHANGED <<lockVars, runVars>>

Lock(n) ==
    /\ job[n] = "due"
    /\ \E c \in Conns :
         /\ Takes(n, c)
         /\ owner = c => depth < MaxDepth
         /\ conn' = [conn EXCEPT ![c] = "idle"]
         /\ TryAdvisoryLock(n, c)
    /\ UNCHANGED <<late, stops>>

LockErrorIgnored(n) ==
    /\ JobFaults
    /\ job[n] = "due"
    /\ job' = [job EXCEPT ![n] = "working"]
    /\ UNCHANGED <<conn, lockVars, runVars, late, stops>>
\* The statement fails: the run is over before it began.
LockError(n) ==
    /\ JobFaults
    /\ job[n] = "due"
    /\ job' = [job EXCEPT ![n] = "idle"]
    /\ UNCHANGED <<conn, lockVars, runVars, late, stops>>

\* The job itself; its own statements may fail, and it returns all the same.
Run(n) ==
    /\ job[n] = "working"
    /\ job' = [job EXCEPT ![n] = "releasing"]
    /\ late' = 0
    /\ UNCHANGED <<conn, lockVars, runVars, stops>>

ReleaseAdvisoryLockBlind(c) == depth' = depth - 1 /\ owner' = NoConn
\* pg_advisory_unlock answers FALSE in a session without the lock; the code
\* reads the answer and does not look at it.
ReleaseAdvisoryLock(c) ==
    IF owner = c
    THEN /\ depth' = depth - 1
         /\ owner' = IF depth = 1 THEN NoConn ELSE owner
    ELSE UNCHANGED lockVars

EndRun(n) ==
    /\ job' = [job EXCEPT ![n] = "idle"]
    /\ via' = [via EXCEPT ![n] = NoConn]
    /\ lost' = lost \ {n}

Release(n) ==
    /\ job[n] = "releasing"
    /\ \E c \in Conns :
         /\ Takes(n, c)
         /\ conn' = [conn EXCEPT ![c] = "idle"]
         /\ ReleaseAdvisoryLock(c)
    /\ EndRun(n)
    /\ UNCHANGED <<late, stops>>

ReleaseError(n) ==
    /\ JobFaults
    /\ job[n] = "releasing"
    /\ EndRun(n)
    /\ UNCHANGED <<conn, lockVars, late, stops>>

-----------------------------------------------------------------------------
\* Requests of the gateway use the pool as well.
Borrow(c) ==
    /\ conn[c] # "busy"
    /\ job[c[1]] # "down"
    /\ conn' = [conn EXCEPT ![c] = "busy"]
    /\ UNCHANGED <<lockVars, job, runVars, late, stops>>

Return(c) ==
    /\ conn[c] = "busy"
    /\ conn' = [conn EXCEPT ![c] = "idle"]
    /\ UNCHANGED <<lockVars, job, runVars, late, stops>>

\* A connection that is idle for too long, or has reached its lifetime, is
\* closed: in the pool, or when a request returns it.
RecycleNever(c) == FALSE /\ UNCHANGED jobVars
Recycle(c) ==
    /\ conn[c] # "closed"
    /\ CloseConns({c})
    /\ lost' = lost \cup {n \in Nodes : AtWork(n) /\ via[n] = c /\ owner = c}
    /\ UNCHANGED <<job, via, late, stops>>

\* SIGTERM or a crash: the context of the job ends, and with the process all
\* its connections.
Stop(n) ==
    /\ stops < MaxStops
    /\ job[n] # "down"
    /\ stops' = stops + 1
    /\ job' = [job EXCEPT ![n] = "down"]
    /\ CloseConns(ConnsOf(n))
    /\ lost' = lost \ {n}
    /\ via' = [via EXCEPT ![n] = NoConn]
    /\ UNCHANGED late

\* Start runs the job before it waits for the timer.
Start(n) ==
    /\ job[n] = "down"
    /\ job' = [job EXCEPT ![n] = "due"]
    /\ UNCHANGED <<conn, lockVars, runVars, late, stops>>

JobStep(n) == Lock(n) \/ LockError(n) \/ Run(n) \/ Release(n) \/ ReleaseError(n)

JobNext ==
    \/ Interval
    \/ \E n \in Nodes : JobStep(n) \/ Stop(n) \/ Start(n)
    \/ \E c \in Conns : Borrow(c) \/ Return(c) \/ Recycle(c)

JobSpec == JobInit /\ [][JobNext]_jobVars

\* Requests end, the pool serves its waiters in turn (so a job that waits for
\* a connection gets one), every connection reaches its lifetime, a stopped
\* gateway is started again.
JobFairness ==
    /\ WF_jobVars(Interval)
    /\ \A n \in Nodes : /\ SF_jobVars(Lock(n))
                        /\ WF_jobVars(Run(n))
                        /\ SF_jobVars(Release(n))
                        /\ WF_jobVars(Start(n))
    /\ \A c \in Conns : WF_jobVars(Return(c)) /\ WF_jobVars(Recycle(c))

JobFairSpec == JobSpec /\ JobFairness

-----------------------------------------------------------------------------
(* Properties. *)

\* Types, and the bookkeeping of PostgreSQL: a lock that is held is held by
\* an open session, as often as the session took it.
JobTypeOK ==
    /\ conn \in [Conns -> {"closed", "idle", "busy"}]
    /\ job \in [Nodes -> JobStates]
    /\ lost \subseteq Nodes
    /\ depth \in Nat
    /\ IF owner = NoConn THEN depth = 0
       ELSE owner \in Conns /\ conn[owner] # "closed" /\ depth > 0

\* Two runs of the job are at work at the same time only when the pool has
\* closed, under one of them, the connection whose session had the lock.
Exclusive ==
    \A n, m \in Nodes :
      AtWork(n) /\ AtWork(m) /\ n # m => n \in lost \/ m \in lost

\* A gateway that is at work and has lost no connection holds the lock.
WorkIsLocked ==
    \A n \in Nodes : AtWork(n) /\ n \notin lost => owner = via[n]

\* A gateway that is at work in the job and has lost no connection holds the
\* lock; two are at work at the same time only when the pool has closed,
\* under one of them, the connection whose session had it (TryAdvisoryLock,
\* ReleaseAdvisoryLock).
JobIsExclusive == Exclusive /\ WorkIsLocked

\* However often a release misses the session with the lock, the job runs
\* again and again on some gateway.
RunsAgain == []<>(\E n \in Nodes : AtWork(n))

\* docs/runbooks/incident-response.md: the job "checks every 1 minute", so
\* no interval passes without a run.
RunsEveryInterval == late < 2
=============================================================================
