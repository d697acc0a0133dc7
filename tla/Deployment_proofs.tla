-------------------------- MODULE Deployment_proofs --------------------------
(***************************************************************************)
(* What is proved of the set-up of a deployment.                           *)
(***************************************************************************)
EXTENDS Setup, FiniteSetTheorems, TLAPS

\* The provers that try a leaf which names none, and their time.
USE SMTT(15), ZenonT(30)

-----------------------------------------------------------------------------
(* SetupIsSound for any number of requests, keys, bodies and connections,  *)
(* whatever statements fail.  That a second transaction creates nothing    *)
(* rests on the lock: the request that has it found the flag unset, and    *)
(* nobody else can set it before the commit.  That a repeated request is   *)
(* recognised rests on it too: under the lock it looks for its key again,  *)
(* and what it does not find cannot be stored before it is answered.       *)

Types ==
    /\ initialized \subseteq Setups
    /\ pc \in [Setups -> PCs]
    /\ resp \in [Setups -> Errors \cup {"none", "ok"}]
    /\ secrets \in [Setups -> Setups \cup {Blank}]

\* One request at a time has the lock.
OneLock == \A r, q \in Setups : pc[r] \in LockPCs /\ pc[q] \in LockPCs => r = q

\* A request that is about to write has looked at the flag, which still holds.
CheckedIsUnset == \A r \in Setups : pc[r] \in {"write", "commit"} => ~bootstrap

\* What was committed: the flag, one request, and the answers that are kept.
Committed ==
    /\ bootstrap <=> initialized # {}
    /\ \A r, q \in initialized : r = q
    /\ \A r \in Setups : pc[r] = "finish" => r \in initialized
    /\ \A e \in replays : e.by \in initialized

SetupInv == Types /\ OneLock /\ CheckedIsUnset /\ Committed /\ SecretsExist /\ AuditedSetup

LEMMA InitSetupInv == SetupInit => SetupInv
  BY DEF SetupInit, SetupInv, Types, OneLock, CheckedIsUnset, Committed,
      SecretsExist, AuditedSetup,
         PCs, TxPCs, LockPCs, Errors

\* How a request goes on: it is answered with an error, with the secrets of
\* a committed request, or not yet.
Answers(r) ==
    \/ UNCHANGED <<resp, secrets>>
    \/ \E e \in Errors : resp' = [resp EXCEPT ![r] = e] /\ UNCHANGED secrets
    \/ \E by \in initialized' : /\ resp' = [resp EXCEPT ![r] = "ok"]
                            /\ secrets' = [secrets EXCEPT ![r] = by]

\* What it audits: a success only if its transaction was committed.
Audits(r) ==
    \A q \in Setups :
        <<"SETUP.SUCCEEDED", q>> \in audits' =>
            <<"SETUP.SUCCEEDED", q>> \in audits \/ (q = r /\ r \in initialized')

LEMMA AnswersExist ==
    ASSUME SetupInv, NEW r \in Setups, Answers(r), initialized \subseteq initialized', initialized' \subseteq Setups
    PROVE  /\ resp' \in [Setups -> Errors \cup {"none", "ok"}]
           /\ secrets' \in [Setups -> Setups \cup {Blank}]
           /\ SecretsExist'
<1>1. CASE UNCHANGED <<resp, secrets>>
    BY <1>1 DEF SetupInv, Types, SecretsExist
<1>2. ASSUME NEW e \in Errors, resp' = [resp EXCEPT ![r] = e], UNCHANGED secrets
      PROVE  /\ resp' \in [Setups -> Errors \cup {"none", "ok"}]
             /\ secrets' \in [Setups -> Setups \cup {Blank}]
             /\ SecretsExist'
    BY <1>2 DEF SetupInv, Types, SecretsExist, Errors
<1>3. ASSUME NEW by \in initialized', resp' = [resp EXCEPT ![r] = "ok"], secrets' = [secrets EXCEPT ![r] = by]
      PROVE  /\ resp' \in [Setups -> Errors \cup {"none", "ok"}]
             /\ secrets' \in [Setups -> Setups \cup {Blank}]
             /\ SecretsExist'
    BY <1>3 DEF SetupInv, Types, SecretsExist
<1> QED BY <1>1, <1>2, <1>3 DEF Answers

\* A step that commits nothing.
LEMMA StepSetupInv ==
    ASSUME SetupInv, NEW r \in Setups, NEW p \in PCs,
           pc' = [pc EXCEPT ![r] = p],
           UNCHANGED <<bootstrap, initialized, replays>>,
           p \in LockPCs => pc[r] \in LockPCs \/ \A q \in Setups : pc[q] \notin LockPCs,
           p \in {"write", "commit"} => ~bootstrap,
           p # "finish",
           Answers(r), Audits(r)
    PROVE  SetupInv'
<1>1. \A q \in Setups : pc'[q] = IF q = r THEN p ELSE pc[q]
    BY DEF SetupInv, Types
<1>2. Types' /\ SecretsExist'
    BY AnswersExist DEF SetupInv, Types
<1>3. OneLock'
    BY <1>1 DEF SetupInv, OneLock
<1>4. CheckedIsUnset' /\ Committed'
    BY <1>1 DEF SetupInv, CheckedIsUnset, Committed
<1>5. AuditedSetup'
    BY DEF SetupInv, AuditedSetup, Audits
<1> QED BY <1>2, <1>3, <1>4, <1>5 DEF SetupInv

\* The commit, whether it reports an error or not.
LEMMA ApplySetupInv ==
    ASSUME SetupInv, NEW r \in Setups, NEW p \in {"finish", "done"},
           pc[r] = "commit", Apply(r),
           pc' = [pc EXCEPT ![r] = p],
           Answers(r), Audits(r)
    PROVE  SetupInv'
<1>1. \A q \in Setups : pc'[q] = IF q = r THEN p ELSE pc[q]
    BY DEF SetupInv, Types
<1>2. \A q \in Setups : q # r => pc[q] \notin LockPCs
    BY DEF SetupInv, OneLock, LockPCs
<1>3. initialized = {} /\ initialized' = {r} /\ bootstrap'
    BY DEF SetupInv, CheckedIsUnset, Committed, Apply
<1>4. Types' /\ SecretsExist'
  <2>1. pc' \in [Setups -> PCs]
      BY DEF SetupInv, Types, PCs
  <2> QED BY <2>1, <1>3, AnswersExist DEF Types
<1>5. OneLock' /\ CheckedIsUnset'
    BY <1>1, <1>2 DEF OneLock, CheckedIsUnset, LockPCs
<1>6. \A e \in replays' : e.by = r
    BY <1>3 DEF SetupInv, Committed, Apply, StoreIdempotencyReplay
<1>7. Committed'
    BY <1>1, <1>3, <1>6 DEF SetupInv, Committed
<1>8. AuditedSetup'
    BY <1>3 DEF SetupInv, AuditedSetup, Audits
<1> QED BY <1>4, <1>5, <1>7, <1>8 DEF SetupInv

-----------------------------------------------------------------------------
(* The ways in which a request goes on. *)

LEMMA GotoSetupInv ==
    ASSUME SetupInv, NEW r \in Setups, NEW p \in PCs, Goto(r, p),
           UNCHANGED <<bootstrap, initialized, replays>>, Audits(r),
           p \in LockPCs => pc[r] \in LockPCs \/ \A q \in Setups : pc[q] \notin LockPCs,
           p \in {"write", "commit"} => ~bootstrap,
           p # "finish"
    PROVE  SetupInv'
  BY StepSetupInv, ZenonT(30) DEF Goto, Answers

LEMMA RefuseSetupInv ==
    ASSUME SetupInv, NEW r \in Setups, NEW e \in Errors, Refuse(r, e),
           UNCHANGED <<bootstrap, initialized, replays>>, Audits(r)
    PROVE  SetupInv'
<1>1. "done" \in PCs /\ "done" \notin LockPCs
    BY DEF PCs, LockPCs
<1> QED BY <1>1, StepSetupInv, ZenonT(30) DEF Refuse, Answers

LEMMA SucceedSetupInv ==
    ASSUME SetupInv, NEW r \in Setups, NEW by \in initialized, Succeed(r, by),
           UNCHANGED <<bootstrap, initialized, replays>>, Audits(r)
    PROVE  SetupInv'
<1>1. "done" \in PCs /\ "done" \notin LockPCs
    BY DEF PCs, LockPCs
<1> QED BY <1>1, StepSetupInv, ZenonT(30) DEF Succeed, Answers

LEMMA SilentAudits == ASSUME NEW r \in Setups, UNCHANGED audits PROVE Audits(r)
  BY DEF Audits

LEMMA EmittedAudits ==
    ASSUME NEW r \in Setups, NEW A, EmitSetupAudit(r, A), "SETUP.SUCCEEDED" \in A => r \in initialized'
    PROVE  Audits(r)
  BY DEF EmitSetupAudit, Audits

LEMMA FailAudits ==
    ASSUME NEW r \in Setups, NEW e, NEW b \in BOOLEAN, Fail(r, e, b)
    PROVE  Audits(r) /\ Refuse(r, e)
<1>1. CASE b
    BY <1>1, EmittedAudits DEF Fail
<1>2. CASE ~b
    BY <1>2, SilentAudits DEF Fail
<1> QED BY <1>1, <1>2

LEMMA FailSetupInv ==
    ASSUME SetupInv, NEW r \in Setups, NEW e \in Errors, NEW b \in BOOLEAN, Fail(r, e, b),
           UNCHANGED <<bootstrap, initialized, replays>>
    PROVE  SetupInv'
  BY FailAudits, RefuseSetupInv

\* checkInitializeReplay: the answer that is repeated is a committed one.
LEMMA CheckReplaySetupInv ==
    ASSUME SetupInv, NEW r \in Setups, NEW p \in PCs, NEW conflict,
           \/ Goto(r, p) /\ UNCHANGED sideVars
           \/ \E e \in replays : Succeed(r, e.by) /\ UNCHANGED sideVars
           \/ conflict,
           conflict => SetupInv',
           UNCHANGED <<bootstrap, initialized, replays>>,
           p \in LockPCs => pc[r] \in LockPCs,
           p \notin {"write", "commit", "finish"}
    PROVE  SetupInv'
<1>1. CASE Goto(r, p) /\ UNCHANGED sideVars
    BY <1>1, SilentAudits, GotoSetupInv DEF sideVars
<1>2. ASSUME NEW e \in replays, Succeed(r, e.by), UNCHANGED sideVars PROVE SetupInv'
  <2>1. e.by \in initialized
      BY DEF SetupInv, Committed
  <2> QED BY <1>2, <2>1, SilentAudits, SucceedSetupInv DEF sideVars
<1> QED BY <1>1, <1>2

-----------------------------------------------------------------------------
(* Steps of a request. *)

LEMMA ReceiveSetupInv ==
    ASSUME SetupInv, NEW r \in Setups, NEW k, NEW n, NEW t, ReceiveSetup(r, k, n, t) PROVE SetupInv'
<1>1. Audits(r) /\ UNCHANGED <<bootstrap, initialized, replays>>
    BY SilentAudits DEF ReceiveSetup, sideVars, dbVars
<1>2. CASE \E e \in Errors : Refuse(r, e)
    BY <1>1, <1>2, RefuseSetupInv
<1>3. CASE Goto(r, "normalize") \/ Goto(r, "replay")
    BY <1>1, <1>3, GotoSetupInv DEF PCs, LockPCs
<1> QED BY <1>2, <1>3 DEF ReceiveSetup, Errors

LEMMA ReplaySetupInv == ASSUME SetupInv, NEW r \in Setups, Replay(r) PROVE SetupInv'
<1> DEFINE conflict == Refuse(r, "conflict") /\ UNCHANGED sideVars
<1>1. UNCHANGED <<bootstrap, initialized, replays>>
    BY DEF Replay, dbVars
<1>2. conflict => SetupInv'
    BY <1>1, RefuseSetupInv, SilentAudits DEF Errors, sideVars
<1>3. CASE Refuse(r, "internal") /\ UNCHANGED sideVars
    BY <1>1, <1>3, RefuseSetupInv, SilentAudits DEF Errors, sideVars
<1>4. CASE ~(Refuse(r, "internal") /\ UNCHANGED sideVars)
  <2>1. \/ Goto(r, "normalize") /\ UNCHANGED sideVars
        \/ \E e \in replays : Succeed(r, e.by) /\ UNCHANGED sideVars
        \/ conflict
      BY <1>4 DEF Replay, CheckReplay, FindIdempotencyReplay
  <2>2. "normalize" \in PCs /\ "normalize" \notin LockPCs
      BY DEF PCs, LockPCs
  <2> HIDE DEF conflict
  <2> QED BY <1>1, <1>2, <2>1, <2>2, CheckReplaySetupInv
<1> QED BY <1>3, <1>4

LEMMA RecheckSetupInv == ASSUME SetupInv, NEW r \in Setups, Recheck(r) PROVE SetupInv'
<1> DEFINE conflict == Fail(r, "conflict", FALSE)
<1>1. UNCHANGED <<bootstrap, initialized, replays>>
    BY DEF Recheck, dbVars
<1>2. conflict => SetupInv'
    BY <1>1, FailSetupInv, ZenonT(30) DEF Errors
<1>3. "start" \in PCs /\ pc[r] \in LockPCs
    BY DEF Recheck, PCs, TxPCs, LockPCs
<1>4. \/ Goto(r, "start") /\ UNCHANGED sideVars
      \/ \E e \in replays : Succeed(r, e.by) /\ UNCHANGED sideVars
      \/ conflict
    BY ZenonT(30) DEF Recheck, CheckReplay, FindIdempotencyReplay
<1> HIDE DEF conflict
<1> QED BY <1>1, <1>2, <1>3, <1>4, CheckReplaySetupInv

\* Before the lock, and the lock itself.
LEMMA EarlySetupInv ==
    ASSUME SetupInv, NEW r \in Setups, Normalize(r) \/ Begin(r) \/ SchemaReady(r) \/ TrySetupLock(r)
    PROVE  SetupInv'
<1>1. UNCHANGED <<bootstrap, initialized, replays>>
    BY ZenonT(30) DEF Normalize, Begin, SchemaReady, TrySetupLock, dbVars
<1>2. CASE \E e \in Errors : Fail(r, e, FALSE)
    BY <1>1, <1>2, FailSetupInv, ZenonT(30)
<1>3. CASE \E p \in {"begin", "schema", "lock"} : Goto(r, p) /\ UNCHANGED sideVars
  <2>1. \A p \in {"begin", "schema", "lock"} : p \in PCs /\ p \notin LockPCs
      BY DEF PCs, TxPCs, LockPCs
  <2> QED BY <1>1, <1>3, <2>1, SilentAudits, GotoSetupInv DEF sideVars
<1>4. CASE TrySetupLock(r)
  <2>1. Audits(r) /\ "recheck" \in PCs
      BY <1>4, SilentAudits DEF TrySetupLock, sideVars, PCs, TxPCs, LockPCs
  <2>2. CASE \E q \in Setups : pc[q] \in LockPCs
      BY <1>1, <1>4, <2>1, <2>2, RefuseSetupInv DEF TrySetupLock, Errors
  <2>3. CASE \A q \in Setups : pc[q] \notin LockPCs
      BY <1>1, <1>4, <2>1, <2>3, GotoSetupInv DEF TrySetupLock
  <2> QED BY <2>2, <2>3
<1> QED BY <1>2, <1>3, <1>4, ZenonT(30) DEF Normalize, Begin, SchemaReady, Errors

\* Under the lock: the flag that was found unset stays unset.
LEMMA LockedSetupInv ==
    ASSUME SetupInv, NEW r \in Setups, StartSetup(r) \/ CheckBootstrap(r) \/ WriteRows(r)
    PROVE  SetupInv'
<1>1. UNCHANGED <<bootstrap, initialized, replays>> /\ pc[r] \in LockPCs
    BY ZenonT(30) DEF StartSetup, CheckBootstrap, WriteRows, dbVars, LockPCs
<1>2. \A p \in {"check", "write", "commit"} : p \in PCs
    BY DEF PCs, TxPCs, LockPCs
<1>3. CASE StartSetup(r)
  <2>1. Audits(r)
      BY <1>3, EmittedAudits DEF StartSetup
  <2> QED BY <1>1, <1>2, <1>3, <2>1, GotoSetupInv DEF StartSetup
<1>4. CASE CheckBootstrap(r)
  <2>1. CASE Refuse(r, "complete") /\ UNCHANGED audits
      BY <1>1, <2>1, SilentAudits, RefuseSetupInv DEF Errors
  <2>2. CASE Fail(r, "invalid", TRUE)
      BY <1>1, <2>2, FailSetupInv, ZenonT(30) DEF Errors
  <2>3. CASE ~bootstrap /\ Goto(r, "write") /\ UNCHANGED sideVars
      BY <1>1, <1>2, <2>3, SilentAudits, GotoSetupInv DEF sideVars
  <2> QED BY <1>4, <2>1, <2>2, <2>3, ZenonT(30) DEF CheckBootstrap
<1>5. CASE WriteRows(r)
  <2>1. ~bootstrap /\ Audits(r)
      BY <1>5, SilentAudits DEF WriteRows, SetupInv, CheckedIsUnset, sideVars
  <2> QED BY <1>1, <1>2, <1>5, <2>1, GotoSetupInv DEF WriteRows
<1> QED BY <1>3, <1>4, <1>5

LEMMA CommitSetupInv == ASSUME SetupInv, NEW r \in Setups, Commit(r) PROVE SetupInv'
<1>1. Audits(r) /\ Answers(r)
    BY SilentAudits DEF Commit, sideVars, Goto, Answers
<1> QED BY <1>1, ApplySetupInv, ZenonT(30) DEF Commit, Goto

\* The error leaves open whether the transaction was committed.
LEMMA CommitErrorSetupInv == ASSUME SetupInv, NEW r \in Setups, CommitError(r) PROVE SetupInv'
<1>1. CASE UNCHANGED dbVars
    BY <1>1, FailSetupInv, ZenonT(30) DEF CommitError, dbVars, Errors
<1>2. CASE Apply(r)
  <2>1. Audits(r) /\ Refuse(r, "internal")
      BY FailAudits, ZenonT(30) DEF CommitError
  <2>2. Answers(r)
      BY <2>1 DEF Refuse, Answers, Errors
  <2> QED BY <1>2, <2>1, <2>2, ApplySetupInv, ZenonT(30) DEF CommitError, Refuse
<1> QED BY <1>1, <1>2 DEF CommitError

LEMMA FinishSetupInv == ASSUME SetupInv, NEW r \in Setups, Finish(r) PROVE SetupInv'
<1>1. r \in initialized /\ UNCHANGED <<bootstrap, initialized, replays>>
    BY DEF Finish, SetupInv, Committed, dbVars
<1>2. Audits(r)
    BY <1>1, EmittedAudits DEF Finish
<1> QED BY <1>1, <1>2, SucceedSetupInv DEF Finish

LEMMA StatementErrorSetupInv == ASSUME SetupInv, NEW r \in Setups, StatementError(r) PROVE SetupInv'
<1>1. UNCHANGED <<bootstrap, initialized, replays>>
    BY DEF StatementError, dbVars
<1>2. Fail(r, "internal", TRUE) \/ Fail(r, "internal", FALSE)
    BY DEF StatementError, Fail
<1> QED BY <1>1, <1>2, FailSetupInv, ZenonT(30) DEF Errors

LEMMA NextSetupInv == SetupInv /\ [SetupNext]_setupVars => SetupInv'
<1> SUFFICES ASSUME SetupInv, [SetupNext]_setupVars PROVE SetupInv'
    OBVIOUS
<1>1. CASE UNCHANGED <<bootstrap, initialized, replays, audits, pc, resp, secrets>>
    BY <1>1
    DEF SetupInv, Types, OneLock, CheckedIsUnset, Committed, SecretsExist,
        AuditedSetup
<1>2. CASE ReadBootstrap \/ Report \/ Migrate \/ UNCHANGED setupVars
    BY <1>1, <1>2 DEF ReadBootstrap, Report, Migrate, setupVars, dbVars, sideVars
<1>3. ASSUME NEW r \in Setups, RequestStep(r) PROVE SetupInv'
    BY <1>3, ReplaySetupInv, EarlySetupInv, RecheckSetupInv, LockedSetupInv,
       CommitSetupInv, FinishSetupInv
    DEF RequestStep
<1>4. ASSUME NEW r \in Setups, NEW k \in SetupKeys \cup {Blank},
             NEW n \in {"allowed", "other"}, NEW t \in {"expected", "other"}, ReceiveSetup(r, k, n, t)
      PROVE  SetupInv'
    BY <1>4, ReceiveSetupInv
<1>5. ASSUME NEW r \in Setups, CommitError(r) \/ StatementError(r) PROVE SetupInv'
    BY <1>5, CommitErrorSetupInv, StatementErrorSetupInv
<1> QED BY <1>2, <1>3, <1>4, <1>5, ZenonT(30) DEF SetupNext

LEMMA SetupInvAlways == SetupSpec => []SetupInv
  BY InitSetupInv, NextSetupInv, PTL DEF SetupSpec

\* Initialize: at most one transaction creates a tenant and keys, and the flag
\* is set exactly with it, however many requests race, repeat or fail.
LEMMA SetupOnceAlways == SetupSpec => []SetupOnce
<1>1. SetupInv => SetupOnce
  <2> SUFFICES ASSUME SetupInv PROVE Cardinality(initialized) <= 1 /\ (bootstrap <=> initialized # {})
      BY DEF SetupOnce
  <2>1. CASE initialized = {}
      BY <2>1, FS_EmptySet DEF SetupInv, Committed
  <2>2. CASE initialized # {}
    <3>1. PICK r \in initialized : TRUE
        BY <2>2
    <3>2. initialized = {r}
        BY <3>1 DEF SetupInv, Committed
    <3>3. Cardinality({r}) = 1
        BY FS_Singleton, ZenonT(30)
    <3>4. bootstrap <=> initialized # {}
        BY DEF SetupInv, Committed
    <3> QED BY <3>2, <3>3, <3>4
  <2> QED BY <2>1, <2>2
<1> QED BY SetupInvAlways, <1>1, PTL

\* storeIdempotencyReplay: the keys a client is handed, by an answer that is
\* replayed or not, are those of the committed transaction.
LEMMA SecretsExistAlways == SetupSpec => []SecretsExist
<1>1. SetupInv => SecretsExist
    BY DEF SetupInv
<1> QED BY SetupInvAlways, <1>1, PTL

\* emitSetupAudit: only the request whose transaction was committed is
\* audited as successful.
LEMMA AuditedSetupAlways == SetupSpec => []AuditedSetup
<1>1. SetupInv => AuditedSetup
    BY DEF SetupInv
<1> QED BY SetupInvAlways, <1>1, PTL

-----------------------------------------------------------------------------
(* What the status page reports. *)

\* Neither the state row, nor the flag as it was read, nor the report is ahead
\* of the setup; once the page has reported it completed, the flag is read set.
StatusInv ==
    /\ state = "completed" => bootstrap
    /\ seen => bootstrap
    /\ reported = "completed" => bootstrap
    /\ reported = "completed" /\ opc = "read" => seen

\* A request writes completed only when the setup is committed.
StatusStep ==
    /\ state' = "completed" => state = "completed" \/ bootstrap'
    /\ bootstrap => bootstrap'
    /\ UNCHANGED observerVars

LEMMA FailStatus ==
    ASSUME NEW r, NEW e, NEW b, Fail(r, e, b) PROVE state' = "completed" => state = "completed"
  BY DEF Fail, WriteSetupState

LEMMA RequestStatus ==
    ASSUME SetupInv, NEW r \in Setups, RequestStep(r) \/ CommitError(r) \/ StatementError(r)
    PROVE  StatusStep
<1>1. CASE Replay(r) \/ TrySetupLock(r) \/ WriteRows(r)
    BY <1>1
    DEF StatusStep, Replay, TrySetupLock, WriteRows, CheckReplay, dbVars, sideVars
<1>2. CASE Normalize(r) \/ Begin(r) \/ SchemaReady(r)
  <2>1. state' = "completed" => state = "completed"
      BY <1>2, FailStatus, ZenonT(30) DEF Normalize, Begin, SchemaReady, sideVars
  <2>2. UNCHANGED <<dbVars, observerVars>>
      BY <1>2, ZenonT(30) DEF Normalize, Begin, SchemaReady
  <2> QED BY <2>1, <2>2 DEF StatusStep, dbVars
<1>3. CASE Recheck(r) \/ StatementError(r)
  <2>1. state' = "completed" => state = "completed"
      BY <1>3, FailStatus, ZenonT(30) DEF Recheck, StatementError, CheckReplay, sideVars
  <2>2. UNCHANGED <<dbVars, observerVars>>
      BY <1>3, ZenonT(30) DEF Recheck, StatementError
  <2> QED BY <2>1, <2>2 DEF StatusStep, dbVars
<1>4. CASE StartSetup(r)
    BY <1>4 DEF StatusStep, StartSetup, WriteSetupState, dbVars
<1>5. CASE CheckBootstrap(r)
    BY ZenonT(30), <1>5, FailStatus DEF StatusStep, CheckBootstrap, dbVars, sideVars
<1>6. CASE Commit(r)
    BY <1>6 DEF StatusStep, Commit, Apply, sideVars
<1>7. CASE CommitError(r)
  <2>1. state' = "completed" => state = "completed"
      BY <1>7, FailStatus, ZenonT(30) DEF CommitError
  <2>2. (UNCHANGED dbVars \/ Apply(r)) /\ UNCHANGED observerVars
      BY <1>7, ZenonT(30) DEF CommitError
  <2> QED BY <2>1, <2>2 DEF StatusStep, Apply, dbVars
<1>8. CASE Finish(r)
  <2>1. bootstrap
      BY <1>8 DEF Finish, SetupInv, Committed
  <2> QED BY <1>8, <2>1 DEF StatusStep, Finish, dbVars
<1> QED BY ZenonT(30), <1>1, <1>2, <1>3, <1>4, <1>5, <1>6, <1>7, <1>8 DEF RequestStep

LEMMA ReceiveStatus ==
    ASSUME NEW r, NEW k, NEW n, NEW t, ReceiveSetup(r, k, n, t) PROVE StatusStep
  BY DEF ReceiveSetup, StatusStep, dbVars, sideVars

\* The observer's own steps apart, a step is one of those.
LEMMA StepStatus ==
    ASSUME SetupInv, [SetupNext]_setupVars PROVE StatusStep \/ ReadBootstrap \/ Report
<1>1. CASE UNCHANGED setupVars
    BY <1>1 DEF setupVars, StatusStep, dbVars, sideVars
<1>2. CASE Migrate
    BY <1>2 DEF Migrate, StatusStep, sideVars
<1> QED BY <1>1, <1>2, RequestStatus, ReceiveStatus DEF SetupNext

LEMMA NextStatusInv == SetupInv /\ StatusInv /\ [SetupNext]_setupVars => StatusInv'
<1> SUFFICES ASSUME SetupInv, StatusInv, [SetupNext]_setupVars PROVE StatusInv'
    OBVIOUS
<1>1. CASE StatusStep
    BY <1>1 DEF StatusStep, StatusInv, observerVars
<1>2. CASE ReadBootstrap
    BY <1>2 DEF ReadBootstrap, StatusInv, dbVars, sideVars
<1>3. CASE Report
    BY <1>3 DEF Report, StatusInv, dbVars, sideVars
<1> QED BY <1>1, <1>2, <1>3, StepStatus

LEMMA StatusInvAlways == SetupSpec => []StatusInv
<1>1. SetupInit => StatusInv
    BY DEF SetupInit, StatusInv
<1> QED BY <1>1, NextStatusInv, SetupInvAlways, PTL DEF SetupSpec

LEMMA ReportStandsAlways == SetupSpec => ReportStands
<1>1. SetupInv /\ StatusInv /\ [SetupNext]_setupVars =>
          [reported = "completed" => reported' = "completed"]_setupVars
  <2> SUFFICES ASSUME SetupInv, StatusInv, [SetupNext]_setupVars, reported = "completed"
               PROVE  reported' = "completed"
      OBVIOUS
  <2> QED
      BY ZenonT(30), StepStatus
      DEF StatusStep, ReadBootstrap, Report, StatusInv, observerVars
<1> QED BY <1>1, SetupInvAlways, StatusInvAlways, PTL DEF SetupSpec, ReportStands

-----------------------------------------------------------------------------
(* What a request that is repeated is told. *)

\* Past the second look a request holds the lock: nobody has stored an answer
\* under its key, nor can before it is done.
LookedPCs == {"start", "check", "write", "commit"}
Unstored(r) == \A e \in replays : e.key # key[r]

RepeatInv ==
    /\ key \in [Setups -> SetupKeys \cup {Blank}]
    /\ \A e \in replays : e.key # Blank
    /\ \A r \in Setups :
         /\ pc[r] \in LookedPCs => Unstored(r)
         /\ resp[r] = "complete" => pc[r] = "done" /\ bootstrap /\ Unstored(r)

\* A step that stores no answer: it goes past the look only if there is none
\* under its key, and is told that the setup is complete only after the look.
RepeatStep(r) ==
    /\ \E p \in PCs :
         /\ pc' = [pc EXCEPT ![r] = p]
         /\ p \in LookedPCs => pc[r] \in LookedPCs \/ Unstored(r)
    /\ \/ resp' = resp
       \/ /\ pc'[r] = "done"
          /\ \E e \in Errors \cup {"ok"} :
               /\ resp' = [resp EXCEPT ![r] = e]
               /\ e = "complete" => bootstrap /\ pc[r] \in LookedPCs

LEMMA RepeatStepInv ==
    ASSUME SetupInv, RepeatInv, NEW r \in Setups, RepeatStep(r), pc[r] # "done",
           UNCHANGED <<bootstrap, replays, key>>
    PROVE  RepeatInv'
<1>1. PICK p \in PCs : /\ pc' = [pc EXCEPT ![r] = p]
                       /\ p \in LookedPCs => pc[r] \in LookedPCs \/ Unstored(r)
    BY ZenonT(30) DEF RepeatStep
<1>2. \A q \in Setups : Unstored(q)' <=> Unstored(q)
    BY DEF Unstored
<1>3. ASSUME NEW q \in Setups, q # r
      PROVE  pc'[q] = pc[q] /\ resp'[q] = resp[q]
    BY <1>1, <1>3 DEF RepeatStep, SetupInv, Types
<1>4. pc'[r] = p /\ (pc'[r] \in LookedPCs => Unstored(r))
    BY <1>1 DEF RepeatInv, SetupInv, Types
<1>5. resp'[r] = "complete" => pc'[r] = "done" /\ bootstrap /\ Unstored(r)
    BY DEF RepeatStep, RepeatInv, SetupInv, Types
<1> QED BY <1>2, <1>3, <1>4, <1>5 DEF RepeatInv

LEMMA GotoRepeat ==
    ASSUME NEW r \in Setups, NEW p \in PCs, Goto(r, p),
           p \in LookedPCs => pc[r] \in LookedPCs \/ Unstored(r)
    PROVE  RepeatStep(r)
  BY ZenonT(30) DEF Goto, RepeatStep

LEMMA RefuseRepeat ==
    ASSUME SetupInv, NEW r \in Setups, NEW e \in Errors, Refuse(r, e),
           e = "complete" => bootstrap /\ pc[r] \in LookedPCs
    PROVE  RepeatStep(r)
<1>1. "done" \in PCs /\ "done" \notin LookedPCs /\ pc'[r] = "done"
    BY DEF PCs, LookedPCs, Refuse, SetupInv, Types
<1> QED BY <1>1, ZenonT(30) DEF Refuse, RepeatStep

LEMMA SucceedRepeat ==
    ASSUME SetupInv, NEW r \in Setups, NEW by, Succeed(r, by) PROVE RepeatStep(r)
<1>1. "done" \in PCs /\ "done" \notin LookedPCs /\ pc'[r] = "done" /\ "ok" # "complete"
    BY DEF PCs, LookedPCs, Succeed, SetupInv, Types
<1> QED BY <1>1, ZenonT(30) DEF Succeed, RepeatStep

LEMMA FailRepeat ==
    ASSUME SetupInv, NEW r \in Setups, NEW e \in Errors \ {"complete"}, NEW b, Fail(r, e, b)
    PROVE  RepeatStep(r)
<1>1. Refuse(r, e) /\ e # "complete" /\ e \in Errors
    BY ZenonT(30) DEF Fail
<1> QED BY <1>1, RefuseRepeat

\* Before the look, whatever is stored.
LEMMA EarlyRepeat ==
    ASSUME SetupInv, NEW r \in Setups,
           Replay(r) \/ Normalize(r) \/ Begin(r) \/ SchemaReady(r) \/ TrySetupLock(r)
    PROVE  RepeatStep(r) /\ UNCHANGED <<bootstrap, replays, key>> /\ pc[r] # "done"
<1>1. UNCHANGED <<bootstrap, replays, key>> /\ pc[r] # "done"
    BY ZenonT(30) DEF Replay, Normalize, Begin, SchemaReady, TrySetupLock, dbVars
<1>2. /\ {"normalize", "begin", "schema", "lock", "recheck"} \subseteq PCs \ LookedPCs
      /\ {"conflict", "internal", "invalid", "schema", "progress"} \subseteq Errors \ {"complete"}
    BY DEF PCs, TxPCs, LockPCs, LookedPCs, Errors
<1>3. \/ \E p \in {"normalize", "begin", "schema", "lock", "recheck"} : Goto(r, p)
      \/ \E e \in {"conflict", "internal", "invalid", "schema", "progress"} : Refuse(r, e)
      \/ \E by : Succeed(r, by)
    BY ZenonT(30) DEF Replay, CheckReplay, Normalize, Begin, SchemaReady, TrySetupLock, Fail
<1>4. ASSUME NEW p \in {"normalize", "begin", "schema", "lock", "recheck"}, Goto(r, p)
      PROVE  RepeatStep(r)
    BY <1>2, <1>4, GotoRepeat
<1>5. ASSUME NEW e \in {"conflict", "internal", "invalid", "schema", "progress"}, Refuse(r, e)
      PROVE  RepeatStep(r)
    BY <1>2, <1>5, RefuseRepeat
<1>6. ASSUME NEW by, Succeed(r, by) PROVE RepeatStep(r)
    BY <1>6, SucceedRepeat
<1> QED BY <1>1, <1>3, <1>4, <1>5, <1>6

\* The second look finds nothing under the key, if there is one, and goes on.
LEMMA RecheckRepeat ==
    ASSUME SetupInv, RepeatInv, NEW r \in Setups, Recheck(r)
    PROVE  RepeatStep(r) /\ UNCHANGED <<bootstrap, replays, key>> /\ pc[r] # "done"
<1>1. UNCHANGED <<bootstrap, replays, key>> /\ pc[r] # "done"
    BY DEF Recheck, dbVars
<1>2. "start" \in PCs /\ "conflict" \in Errors \ {"complete"}
    BY DEF PCs, TxPCs, LockPCs, Errors
<1>3. \/ key[r] = Blank /\ Goto(r, "start")
      \/ FindIdempotencyReplay(r) = {} /\ Goto(r, "start")
      \/ Fail(r, "conflict", FALSE)
      \/ \E by : Succeed(r, by)
    BY ZenonT(30) DEF Recheck, CheckReplay
<1>4. CASE (key[r] = Blank \/ FindIdempotencyReplay(r) = {}) /\ Goto(r, "start")
  <2>1. Unstored(r)
      BY <1>4 DEF Unstored, FindIdempotencyReplay, RepeatInv
  <2> QED BY <1>1, <1>2, <1>4, <2>1, GotoRepeat
<1>5. CASE Fail(r, "conflict", FALSE)
    BY <1>1, <1>2, <1>5, FailRepeat, ZenonT(30)
<1>6. ASSUME NEW by, Succeed(r, by) PROVE RepeatStep(r)
    BY <1>6, SucceedRepeat
<1> QED BY ZenonT(30), <1>1, <1>3, <1>4, <1>5, <1>6

\* After it, under the lock.
LEMMA LateRepeat ==
    ASSUME SetupInv, NEW r \in Setups,
           StartSetup(r) \/ CheckBootstrap(r) \/ WriteRows(r) \/ Finish(r) \/ StatementError(r)
    PROVE  RepeatStep(r) /\ UNCHANGED <<bootstrap, replays, key>> /\ pc[r] # "done"
<1>1. UNCHANGED <<bootstrap, replays, key>> /\ pc[r] # "done"
    BY ZenonT(30) DEF StartSetup, CheckBootstrap, WriteRows, Finish, StatementError, dbVars
<1>2. {"check", "write", "commit"} \subseteq PCs /\ "complete" \in Errors
      /\ {"invalid", "internal"} \subseteq Errors \ {"complete"}
    BY DEF PCs, TxPCs, LockPCs, Errors
<1>3. \/ pc[r] \in LookedPCs /\ \E p \in {"check", "write", "commit"} : Goto(r, p)
      \/ pc[r] \in LookedPCs /\ bootstrap /\ Refuse(r, "complete")
      \/ \E e \in {"invalid", "internal"} : Refuse(r, e)
      \/ \E by : Succeed(r, by)
    BY ZenonT(30)
    DEF StartSetup, CheckBootstrap, WriteRows, Finish, StatementError, Fail,
        LookedPCs
<1>4. CASE pc[r] \in LookedPCs /\ \E p \in {"check", "write", "commit"} : Goto(r, p)
    BY <1>1, <1>2, <1>4, GotoRepeat
<1>5. CASE pc[r] \in LookedPCs /\ bootstrap /\ Refuse(r, "complete")
    BY <1>1, <1>2, <1>5, RefuseRepeat
<1>6. ASSUME NEW e \in {"invalid", "internal"}, Refuse(r, e) PROVE RepeatStep(r)
    BY ZenonT(30), <1>2, <1>6, RefuseRepeat
<1>7. ASSUME NEW by, Succeed(r, by) PROVE RepeatStep(r)
    BY <1>7, SucceedRepeat
<1> QED BY <1>1, <1>3, <1>4, <1>5, <1>6, <1>7

\* The commit stores an answer when no other request is past the look, and
\* none was told that the setup is complete.
LEMMA ApplyRepeat ==
    ASSUME SetupInv, RepeatInv, NEW r \in Setups, NEW p \in {"finish", "done"},
           pc[r] = "commit", Apply(r), UNCHANGED key,
           pc' = [pc EXCEPT ![r] = p],
           resp' = resp \/ resp' = [resp EXCEPT ![r] = "internal"]
    PROVE  RepeatInv'
<1>1. \A q \in Setups : q # r => pc'[q] = pc[q] /\ pc'[q] \notin LookedPCs
    BY DEF SetupInv, Types, OneLock, LockPCs, LookedPCs
<1>2. \A q \in Setups : resp[q] # "complete"
    BY DEF SetupInv, CheckedIsUnset, RepeatInv
<1>3. \A q \in Setups : resp'[q] # "complete"
    BY <1>2 DEF SetupInv, Types
<1>4. pc'[r] \notin LookedPCs
    BY DEF SetupInv, Types, LookedPCs
<1>5. \A e \in replays' : e.key # Blank
    BY DEF Apply, StoreIdempotencyReplay, RepeatInv
<1> QED BY <1>1, <1>3, <1>4, <1>5 DEF RepeatInv

LEMMA ReceiveRepeat ==
    ASSUME SetupInv, RepeatInv, NEW r \in Setups, NEW k \in SetupKeys \cup {Blank}, NEW n, NEW t,
           ReceiveSetup(r, k, n, t)
    PROVE  RepeatInv'
<1>1. UNCHANGED <<bootstrap, replays>> /\ pc[r] = "idle" /\ key' = [key EXCEPT ![r] = k]
    BY DEF ReceiveSetup, dbVars
<1>2. \/ \E p \in {"normalize", "replay"} : Goto(r, p)
      \/ \E e \in {"unauthorized", "missing_key"} : Refuse(r, e)
    BY ZenonT(30) DEF ReceiveSetup
<1>3. /\ pc'[r] \notin LookedPCs /\ resp'[r] # "complete"
      /\ \A q \in Setups : q # r => pc'[q] = pc[q] /\ resp'[q] = resp[q] /\ key'[q] = key[q]
    BY <1>1, <1>2 DEF Goto, Refuse, LookedPCs, RepeatInv, SetupInv, Types
<1>4. \A q \in Setups : q # r => (Unstored(q)' <=> Unstored(q))
    BY <1>1, <1>3 DEF Unstored
<1> QED BY <1>1, <1>3, <1>4 DEF RepeatInv

LEMMA NextRepeatInv == SetupInv /\ RepeatInv /\ [SetupNext]_setupVars => RepeatInv'
<1> SUFFICES ASSUME SetupInv, RepeatInv, [SetupNext]_setupVars PROVE RepeatInv'
    OBVIOUS
<1>1. CASE UNCHANGED <<bootstrap, replays, key, pc, resp>>
    BY <1>1 DEF RepeatInv, Unstored
<1>2. CASE ReadBootstrap \/ Report \/ Migrate \/ UNCHANGED setupVars
    BY <1>1, <1>2 DEF ReadBootstrap, Report, Migrate, setupVars, dbVars, sideVars
<1>3. ASSUME NEW r \in Setups, Commit(r) PROVE RepeatInv'
    BY ZenonT(30), <1>3, ApplyRepeat DEF Commit, Goto
<1>4. ASSUME NEW r \in Setups, CommitError(r) PROVE RepeatInv'
  <2>1. /\ pc[r] = "commit" /\ UNCHANGED key /\ Refuse(r, "internal")
        /\ UNCHANGED dbVars \/ Apply(r)
      BY <1>4, ZenonT(30) DEF CommitError, Fail
  <2>2. CASE Apply(r)
      BY ZenonT(30), <2>1, <2>2, ApplyRepeat DEF Refuse
  <2>3. CASE UNCHANGED dbVars
    <3>1. "internal" \in Errors /\ "internal" # "complete"
        BY DEF Errors
    <3> QED BY <2>1, <2>3, <3>1, RefuseRepeat, RepeatStepInv DEF dbVars
  <2> QED BY <2>1, <2>2, <2>3
<1>5. ASSUME NEW r \in Setups, RequestStep(r) \/ StatementError(r) PROVE RepeatInv'
  <2>1. CASE Commit(r)
      BY <1>3, <2>1
  <2>2. CASE ~Commit(r)
    <3>1. RepeatStep(r) /\ UNCHANGED <<bootstrap, replays, key>> /\ pc[r] # "done"
        BY <1>5, <2>2, EarlyRepeat, RecheckRepeat, LateRepeat DEF RequestStep
    <3> QED BY <3>1, RepeatStepInv
  <2> QED BY <2>1, <2>2
<1>6. ASSUME NEW r \in Setups, NEW k \in SetupKeys \cup {Blank},
             NEW n \in {"allowed", "other"}, NEW t \in {"expected", "other"}, ReceiveSetup(r, k, n, t)
      PROVE  RepeatInv'
    BY ZenonT(30), <1>6, ReceiveRepeat
<1> QED BY <1>2, <1>4, <1>5, <1>6, ZenonT(30) DEF SetupNext

LEMMA RepeatInvAlways == SetupSpec => []RepeatInv
<1>1. SetupInit => RepeatInv
    BY DEF SetupInit, RepeatInv, LookedPCs
<1> QED BY <1>1, NextRepeatInv, SetupInvAlways, PTL DEF SetupSpec

\* The setup is sound however many requests race, repeat or fail, and for any
\* number of keys, bodies and connections (Initialize, Status).
THEOREM SetupSound == SetupSpec => SetupIsSound
<1>1. RepeatInv => RepeatIsRecognised
    BY DEF RepeatInv, Unstored, RepeatIsRecognised
<1>2. StatusInv => ReportedSetup
    BY DEF StatusInv, ReportedSetup
<1> QED
    BY <1>1, <1>2, RepeatInvAlways, StatusInvAlways, ReportStandsAlways,
       SetupOnceAlways,
           SecretsExistAlways, AuditedSetupAlways, PTL DEF SetupIsSound
=============================================================================
