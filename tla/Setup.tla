-------------------------------- MODULE Setup --------------------------------
(***************************************************************************)
(* The first-run setup (src/internal/api/setup): POST /setup/initialize    *)
(* creates the first tenant, its keys and its policy in one transaction,   *)
(* under a try-lock that the transaction holds and with an idempotency key *)
(* that lets a client repeat a request whose answer was lost.  The row of  *)
(* rbitr.setup_state and the audit events are written outside that         *)
(* transaction, through a second connection of the same pool.              *)
(*                                                                         *)
(* A request is one run of handleInitialize.  An observer polls GET        *)
(* /setup/status, which reads the bootstrap flag and the state row by two  *)
(* statements.                                                             *)
(***************************************************************************)
EXTENDS Integers, FiniteSets

CONSTANTS
    Setups,         \* runs of handleInitialize
    SetupKeys,      \* values of the Idempotency-Key header
    Payloads,       \* request bodies; a body decides the tenant's id and name
    BadPayloads,    \* bodies that normalizeInitializeRequest refuses
    OldPayloads,    \* bodies whose tenant exists before the setup
    TokenRequired,  \* RBTR_SETUP_TOKEN_REQUIRED: token and key are mandatory
    Migrated,       \* whether the schema may be there, or not, at the start
    MaxOpenConns,   \* connections of the pool
    SetupFaults,    \* whether statements may fail
    Blank

ASSUME SetupAssumption ==
    /\ BadPayloads \subseteq Payloads
    /\ OldPayloads \subseteq Payloads
    /\ TokenRequired \in BOOLEAN
    /\ SetupFaults \in BOOLEAN
    /\ MaxOpenConns \in Nat \ {0}
    /\ Blank \notin SetupKeys \cup Setups

VARIABLES
    schema,         \* the migrations have run
    bootstrap,      \* system_settings.bootstrap_complete
    initialized,    \* requests whose transaction was committed
    replays,        \* setup_initialize_idempotency
    state,          \* setup_state.state
    audits,         \* SETUP.* audit events
    pc, key, payload,
    resp,           \* what a request was answered
    secrets,        \* the request that made the keys a request was answered
    opc, seen,      \* the observer: its next step, the flag it has read
    reported        \* the setup_state it was last told

dbVars == <<schema, bootstrap, initialized, replays>>
sideVars == <<state, audits>>
observerVars == <<opc, seen, reported>>
setupVars == <<dbVars, sideVars, pc, key, payload, resp, secrets, observerVars>>

States == {"not_started", "in_progress", "completed", "failed"}
Actions == {"SETUP.START", "SETUP.FAILED", "SETUP.SUCCEEDED",
            "SETUP.KEYS.CREATED"}
Errors == {"unauthorized", "missing_key", "conflict", "invalid", "schema",
           "progress", "complete", "internal"}

\* While it is at one of these a request holds the lock of the setup, and at
\* one of those a connection for its transaction.
LockPCs == {"recheck", "start", "check", "write", "commit"}
TxPCs == LockPCs \cup {"schema", "lock"}
PCs == TxPCs \cup {"idle", "replay", "normalize", "begin", "finish", "done"}

SetupTypeOK ==
    /\ schema \in BOOLEAN /\ bootstrap \in BOOLEAN
    /\ initialized \subseteq Setups
    /\ replays \subseteq [key : SetupKeys, payload : Payloads, by : Setups]
    /\ state \in States
    /\ audits \subseteq Actions \X Setups
    /\ pc \in [Setups -> PCs]
    /\ key \in [Setups -> SetupKeys \cup {Blank}]
    /\ payload \in [Setups -> Payloads]
    /\ resp \in [Setups -> Errors \cup {"none", "ok"}]
    /\ secrets \in [Setups -> Setups \cup {Blank}]
    /\ opc \in {"idle", "read"} /\ seen \in BOOLEAN /\ reported \in States

SetupInit ==
    /\ schema \in Migrated
    /\ bootstrap = FALSE /\ initialized = {} /\ replays = {}
    /\ state = "not_started" /\ audits = {}
    /\ pc = [r \in Setups |-> "idle"]
    /\ key = [r \in Setups |-> Blank]
    /\ payload \in [Setups -> Payloads]
    /\ resp = [r \in Setups |-> "none"]
    /\ secrets = [r \in Setups |-> Blank]
    /\ opc = "idle" /\ seen = FALSE /\ reported = "not_started"

-----------------------------------------------------------------------------
(* Steps of a request *)

Goto(r, label) ==
    /\ pc' = [pc EXCEPT ![r] = label]
    /\ UNCHANGED <<resp, secrets>>

Refuse(r, e) ==
    /\ pc' = [pc EXCEPT ![r] = "done"]
    /\ resp' = [resp EXCEPT ![r] = e]
    /\ UNCHANGED secrets

Succeed(r, by) ==
    /\ pc' = [pc EXCEPT ![r] = "done"]
    /\ resp' = [resp EXCEPT ![r] = "ok"]
    /\ secrets' = [secrets EXCEPT ![r] = by]

\* A connection other than those that hold a transaction.
ConnFree == Cardinality({r \in Setups : pc[r] \in TxPCs}) < MaxOpenConns

\* writeSetupState: an upsert of its own, whose error is ignored or logged.
WriteSetupState(s) ==
    \/ schema /\ ConnFree /\ state' = s
    \/ ~schema /\ ConnFree /\ UNCHANGED state
    \/ SetupFaults /\ UNCHANGED state

\* emitSetupAudit: an insert of its own, whose error is logged.
EmitSetupAudit(r, actions) ==
    \/ audits' = audits \cup (actions \X {r})
    \/ SetupFaults /\ UNCHANGED audits

\* The failure is noted in the state row; if the start was audited, so is the
\* failure, once the transaction is rolled back.
Fail(r, e, audited) ==
    /\ WriteSetupState("failed")
    /\ IF audited THEN EmitSetupAudit(r, {"SETUP.FAILED"})
                  ELSE UNCHANGED audits
    /\ Refuse(r, e)

\* AccessPolicy.Authorize: the client's network and, if one is required, its
\* token.
Authorize(network, token) ==
    network = "allowed" /\ (TokenRequired => token = "expected")

\* handleInitialize: the access policy, then the headers and the body.
ReceiveSetup(r, k, network, token) ==
    /\ pc[r] = "idle"
    /\ key' = [key EXCEPT ![r] = k]
    /\ \/ ~Authorize(network, token) /\ Refuse(r, "unauthorized")
       \/ /\ Authorize(network, token)
          /\ IF TokenRequired /\ k = Blank
             THEN Refuse(r, "missing_key")
             ELSE Goto(r, IF k = Blank THEN "normalize" ELSE "replay")
    /\ UNCHANGED <<dbVars, sideVars, payload, observerVars>>

\* The answers stored with the key of the request.
FindIdempotencyReplay(r) == {e \in replays : e.key = key[r]}

\* checkInitializeReplay: the request goes on, is answered as before, or has
\* used the key for something else.
CheckReplay(r, next) ==
    /\ \/ FindIdempotencyReplay(r) = {} /\ Goto(r, next)
       \/ \E e \in FindIdempotencyReplay(r) :
             e.payload = payload[r] /\ Succeed(r, e.by)
    /\ UNCHANGED sideVars

Conflicts(r) == \E e \in FindIdempotencyReplay(r) : e.payload # payload[r]

Replay(r) ==
    /\ pc[r] = "replay"
    /\ \/ schema /\ CheckReplay(r, "normalize")
       \/ schema /\ Conflicts(r) /\ Refuse(r, "conflict") /\ UNCHANGED sideVars
       \/ (~schema \/ SetupFaults) /\ Refuse(r, "internal") /\ UNCHANGED sideVars
    /\ UNCHANGED <<dbVars, key, payload, observerVars>>

Normalize(r) ==
    /\ pc[r] = "normalize"
    /\ \/ payload[r] \in BadPayloads /\ Fail(r, "invalid", FALSE)
       \/ payload[r] \notin BadPayloads /\ Goto(r, "begin") /\ UNCHANGED sideVars
    /\ UNCHANGED <<dbVars, key, payload, observerVars>>

\* BeginTx waits for a connection.
Begin(r) ==
    /\ pc[r] = "begin"
    /\ \/ ConnFree /\ Goto(r, "schema") /\ UNCHANGED sideVars
       \/ SetupFaults /\ Fail(r, "internal", FALSE)
    /\ UNCHANGED <<dbVars, key, payload, observerVars>>

SchemaReady(r) ==
    /\ pc[r] = "schema"
    /\ \/ schema /\ Goto(r, "lock") /\ UNCHANGED sideVars
       \/ ~schema /\ Fail(r, "schema", FALSE)
    /\ UNCHANGED <<dbVars, key, payload, observerVars>>

\* Slip: the request waits for the lock, with its connection in hand.
TrySetupLockBlocking(r) ==
    /\ pc[r] = "lock"
    /\ \A q \in Setups : pc[q] \notin LockPCs
    /\ Goto(r, "recheck")
    /\ UNCHANGED <<dbVars, sideVars, key, payload, observerVars>>

\* Slip: the lock is never busy.
TrySetupLockIgnored(r) ==
    /\ pc[r] = "lock"
    /\ Goto(r, "recheck")
    /\ UNCHANGED <<dbVars, sideVars, key, payload, observerVars>>

\* pg_try_advisory_xact_lock
TrySetupLock(r) ==
    /\ pc[r] = "lock"
    /\ IF \E q \in Setups : pc[q] \in LockPCs
       THEN Refuse(r, "progress")
       ELSE Goto(r, "recheck")
    /\ UNCHANGED <<dbVars, sideVars, key, payload, observerVars>>

\* Slip: the replay is looked up before the lock is taken only.
RecheckSkipped(r) ==
    /\ pc[r] = "recheck"
    /\ Goto(r, "start")
    /\ UNCHANGED <<dbVars, sideVars, key, payload, observerVars>>

\* Another request may have committed between the first look and the lock.
Recheck(r) ==
    /\ pc[r] = "recheck"
    /\ \/ key[r] = Blank /\ Goto(r, "start") /\ UNCHANGED sideVars
       \/ key[r] # Blank /\ CheckReplay(r, "start")
       \/ key[r] # Blank /\ Conflicts(r) /\ Fail(r, "conflict", FALSE)
    /\ UNCHANGED <<dbVars, key, payload, observerVars>>

StartSetup(r) ==
    /\ pc[r] = "start"
    /\ WriteSetupState("in_progress")
    /\ EmitSetupAudit(r, {"SETUP.START"})
    /\ Goto(r, "check")
    /\ UNCHANGED <<dbVars, key, payload, observerVars>>

\* getBootstrapComplete, tenantIDExists, tenantNameExists.
CheckBootstrap(r) ==
    /\ pc[r] = "check"
    /\ \/ /\ bootstrap
          /\ WriteSetupState("completed")
          /\ Refuse(r, "complete")
          /\ UNCHANGED audits
       \/ ~bootstrap /\ payload[r] \in OldPayloads /\ Fail(r, "invalid", TRUE)
       \/ /\ ~bootstrap /\ payload[r] \notin OldPayloads
          /\ Goto(r, "write")
          /\ UNCHANGED sideVars
    /\ UNCHANGED <<dbVars, key, payload, observerVars>>

\* The rows of the transaction: nobody else sees them before the commit.
WriteRows(r) ==
    /\ pc[r] = "write"
    /\ Goto(r, "commit")
    /\ UNCHANGED <<dbVars, sideVars, key, payload, observerVars>>

\* Slip: an answer is stored for a request without a key, too.
ApplyKeyless(r) ==
    /\ bootstrap' = TRUE
    /\ initialized' = initialized \cup {r}
    /\ replays' = replays \cup {[key |-> key[r], payload |-> payload[r],
                                 by |-> r]}
    /\ UNCHANGED schema

\* The answer is stored with the key, in the same transaction.
StoreIdempotencyReplay(r) ==
    replays' = replays \cup {[key |-> key[r], payload |-> payload[r], by |-> r]}

Apply(r) ==
    /\ bootstrap' = TRUE
    /\ initialized' = initialized \cup {r}
    /\ IF key[r] # Blank THEN StoreIdempotencyReplay(r) ELSE UNCHANGED replays
    /\ UNCHANGED schema

\* Slip: the state row says completed before the transaction is committed.
CommitReportedEarly(r) ==
    /\ pc[r] = "commit"
    /\ \/ state' = "completed" /\ pc' = pc /\ UNCHANGED dbVars
       \/ state = "completed" /\ UNCHANGED state /\ Apply(r)
          /\ pc' = [pc EXCEPT ![r] = "finish"]
    /\ UNCHANGED <<resp, secrets, audits, key, payload, observerVars>>

\* Slip: the answer is built from the request that holds the key, not from
\* the transaction that was committed.
CommitUnstored(r) ==
    /\ pc[r] = "commit"
    /\ replays' = replays \cup
          {[key |-> k, payload |-> payload[r], by |-> r] :
              k \in {key[r]} \cap SetupKeys}
    /\ \/ bootstrap' = TRUE /\ initialized' = initialized \cup {r} /\ Goto(r, "finish")
       \/ UNCHANGED <<bootstrap, initialized>> /\ Refuse(r, "internal")
    /\ UNCHANGED <<schema, sideVars, key, payload, observerVars>>

\* The commit also releases the lock and the connection.
Commit(r) ==
    /\ pc[r] = "commit"
    /\ Apply(r)
    /\ Goto(r, "finish")
    /\ UNCHANGED <<sideVars, key, payload, observerVars>>

\* Slip: an error of the commit is not looked at.
CommitErrorIgnored(r) ==
    /\ SetupFaults
    /\ pc[r] = "commit"
    /\ UNCHANGED dbVars \/ Apply(r)
    /\ Goto(r, "finish")
    /\ UNCHANGED <<sideVars, key, payload, observerVars>>

\* The commit returns an error, which does not tell whether it was applied.
CommitError(r) ==
    /\ SetupFaults
    /\ pc[r] = "commit"
    /\ UNCHANGED dbVars \/ Apply(r)
    /\ Fail(r, "internal", TRUE)
    /\ UNCHANGED <<key, payload, observerVars>>

Finish(r) ==
    /\ pc[r] = "finish"
    /\ WriteSetupState("completed")
    /\ EmitSetupAudit(r, {"SETUP.SUCCEEDED", "SETUP.KEYS.CREATED"})
    /\ Succeed(r, r)
    /\ UNCHANGED <<dbVars, key, payload, observerVars>>

\* A statement of the transaction fails.
StatementError(r) ==
    /\ SetupFaults
    /\ pc[r] \in {"schema", "lock", "recheck", "check", "write"}
    /\ Fail(r, "internal", pc[r] \in {"check", "write"})
    /\ UNCHANGED <<dbVars, key, payload, observerVars>>

RequestStep(r) ==
    \/ Replay(r) \/ Normalize(r) \/ Begin(r) \/ SchemaReady(r) \/ TrySetupLock(r)
    \/ Recheck(r) \/ StartSetup(r) \/ CheckBootstrap(r) \/ WriteRows(r)
    \/ Commit(r) \/ Finish(r)

-----------------------------------------------------------------------------
(* Status *)

ReadBootstrap ==
    /\ opc = "idle" /\ schema
    /\ opc' = "read"
    /\ seen' = bootstrap
    /\ UNCHANGED <<dbVars, sideVars, pc, key, payload, resp, secrets, reported>>

\* Slip: the state row is reported as it is.
ReportRaw ==
    /\ opc = "read"
    /\ opc' = "idle"
    /\ reported' = state
    /\ UNCHANGED <<dbVars, sideVars, pc, key, payload, resp, secrets, seen>>

Report ==
    /\ opc = "read"
    /\ opc' = "idle"
    /\ reported' = IF seen THEN "completed" ELSE state
    /\ UNCHANGED <<dbVars, sideVars, pc, key, payload, resp, secrets, seen>>

Migrate ==
    /\ ~schema
    /\ schema' = TRUE
    /\ UNCHANGED <<bootstrap, initialized, replays, sideVars, pc, key, payload,
                   resp, secrets, observerVars>>

SetupNext ==
    \/ \E r \in Setups, k \in SetupKeys \cup {Blank},
          network \in {"allowed", "other"}, token \in {"expected", "other"} :
          ReceiveSetup(r, k, network, token)
    \/ \E r \in Setups : RequestStep(r) \/ CommitError(r) \/ StatementError(r)
    \/ ReadBootstrap \/ Report \/ Migrate

SetupSpec == SetupInit /\ [][SetupNext]_setupVars

\* A request that was received goes on, and so does a waiting one once there
\* is a connection: database/sql serves those that wait in turn.
SetupFairSpec == SetupSpec /\ \A r \in Setups : WF_setupVars(RequestStep(r))

-----------------------------------------------------------------------------

\* The setup is done once: whatever requests race, repeat or fail, at most
\* one transaction creates a tenant and keys, and the flag is set exactly
\* with it (Initialize, trySetupInitializeLock).
SetupOnce ==
    /\ Cardinality(initialized) <= 1
    /\ bootstrap <=> initialized # {}

\* The keys a client is handed are keys that exist: an answer, replayed or
\* not, is that of the committed transaction (storeIdempotencyReplay).
SecretsExist == \A r \in Setups : resp[r] = "ok" => secrets[r] \in initialized

\* A client that repeats its request, because the answer was lost or because
\* the first is still running, is never told that somebody else has done the
\* setup (the second checkInitializeReplay).
RepeatIsRecognised ==
    \A r \in Setups :
        resp[r] = "complete" =>
            \A e \in replays : e.key # key[r] \/ e.payload # payload[r]

\* What GET /setup/status reports is never ahead of the setup (Status).
ReportedSetup == reported = "completed" => bootstrap

\* The setup is never reported undone again, though the state row itself may
\* say failed or in_progress after the setup is done (Status).
ReportStands == [][reported = "completed" => reported' = "completed"]_setupVars

\* The audit trail names as successful only the request whose transaction was
\* committed (Initialize, emitSetupAudit).
AuditedSetup ==
    \A r \in Setups : <<"SETUP.SUCCEEDED", r>> \in audits => r \in initialized

\* Whatever setup requests race, repeat or fail, at most one transaction
\* creates a tenant and keys; the keys a client is handed exist; a client that
\* repeats its request is never told that somebody else has done the setup;
\* neither the status page nor the audit trail is ahead of what was committed,
\* and no step makes the page report a completed setup as undone, whatever the
\* state row says by then (Initialize, Status).
SetupIsSound ==
    /\ [](SetupOnce /\ SecretsExist /\ RepeatIsRecognised /\ ReportedSetup
          /\ AuditedSetup)
    /\ ReportStands

\* Every request is answered: the lock is never waited for with a connection
\* in hand, so the request that holds it gets the second connection it needs
\* (Initialize, writeSetupState).
Answered ==
    \A r \in Setups : []<>(pc[r] \in {"idle", "done"})
=============================================================================
