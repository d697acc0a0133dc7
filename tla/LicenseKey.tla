------------------------------ MODULE LicenseKey ------------------------------
(***************************************************************************)
(* The license of a self-managed installation.  A key lives in a file; the *)
(* validator reads it into memory when the gateway starts, when a handler  *)
(* has written or removed it, and when the watcher sees that the file's    *)
(* time or size changed.  The history in the database remembers uploads.   *)
(***************************************************************************)
EXTENDS Integers

CONSTANTS
    Keys,           \* [tier, exp, claims]: keys signed by the vendor
    Features,
    FreeFeatures,   \* features of the free tier
    Handlers,       \* administrators' requests that run at a time
    Edits,          \* the operator also changes the file by hand
    Faults,         \* crashes, and history rows that cannot be written
    Grace,
    TrialDays,
    MaxClock,
    MaxWrites

\* What is assumed of the constants.
LicenseKeyAssumption ==
    /\ FreeFeatures \subseteq Features
    /\ Edits \in BOOLEAN /\ Faults \in BOOLEAN
    /\ Grace \in Nat /\ TrialDays \in Nat /\ MaxClock \in Nat /\ MaxWrites \in Nat
    /\ \A k \in Keys : k.tier \in {"paid", "trial"} /\ k.exp \in Nat /\ k.claims \subseteq Features

VARIABLES
    clock,          \* in days
    file,           \* [key, stamp]; the stamp stands for time and size
    writes,
    info,           \* what the validator has: [key, features]
    watcher,        \* [pc, last, seen, got]
    request,
    history,        \* tiers of the recorded uploads
    trials          \* trial keys that uploads have put in force

vars == <<clock, file, writes, info, watcher, request, history, trials>>

NoKey == [tier |-> "free", exp |-> 0, claims |-> {}]
NoFile == [key |-> NoKey, stamp |-> 0]

DefaultsForTier(tier) == IF tier = "free" THEN FreeFeatures ELSE Features
\* Claims only add to the features of the tier.
MergeReplaces(key) == key.claims
MergeOverDefaults(key) == DefaultsForTier(key.tier) \cup key.claims

Expired(key) == clock > key.exp + Grace
Free == [key |-> NoKey, features |-> DefaultsForTier("free")]
BuildInfo(key) == [key |-> key, features |-> MergeOverDefaults(key)]
\* LoadAndValidate falls back to the free tier if the file is missing or its
\* key has expired.  It reads the file first, and stores the result later.
ValidateFile == IF file = NoFile \/ Expired(file.key) THEN Free ELSE BuildInfo(file.key)

Idle == [pc |-> "idle", key |-> NoKey, got |-> Free]

Init ==
    /\ clock = 0
    /\ file \in {NoFile} \cup {[key |-> k, stamp |-> 1] : k \in Keys}
    /\ writes = 1
    /\ info = ValidateFile
    /\ watcher = [pc |-> "start", last |-> 0, seen |-> 0, got |-> Free]
    /\ request = [r \in Handlers |-> Idle]
    /\ history = {}
    /\ trials = 0

DayPasses ==
    /\ clock < MaxClock
    /\ clock' = clock + 1
    /\ UNCHANGED <<file, writes, info, watcher, request, history, trials>>

\* The watcher starts in a goroutine of its own, after the first validation.
Snapshot ==
    /\ watcher.pc = "start"
    /\ watcher' = [watcher EXCEPT !.pc = "wait", !.last = file.stamp]
    /\ UNCHANGED <<clock, file, writes, info, request, history, trials>>

Check ==
    /\ watcher.pc = "wait"
    /\ file.stamp # watcher.last
    /\ watcher' = [watcher EXCEPT !.pc = "read", !.seen = file.stamp]
    /\ UNCHANGED <<clock, file, writes, info, request, history, trials>>

WatcherRead ==
    /\ watcher.pc = "read"
    /\ watcher' = [watcher EXCEPT !.pc = "store", !.got = ValidateFile]
    /\ UNCHANGED <<clock, file, writes, info, request, history, trials>>

\* What is remembered is the state of the file before it was read.
WatcherStoreLate ==
    /\ watcher.pc = "store"
    /\ info' = watcher.got
    /\ watcher' = [pc |-> "wait", last |-> file.stamp, seen |-> 0, got |-> Free]
    /\ UNCHANGED <<clock, file, writes, request, history, trials>>
WatcherStore ==
    /\ watcher.pc = "store"
    /\ info' = watcher.got
    /\ watcher' = [pc |-> "wait", last |-> watcher.seen, seen |-> 0, got |-> Free]
    /\ UNCHANGED <<clock, file, writes, request, history, trials>>

\* A key that does not validate is refused before anything is written.
HandleLicenseUpload(r, k) ==
    /\ request[r].pc = "idle"
    /\ ~Expired(k)
    /\ request' = [request EXCEPT ![r] =
         [pc |-> IF k.tier = "trial" THEN "trial" ELSE "write", key |-> k, got |-> Free]]
    /\ UNCHANGED <<clock, file, writes, info, watcher, history, trials>>

\* The request ends if a trial is in the history, or the history cannot be read.
TrialUnchecked(r) ==
    /\ request[r].pc = "trial"
    /\ \/ request' = [request EXCEPT ![r].pc = "write"]
       \/ request' = [request EXCEPT ![r] = Idle]
    /\ UNCHANGED <<clock, file, writes, info, watcher, history, trials>>
HasTrialLicenseBeenUsed(r) ==
    /\ request[r].pc = "trial"
    /\ \/ /\ "trial" \notin history
          /\ request' = [request EXCEPT ![r].pc = "write"]
       \/ request' = [request EXCEPT ![r] = Idle]
    /\ UNCHANGED <<clock, file, writes, info, watcher, history, trials>>

\* The rename replaces the file as a whole; an error leaves it as it was.
AtomicWriteFile(r) ==
    /\ request[r].pc = "write"
    /\ \/ /\ writes < MaxWrites
          /\ writes' = writes + 1
          /\ file' = [key |-> request[r].key, stamp |-> writes + 1]
          /\ request' = [request EXCEPT ![r].pc = "read"]
       \/ /\ request' = [request EXCEPT ![r] = Idle]
          /\ UNCHANGED <<file, writes>>
    /\ UNCHANGED <<clock, info, watcher, history, trials>>

HandleLicenseRemove(r) ==
    /\ request[r].pc = "idle"
    /\ file' = NoFile
    /\ request' = [request EXCEPT ![r].pc = "read"]
    /\ UNCHANGED <<clock, writes, info, watcher, history, trials>>

ReloadRead(r) ==
    /\ request[r].pc = "read"
    /\ request' = [request EXCEPT ![r].pc = "store", ![r].got = ValidateFile]
    /\ UNCHANGED <<clock, file, writes, info, watcher, history, trials>>
ReloadStore(r) ==
    /\ request[r].pc = "store"
    /\ info' = request[r].got
    /\ trials' = trials + (IF request[r].key.tier = "trial" /\ request[r].got # Free THEN 1 ELSE 0)
    /\ request' = [request EXCEPT ![r] =
         IF request[r].key = NoKey THEN Idle ELSE [@ EXCEPT !.pc = "history", !.got = Free]]
    /\ UNCHANGED <<clock, file, writes, watcher, history>>

\* The handler does not look at the error.
InsertLicenseHistory(r) ==
    /\ request[r].pc = "history"
    /\ \/ history' = history \cup {request[r].key.tier}
       \/ Faults /\ UNCHANGED history
    /\ request' = [request EXCEPT ![r] = Idle]
    /\ UNCHANGED <<clock, file, writes, info, watcher, trials>>

OperatorEdits ==
    /\ Edits
    /\ \/ \E k \in Keys :
            /\ writes < MaxWrites
            /\ writes' = writes + 1
            /\ file' = [key |-> k, stamp |-> writes + 1]
       \/ file' = NoFile /\ UNCHANGED writes
    /\ UNCHANGED <<clock, info, watcher, request, history, trials>>

Restart ==
    /\ Faults
    /\ info' = ValidateFile
    /\ watcher' = [pc |-> "start", last |-> 0, seen |-> 0, got |-> Free]
    /\ request' = [r \in Handlers |-> Idle]
    /\ UNCHANGED <<clock, file, writes, history, trials>>

Watch == Snapshot \/ Check \/ WatcherRead \/ WatcherStore
Handle(r) ==
    \/ HasTrialLicenseBeenUsed(r)
    \/ AtomicWriteFile(r)
    \/ ReloadRead(r)
    \/ ReloadStore(r)
    \/ InsertLicenseHistory(r)

Next ==
    \/ DayPasses
    \/ Snapshot
    \/ Check
    \/ WatcherRead
    \/ WatcherStore
    \/ \E r \in Handlers :
         \/ \E k \in Keys : HandleLicenseUpload(r, k)
         \/ HandleLicenseRemove(r)
         \/ Handle(r)
    \/ OperatorEdits
    \/ Restart

Spec == Init /\ [][Next]_vars

\* The ticker of the watcher keeps firing, and a request that has begun ends.
FairSpec == Spec /\ WF_vars(Watch) /\ \A r \in Handlers : WF_vars(Handle(r))

--------------------------------------------------------------------------------
\* The feature gates of the routes ask for the features of the license.
FeatureGate(f) == f \in info.features

Settled ==
    \/ info.key = file.key
    \/ info = Free /\ Expired(file.key)
Quiet == watcher.pc = "wait" /\ \A r \in Handlers : request[r].pc \in {"idle", "history"}

(***************************************************************************)
(* No key strips an installation of the features of its tier, whichever    *)
(* reload came last (MergeOverDefaults, LoadAndValidate).                  *)
(***************************************************************************)
TierIsEntitled == DefaultsForTier(info.key.tier) \subseteq info.features

(***************************************************************************)
(* With one request at a time, the watcher never takes a file for known    *)
(* whose key is not in force: if it sees no change, and no reload is under *)
(* way, memory agrees with the file (Watcher.check, LoadAndValidate, the   *)
(* upload and remove handlers).                                            *)
(***************************************************************************)
WatcherInStep == (Quiet /\ file # NoFile /\ watcher.last = file.stamp) => Settled

(***************************************************************************)
(* An installation uses one trial (handleLicenseUpload: Trial license can  *)
(* only be used once per installation).                                    *)
(***************************************************************************)
TrialOnce == trials <= 1

(***************************************************************************)
(* With one request at a time, memory keeps coming back to what the file   *)
(* says, however a request and a reload of the watcher interleave          *)
(* (Watcher.Start, Watcher.check).                                         *)
(***************************************************************************)
EventuallyLoaded == []<>(Settled \/ file = NoFile)

(***************************************************************************)
(* handleLicenseRemove deletes the license key file and reverts to free    *)
(* tier: once nothing runs, an installation without a file is free.        *)
(***************************************************************************)
RemoveReverts == (Quiet /\ watcher.last = file.stamp /\ file = NoFile) => info = Free

(***************************************************************************)
(* entitlements.go: trial keys have the entitlements of the paid tier but  *)
(* expire; an expired one is not in force for ever.                        *)
(***************************************************************************)
ExpiredKeyLapses == \A k \in Keys : (info.key = k /\ Expired(k)) ~> info.key # k

(***************************************************************************)
(* README: a new installation has its trial without a key, which unlocks   *)
(* all premium features from the first tenant (here at day 0).             *)
(***************************************************************************)
FreeTrialUnlocks == clock < TrialDays => \A f \in Features : FeatureGate(f)

================================================================================
