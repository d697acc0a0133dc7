------------------------------ MODULE SecretCache ------------------------------
(***************************************************************************)
(* CompositeResolver, which turns references to secrets into values for    *)
(* notifications and tickets.  A value is kept for a fixed time; several   *)
(* calls may miss it, ask the provider, and store what they got in any     *)
(* order.  One reference; its values are numbered as they are replaced.    *)
(***************************************************************************)
EXTENDS Integers

CONSTANTS
    SecretCalls,
    SecretTTL,      \* in ticks
    MaxSecretTime,
    MaxValues

ASSUME SecretCacheAssumption ==
    SecretTTL \in Nat \ {0} /\ MaxSecretTime \in Nat /\ MaxValues \in Nat \ {0}

VARIABLES
    secretClock,
    value,          \* value that the provider has now
    replacedAt,     \* time at which older values were replaced
    secretCache,
    secretCall

secretVars == <<secretClock, value, replacedAt, secretCache, secretCall>>

Empty == [value |-> 0, expiresAt |-> 0]

SecretInit ==
    /\ secretClock = 0
    /\ value = 1
    /\ replacedAt = [v \in 1 .. MaxValues |-> -1]
    /\ secretCache = Empty
    /\ secretCall = [c \in SecretCalls |-> [pc |-> "idle", now |-> 0, got |-> 0]]

\* The secret is rotated where it is kept.
Rotate ==
    /\ value < MaxValues
    /\ value' = value + 1
    /\ replacedAt' = [replacedAt EXCEPT ![value] = secretClock]
    /\ UNCHANGED <<secretClock, secretCache, secretCall>>

Resolve(c) ==
    /\ secretCall[c].pc \in {"idle", "done"}
    /\ secretCall' = [secretCall EXCEPT ![c] = [pc |-> "lookup", now |-> secretClock, got |-> 0]]
    /\ UNCHANGED <<secretClock, value, replacedAt, secretCache>>

LookupLoose(c) ==
    /\ secretCall[c].pc = "lookup"
    /\ secretCall' = [secretCall EXCEPT ![c] =
         IF secretCache.value # 0 /\ secretCall[c].now <= secretCache.expiresAt
         THEN [@ EXCEPT !.pc = "done", !.got = secretCache.value]
         ELSE [@ EXCEPT !.pc = "fetch"]]
    /\ UNCHANGED <<secretClock, value, replacedAt, secretCache>>
Lookup(c) ==
    /\ secretCall[c].pc = "lookup"
    /\ secretCall' = [secretCall EXCEPT ![c] =
         IF secretCall[c].now < secretCache.expiresAt
         THEN [@ EXCEPT !.pc = "done", !.got = secretCache.value]
         ELSE [@ EXCEPT !.pc = "fetch"]]
    /\ UNCHANGED <<secretClock, value, replacedAt, secretCache>>

\* The provider that matches the reference reads its environment, a file, or
\* asks a service; an error is the caller's, and is not kept.
ProviderResolve(c) ==
    /\ secretCall[c].pc = "fetch"
    /\ \/ secretCall' = [secretCall EXCEPT ![c].pc = "store", ![c].got = value]
       \/ secretCall' = [secretCall EXCEPT ![c].pc = "done", ![c].got = 0]
    /\ UNCHANGED <<secretClock, value, replacedAt, secretCache>>

\* The time is that of the call's beginning.
StoreLate(c) ==
    /\ secretCall[c].pc = "store"
    /\ secretCache' = [value |-> secretCall[c].got, expiresAt |-> secretClock + SecretTTL]
    /\ secretCall' = [secretCall EXCEPT ![c].pc = "done"]
    /\ UNCHANGED <<secretClock, value, replacedAt>>
Store(c) ==
    /\ secretCall[c].pc = "store"
    /\ secretCache' = [value |-> secretCall[c].got, expiresAt |-> secretCall[c].now + SecretTTL]
    /\ secretCall' = [secretCall EXCEPT ![c].pc = "done"]
    /\ UNCHANGED <<secretClock, value, replacedAt>>

SecretTick ==
    /\ secretClock < MaxSecretTime
    /\ secretClock' = secretClock + 1
    /\ UNCHANGED <<value, replacedAt, secretCache, secretCall>>

SecretNext ==
    \/ Rotate
    \/ SecretTick
    \/ \E c \in SecretCalls : Resolve(c) \/ Lookup(c) \/ ProviderResolve(c) \/ Store(c)

SecretSpec == SecretInit /\ [][SecretNext]_secretVars

-----------------------------------------------------------------------------
(* Types of the variables. *)
SecretTypeOK ==
    /\ secretClock \in Nat
    /\ value \in 1 .. MaxValues
    /\ replacedAt \in [1 .. MaxValues -> Int]
    /\ secretCache \in [value : 0 .. MaxValues, expiresAt : Int]
    /\ secretCall \in [SecretCalls -> [pc : {"idle", "lookup", "fetch", "store", "done"},
                                      now : Nat, got : 0 .. MaxValues]]

\* The provider still had value v at time t, or has it now.
HadAt(v, t) == replacedAt[v] = -1 \/ replacedAt[v] >= t

\* docs/runbooks/key-rotation.md: "After updating the underlying secret, allow
\* up to 5 minutes for the new value to take effect".  A call that begins the
\* lifetime or more after a value was replaced never gets that value, however
\* slow the providers of other calls were and in whatever order calls stored
\* what they got.
RotatedSecretIsGone ==
    \A c \in SecretCalls : secretCall[c].pc = "done" /\ secretCall[c].got # 0 =>
        HadAt(secretCall[c].got, secretCall[c].now - SecretTTL + 1)

\* What RotatedSecretIsGone rests on: a value is kept until a time by which it
\* was true less than the lifetime before, and so is one that is on its way
\* into the cache.
CacheIsRecent ==
    /\ secretCache.value # 0 => HadAt(secretCache.value, secretCache.expiresAt - SecretTTL)
    /\ secretCache.value = 0 => secretCache.expiresAt <= 0
    /\ \A c \in SecretCalls : secretCall[c].pc = "store" =>
         secretCall[c].got # 0 /\ HadAt(secretCall[c].got, secretCall[c].now)

\* A secret that was replaced is not used by a call that begins the lifetime
\* of the cache or more later, however slow providers are and in whatever
\* order calls store what they got (CompositeResolver.Resolve).
SecretsAreCurrent == RotatedSecretIsGone /\ CacheIsRecent
=============================================================================
