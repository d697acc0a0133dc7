-------------------------- MODULE Credentials_proofs --------------------------
(***************************************************************************)
(* CredentialsAreCurrent, for any number of calls, tools, lifetimes and    *)
(* rotations.                                                              *)
(***************************************************************************)
EXTENDS Credentials, TLAPS

\* The provers that try a leaf which names none, and their time.
USE SMTT(15), ZenonT(30)

USE SecretCacheAssumption, OAuthTokensAssumption

-----------------------------------------------------------------------------
(* Secrets.  RotatedSecretIsGone and CacheIsRecent are not inductive by      *)
(* themselves: a rotation marks the present value as replaced now, which is  *)
(* late enough for every call and for the cache only if none of them is      *)
(* ahead of the clock, and a fetch brings a true value only if the present   *)
(* one is not yet marked.                                                    *)


\* No call and no entry is ahead of the clock, by more than the lifetime.
NotAhead ==
    /\ secretCache.expiresAt - SecretTTL <= secretClock
    /\ \A c \in SecretCalls : secretCall[c].now <= secretClock

\* The present value and those to come are not marked as replaced.
NotReplaced == \A v \in value .. MaxValues : replacedAt[v] = -1

SecretInv == SecretTypeOK /\ NotAhead /\ NotReplaced /\ CacheIsRecent /\ RotatedSecretIsGone

\* A value that was there at some time was there at all times before.
LEMMA HadBefore ==
    ASSUME SecretTypeOK, NEW v \in 1 .. MaxValues, NEW t \in Int, NEW u \in Int, u <= t, HadAt(v, t)
    PROVE  HadAt(v, u)
  BY DEF SecretTypeOK, HadAt

LEMMA InitSecretInv == SecretInit => SecretInv
  BY DEF SecretInit, SecretInv, SecretTypeOK, NotAhead, NotReplaced, CacheIsRecent,
      RotatedSecretIsGone, Empty, HadAt

\* Rotate: what is replaced now was there until now.
LEMMA RotateSecretInv == ASSUME SecretInv, Rotate PROVE SecretInv'
<1> USE DEF SecretInv, Rotate, SecretTypeOK
<1>1. SecretTypeOK'
    OBVIOUS
<1>2. NotAhead'
    BY DEF NotAhead
<1>3. NotReplaced'
    BY DEF NotReplaced
<1>4. \A v \in 1 .. MaxValues, t \in Int : t <= secretClock /\ HadAt(v, t) => HadAt(v, t)'
    BY DEF HadAt
<1>5. CacheIsRecent'
  <2>1. secretCache.value # 0 => HadAt(secretCache.value, secretCache.expiresAt - SecretTTL)'
    <3> SUFFICES ASSUME secretCache.value # 0 PROVE HadAt(secretCache.value, secretCache.expiresAt - SecretTTL)'
        OBVIOUS
    <3>1. /\ secretCache.value \in 1 .. MaxValues
          /\ secretCache.expiresAt - SecretTTL \in Int
          /\ secretCache.expiresAt - SecretTTL <= secretClock
        BY DEF NotAhead
    <3>2. HadAt(secretCache.value, secretCache.expiresAt - SecretTTL)
        BY DEF CacheIsRecent
    <3> QED BY <3>1, <3>2, <1>4
  <2>2. \A c \in SecretCalls : secretCall[c].pc = "store" => HadAt(secretCall[c].got, secretCall[c].now)'
    <3> SUFFICES ASSUME NEW c \in SecretCalls, secretCall[c].pc = "store" PROVE HadAt(secretCall[c].got, secretCall[c].now)'
        OBVIOUS
    <3>1. secretCall[c].got \in 1 .. MaxValues /\ secretCall[c].now \in Int /\ secretCall[c].now <= secretClock
        BY DEF CacheIsRecent, NotAhead
    <3> QED BY <3>1, <1>4 DEF CacheIsRecent
  <2> QED BY <2>1, <2>2 DEF CacheIsRecent, HadAt
<1>6. RotatedSecretIsGone'
  <2> SUFFICES ASSUME NEW c \in SecretCalls, secretCall[c].pc = "done", secretCall[c].got # 0
               PROVE  HadAt(secretCall[c].got, secretCall[c].now - SecretTTL + 1)'
      BY SMTT(30) DEF RotatedSecretIsGone, HadAt
  <2>1. secretCall[c].got \in 0 .. MaxValues /\ secretCall[c].now \in Nat /\ secretClock \in Nat /\ secretCall' = secretCall
      OBVIOUS
  <2>2. secretCall[c].now <= secretClock
      BY DEF NotAhead
  <2> HIDE DEF SecretInv, Rotate, SecretTypeOK
  <2>3. /\ secretCall[c].got \in 1 .. MaxValues
        /\ secretCall[c].now - SecretTTL + 1 \in Int
        /\ secretCall[c].now - SecretTTL + 1 <= secretClock
      BY <2>1, <2>2
  <2>4. HadAt(secretCall[c].got, secretCall[c].now - SecretTTL + 1)
      BY DEF RotatedSecretIsGone, SecretInv
  <2>5. (HadAt(secretCall[c].got, secretCall[c].now - SecretTTL + 1))'
      BY <2>1, <2>3, <2>4, <1>4 DEF HadAt
  <2> QED BY <2>5
<1> QED BY <1>1, <1>2, <1>3, <1>5, <1>6

\* Steps of a call that leave the cache alone keep the invariant if the
\* call itself stays as the invariant wants it.
LEMMA CallOnly ==
    ASSUME NEW c \in SecretCalls, SecretInv,
           NEW r \in [pc : {"idle", "lookup", "fetch", "store", "done"}, now : Nat, got : 0 .. MaxValues],
           secretCall' = [secretCall EXCEPT ![c] = r],
           UNCHANGED <<secretClock, value, replacedAt, secretCache>>,
           r.now <= secretClock,
           r.pc = "store" => r.got # 0 /\ HadAt(r.got, r.now),
           r.pc = "done" /\ r.got # 0 => HadAt(r.got, r.now - SecretTTL + 1)
    PROVE  SecretInv'
<1>1. secretCall'[c] = r /\ \A d \in SecretCalls : d # c => secretCall'[d] = secretCall[d]
    BY DEF SecretInv, SecretTypeOK
<1>2. SecretTypeOK'
    BY DEF SecretInv, SecretTypeOK
<1>3. NotAhead' /\ NotReplaced'
    BY <1>1 DEF SecretInv, NotAhead, NotReplaced
<1>4. CacheIsRecent'
    BY <1>1 DEF SecretInv, CacheIsRecent, HadAt
<1>5. RotatedSecretIsGone'
    BY <1>1 DEF SecretInv, RotatedSecretIsGone, HadAt
<1> QED BY <1>2, <1>3, <1>4, <1>5 DEF SecretInv

LEMMA ResolveSecretInv ==
    ASSUME NEW c \in SecretCalls, SecretInv, Resolve(c) PROVE SecretInv'
<1> DEFINE r == [pc |-> "lookup", now |-> secretClock, got |-> 0]
<1>1. r \in [pc : {"idle", "lookup", "fetch", "store", "done"}, now : Nat, got : 0 .. MaxValues]
    BY DEF SecretInv, SecretTypeOK
<1>2. r.now <= secretClock /\ r.pc = "lookup"
    BY DEF SecretInv, SecretTypeOK
<1> HIDE DEF r
<1> QED BY <1>1, <1>2, CallOnly, ZenonT(30) DEF Resolve, r

\* Lookup: the call is earlier than the time until which the value is kept.
LEMMA LookupSecretInv ==
    ASSUME NEW c \in SecretCalls, SecretInv, Lookup(c) PROVE SecretInv'
<1>1. CASE secretCall[c].now < secretCache.expiresAt
  <2> DEFINE r == [secretCall[c] EXCEPT !.pc = "done", !.got = secretCache.value]
  <2>1. /\ r \in [pc : {"idle", "lookup", "fetch", "store", "done"}, now : Nat, got : 0 .. MaxValues]
        /\ r.now = secretCall[c].now /\ r.pc = "done" /\ r.got = secretCache.value
      BY ZenonT(30) DEF SecretInv, SecretTypeOK
  <2>2. secretCache.value # 0 => HadAt(secretCache.value, secretCall[c].now - SecretTTL + 1)
    <3> SUFFICES ASSUME secretCache.value # 0 PROVE HadAt(secretCache.value, secretCall[c].now - SecretTTL + 1)
        OBVIOUS
    <3>1. /\ secretCache.value \in 1 .. MaxValues
          /\ secretCache.expiresAt - SecretTTL \in Int
          /\ secretCall[c].now - SecretTTL + 1 \in Int
          /\ secretCall[c].now - SecretTTL + 1 <= secretCache.expiresAt - SecretTTL
        BY <1>1 DEF SecretInv, SecretTypeOK
    <3>2. HadAt(secretCache.value, secretCache.expiresAt - SecretTTL) /\ SecretTypeOK
        BY DEF SecretInv, CacheIsRecent
    <3> QED BY <3>1, <3>2, HadBefore
  <2>3. r.now <= secretClock
      BY <2>1 DEF SecretInv, NotAhead
  <2>4. secretCall' = [secretCall EXCEPT ![c] = r] /\ UNCHANGED <<secretClock, value, replacedAt, secretCache>>
      BY <1>1 DEF Lookup
  <2> HIDE DEF r
  <2> QED BY <2>1, <2>2, <2>3, <2>4, CallOnly, ZenonT(30)
<1>2. CASE ~(secretCall[c].now < secretCache.expiresAt)
  <2> DEFINE r == [secretCall[c] EXCEPT !.pc = "fetch"]
  <2>1. /\ r \in [pc : {"idle", "lookup", "fetch", "store", "done"}, now : Nat, got : 0 .. MaxValues]
        /\ r.now = secretCall[c].now /\ r.pc = "fetch"
      BY ZenonT(30) DEF SecretInv, SecretTypeOK
  <2>3. r.now <= secretClock
      BY <2>1 DEF SecretInv, NotAhead
  <2>4. secretCall' = [secretCall EXCEPT ![c] = r] /\ UNCHANGED <<secretClock, value, replacedAt, secretCache>>
      BY <1>2 DEF Lookup
  <2> HIDE DEF r
  <2> QED BY <2>1, <2>3, <2>4, CallOnly, ZenonT(30)
<1> QED BY <1>1, <1>2

\* ProviderResolve: what the provider has now was not replaced.
LEMMA ProviderSecretInv ==
    ASSUME NEW c \in SecretCalls, SecretInv, ProviderResolve(c) PROVE SecretInv'
<1> DEFINE r == [secretCall[c] EXCEPT !.pc = "store", !.got = value]
           e == [secretCall[c] EXCEPT !.pc = "done", !.got = 0]
<1>0. /\ secretCall[c] \in [pc : {"idle", "lookup", "fetch", "store", "done"}, now : Nat, got : 0 .. MaxValues]
      /\ value \in 0 .. MaxValues /\ 0 \in 0 .. MaxValues
    BY DEF SecretInv, SecretTypeOK
<1>1. /\ r \in [pc : {"idle", "lookup", "fetch", "store", "done"}, now : Nat, got : 0 .. MaxValues]
      /\ r.now = secretCall[c].now /\ r.pc = "store" /\ r.got = value
    BY <1>0, ZenonT(30)
<1>2. /\ e \in [pc : {"idle", "lookup", "fetch", "store", "done"}, now : Nat, got : 0 .. MaxValues]
      /\ e.now = secretCall[c].now /\ e.pc = "done" /\ e.got = 0
    BY <1>0, ZenonT(30)
<1>3. secretCall[c].now <= secretClock
    BY DEF SecretInv, NotAhead
<1>4. value # 0 /\ HadAt(value, secretCall[c].now)
    BY DEF SecretInv, SecretTypeOK, NotReplaced, HadAt
<1>5. secretCall' = [secretCall EXCEPT ![c] = r] \/ secretCall' = [secretCall EXCEPT ![c] = e]
    BY ZenonT(30) DEF ProviderResolve, SecretInv, SecretTypeOK
<1>6. UNCHANGED <<secretClock, value, replacedAt, secretCache>>
    BY DEF ProviderResolve
<1> HIDE DEF r, e
<1>7. CASE secretCall' = [secretCall EXCEPT ![c] = r]
    BY <1>1, <1>3, <1>4, <1>6, <1>7, CallOnly, ZenonT(30)
<1>8. CASE secretCall' = [secretCall EXCEPT ![c] = e]
    BY <1>2, <1>3, <1>6, <1>8, CallOnly, ZenonT(30)
<1> QED BY <1>5, <1>7, <1>8

\* Store: the entry is as recent as the call.
LEMMA StoreSecretInv ==
    ASSUME NEW c \in SecretCalls, SecretInv, Store(c) PROVE SecretInv'
<1>1. /\ secretCall[c].got \in 1 .. MaxValues /\ HadAt(secretCall[c].got, secretCall[c].now)
      /\ secretCall[c].now \in Nat /\ secretCall[c].now <= secretClock
    BY DEF Store, SecretInv, SecretTypeOK, CacheIsRecent, NotAhead
<1>2. secretCache'.expiresAt - SecretTTL = secretCall[c].now /\ secretCache'.value = secretCall[c].got
    BY <1>1 DEF Store
<1>3. /\ secretCall'[c].pc = "done" /\ secretCall'[c].now = secretCall[c].now /\ secretCall'[c].got = secretCall[c].got
      /\ \A d \in SecretCalls : d # c => secretCall'[d] = secretCall[d]
    BY DEF Store, SecretInv, SecretTypeOK
<1>4. SecretTypeOK'
  <2>1. secretCache' \in [value : 0 .. MaxValues, expiresAt : Int]
      BY <1>1 DEF Store
  <2>2. secretCall' \in [SecretCalls -> [pc : {"idle", "lookup", "fetch", "store", "done"}, now : Nat, got : 0 .. MaxValues]]
      BY ZenonT(30) DEF Store, SecretInv, SecretTypeOK
  <2> QED BY ZenonT(30), <2>1, <2>2 DEF Store, SecretInv, SecretTypeOK
<1>5. NotAhead' /\ NotReplaced'
    BY <1>1, <1>2, <1>3 DEF Store, SecretInv, NotAhead, NotReplaced
<1>6. CacheIsRecent'
    BY <1>1, <1>2, <1>3 DEF Store, SecretInv, CacheIsRecent, HadAt
<1>7. HadAt(secretCall[c].got, secretCall[c].now - SecretTTL + 1)
    BY <1>1, HadBefore DEF SecretInv
<1>8. RotatedSecretIsGone'
    BY <1>3, <1>7 DEF Store, SecretInv, RotatedSecretIsGone, HadAt
<1> QED BY <1>4, <1>5, <1>6, <1>8 DEF SecretInv

LEMMA NextSecretInv == SecretInv /\ [SecretNext]_secretVars => SecretInv'
<1> SUFFICES ASSUME SecretInv, [SecretNext]_secretVars PROVE SecretInv'
    OBVIOUS
<1>1. CASE Rotate
    BY <1>1, RotateSecretInv
<1>2. CASE SecretTick
    BY <1>2
    DEF SecretTick, SecretInv, SecretTypeOK, NotAhead, NotReplaced, CacheIsRecent,
        RotatedSecretIsGone, HadAt
<1>3. CASE \E c \in SecretCalls : Resolve(c) \/ Lookup(c) \/ ProviderResolve(c) \/ Store(c)
    BY <1>3, ResolveSecretInv, LookupSecretInv, ProviderSecretInv, StoreSecretInv
<1>4. CASE UNCHANGED secretVars
    BY <1>4
    DEF secretVars, SecretInv, SecretTypeOK, NotAhead, NotReplaced, CacheIsRecent,
        RotatedSecretIsGone, HadAt
<1> QED BY <1>1, <1>2, <1>3, <1>4 DEF SecretNext

\* CompositeResolver.Resolve: a call that begins a lifetime or more after a
\* secret was replaced does not get the old value, and what the cache holds was
\* true at most a lifetime before the time until which it is kept, whatever the
\* number of calls, their speed and the order in which they fill the cache.
THEOREM SecretsCurrent == SecretSpec => []SecretsAreCurrent
<1>1. SecretInv => SecretsAreCurrent
    BY DEF SecretInv, SecretsAreCurrent
<1> QED BY InitSecretInv, NextSecretInv, <1>1, PTL DEF SecretSpec

-----------------------------------------------------------------------------
(* Tokens.  One call at a time fetches, since it has the write lock, and its *)
(* fetch takes no longer than the time limit.  The latest token that was     *)
(* kept is the cached one; a fetch begins when that is about to expire, and  *)
(* every token kept before it was about to expire when it was asked for.     *)

Fetching == {"ask", "receive"}
TokenCallRecords ==
    [pc : Fetching \cup {"idle", "read", "lock", "done"}, tool : OAuthTools \cup {NoCall},
     got : Nat, cached : BOOLEAN, start : Nat]
ScopesOfTools == {ScopeOf(t) : t \in OAuthTools \cup {NoCall}}
IssuedTokens ==
    [at : Nat, life : Nat, kept : SUBSET Nat, scope : ScopesOfTools, asked : Nat]

OAuthTypes ==
    /\ tokenClock \in Nat
    /\ tokenCache \in [token : 0 .. Len(issued), expiresAt : Nat]
    /\ writer \in TokenCalls \cup {NoCall}
    /\ issued \in Seq(IssuedTokens)
    /\ tokenCall \in [TokenCalls -> TokenCallRecords]

\* A call that fetches has the lock, is within its time, and began it when
\* every token that was kept was about to expire.  Its token, once issued, is
\* the last one and is not kept yet.
FetchOK(c) ==
    LET x == tokenCall[c] IN
    x.pc \in Fetching =>
        /\ writer = c
        /\ x.start <= tokenClock /\ tokenClock <= x.start + Timeout
        /\ \A i \in DOMAIN issued : \A end \in issued[i].kept : x.start >= end - Buffer
        /\ x.pc = "receive" =>
             /\ x.got = Len(issued) /\ x.got > 0
             /\ x.start <= issued[x.got].at
             /\ issued[x.got].kept = {}

\* A call that got a token from the cache has one that is live.
ReturnOK(c) ==
    LET x == tokenCall[c] IN
    x.pc = "done" /\ x.cached =>
        /\ x.got \in 1 .. Len(issued)
        /\ issued[x.got].life = 0 \/ tokenClock < issued[x.got].at + issued[x.got].life

\* The cache holds the latest token that was kept, not much longer than it is
\* good for.
CacheOK ==
    /\ \A i \in DOMAIN issued :
         /\ issued[i].asked <= tokenClock
         /\ \A end \in issued[i].kept :
              /\ i <= tokenCache.token
              /\ i = tokenCache.token => end = tokenCache.expiresAt
    /\ tokenCache.token # 0 =>
         \/ issued[tokenCache.token].life = 0
         \/ tokenCache.expiresAt <=
              issued[tokenCache.token].at + issued[tokenCache.token].life + Timeout

OAuthInv ==
    /\ OAuthTypes
    /\ \A c \in TokenCalls : FetchOK(c) /\ ReturnOK(c)
    /\ CacheOK
    /\ NoNeedlessFetch

LEMMA InitOAuthInv == OAuthInit => OAuthInv
<1> SUFFICES ASSUME OAuthInit PROVE OAuthInv
    OBVIOUS
<1>1. issued \in Seq(IssuedTokens) /\ Len(issued) = 0 /\ DOMAIN issued = {}
    BY DEF OAuthInit
<1>2. OAuthTypes
    BY <1>1 DEF OAuthInit, OAuthTypes, NoToken, CallAt, TokenCallRecords
<1>3. CacheOK /\ NoNeedlessFetch
    BY <1>1 DEF OAuthInit, CacheOK, NoNeedlessFetch, NoToken
<1>4. \A c \in TokenCalls : FetchOK(c) /\ ReturnOK(c)
    BY ZenonT(30) DEF OAuthInit, FetchOK, ReturnOK, CallAt, Fetching
<1> QED BY <1>2, <1>3, <1>4 DEF OAuthInv

\* A step of a call that leaves the tokens and the cache alone keeps the
\* invariant if the call itself stays as the invariant wants it, and the lock
\* is not taken from a call that fetches.
LEMMA OneTokenCall ==
    ASSUME OAuthInv, NEW c \in TokenCalls, NEW r \in TokenCallRecords,
           tokenCall' = [tokenCall EXCEPT ![c] = r],
           UNCHANGED <<tokenClock, tokenCache, issued>>,
           writer' \in TokenCalls \cup {NoCall},
           \A d \in TokenCalls \ {c} : tokenCall[d].pc \in Fetching => writer' = d,
           FetchOK(c)', ReturnOK(c)'
    PROVE  OAuthInv'
<1>1. OAuthTypes'
    BY DEF OAuthInv, OAuthTypes
<1>2. ASSUME NEW d \in TokenCalls, d # c PROVE FetchOK(d)' /\ ReturnOK(d)'
  <2>1. tokenCall'[d] = tokenCall[d]
      BY <1>2 DEF OAuthInv, OAuthTypes
  <2>2. FetchOK(d) /\ ReturnOK(d)
      BY DEF OAuthInv
  <2> QED BY <1>2, <2>1, <2>2, Zenon DEF FetchOK, ReturnOK
<1>3. CacheOK' /\ NoNeedlessFetch'
    BY DEF OAuthInv, CacheOK, NoNeedlessFetch
<1> QED BY <1>1, <1>2, <1>3 DEF OAuthInv

\* A token that is fresh enough is live at its server.
LEMMA FreshIsLive ==
    ASSUME OAuthInv, FreshEnough
    PROVE  /\ tokenCache.token \in 1 .. Len(issued)
           /\ \/ issued[tokenCache.token].life = 0
              \/ tokenClock < issued[tokenCache.token].at + issued[tokenCache.token].life
<1>1. tokenCache.token \in 1 .. Len(issued)
    BY DEF OAuthInv, OAuthTypes, FreshEnough
<1>2. issued[tokenCache.token] \in IssuedTokens
    BY <1>1 DEF OAuthInv, OAuthTypes
<1>3. issued[tokenCache.token].at \in Nat /\ issued[tokenCache.token].life \in Nat
    BY <1>2 DEF IssuedTokens
<1> QED BY <1>1, <1>3 DEF OAuthInv, OAuthTypes, CacheOK, FreshEnough

LEMMA GetTokenInv ==
    ASSUME OAuthInv, NEW c \in TokenCalls, NEW t \in OAuthTools, GetToken(c, t) PROVE OAuthInv'
<1>1. CallAt("read", t) \in TokenCallRecords
    BY DEF CallAt, TokenCallRecords
<1>2. tokenCall'[c] = CallAt("read", t)
    BY DEF GetToken, OAuthInv, OAuthTypes
<1>3. FetchOK(c)' /\ ReturnOK(c)'
    BY <1>2 DEF FetchOK, ReturnOK, CallAt, Fetching
<1>4. writer \in TokenCalls \cup {NoCall} /\ \A d \in TokenCalls : tokenCall[d].pc \in Fetching => writer = d
    BY DEF OAuthInv, OAuthTypes, FetchOK
<1> QED BY ZenonT(30), <1>1, <1>3, <1>4, OneTokenCall DEF GetToken

\* A call that finds a token fresh enough returns it.
LEMMA ReturnInv ==
    ASSUME OAuthInv, NEW c \in TokenCalls, FreshEnough,
           ReturnToken(c, tokenCache.token, TRUE),
           UNCHANGED <<tokenClock, tokenCache, writer, issued>>
    PROVE  OAuthInv'
<1> DEFINE r == [tokenCall[c] EXCEPT !.pc = "done", !.got = tokenCache.token, !.cached = TRUE]
<1>1. tokenCall[c] \in TokenCallRecords /\ tokenCache.token \in Nat
    BY DEF OAuthInv, OAuthTypes
<1>2. r \in TokenCallRecords /\ r.pc = "done" /\ r.got = tokenCache.token
    BY ZenonT(30), <1>1 DEF TokenCallRecords
<1>3. tokenCall' = [tokenCall EXCEPT ![c] = r] /\ tokenCall'[c] = r
    BY ZenonT(30) DEF ReturnToken, OAuthInv, OAuthTypes
<1> HIDE DEF r
<1>4. FetchOK(c)' /\ ReturnOK(c)'
    BY <1>2, <1>3, FreshIsLive DEF FetchOK, ReturnOK, Fetching
<1>5. writer \in TokenCalls \cup {NoCall} /\ \A d \in TokenCalls : tokenCall[d].pc \in Fetching => writer = d
    BY DEF OAuthInv, OAuthTypes, FetchOK
<1> QED BY ZenonT(30), <1>2, <1>3, <1>4, <1>5, OneTokenCall

LEMMA ReadCacheInv ==
    ASSUME OAuthInv, NEW c \in TokenCalls, ReadCache(c) PROVE OAuthInv'
<1>1. CASE FreshEnough
    BY ZenonT(30), <1>1, ReturnInv DEF ReadCache
<1>2. CASE ~FreshEnough
  <2> DEFINE r == [tokenCall[c] EXCEPT !.pc = "lock"]
  <2>1. tokenCall[c] \in TokenCallRecords
      BY DEF OAuthInv, OAuthTypes
  <2>2. r \in TokenCallRecords /\ r.pc = "lock"
      BY <2>1 DEF TokenCallRecords
  <2>3. tokenCall' = [tokenCall EXCEPT ![c] = r] /\ tokenCall'[c] = r
      BY <1>2 DEF ReadCache, OAuthInv, OAuthTypes
  <2> HIDE DEF r
  <2>4. FetchOK(c)' /\ ReturnOK(c)'
      BY <2>2, <2>3 DEF FetchOK, ReturnOK, Fetching
  <2>5. writer \in TokenCalls \cup {NoCall} /\ \A d \in TokenCalls : tokenCall[d].pc \in Fetching => writer = d
      BY DEF OAuthInv, OAuthTypes, FetchOK
  <2> QED BY ZenonT(30), <2>2, <2>3, <2>4, <2>5, OneTokenCall DEF ReadCache
<1> QED BY <1>1, <1>2

\* LockAndFetch: when the cached token is about to expire, so is every other.
LEMMA AllAboutToExpire ==
    ASSUME OAuthInv, ~FreshEnough, NEW i \in DOMAIN issued, NEW end \in issued[i].kept
    PROVE  tokenClock >= end - Buffer
<1>1. issued \in Seq(IssuedTokens) /\ tokenCache \in [token : 0 .. Len(issued), expiresAt : Nat] /\ tokenClock \in Nat
    BY DEF OAuthInv, OAuthTypes
<1>2. i \in 1 .. Len(issued) /\ i \in Nat /\ tokenCache.token \in Nat /\ tokenCache.expiresAt \in Nat
    BY <1>1
<1>3. issued[i] \in IssuedTokens
    BY <1>1, <1>2
<1>4. end \in Nat
    BY <1>3 DEF IssuedTokens
<1>5. i <= tokenCache.token /\ (i = tokenCache.token => end = tokenCache.expiresAt)
    BY DEF OAuthInv, CacheOK
<1>6. CASE i = tokenCache.token
    BY <1>1, <1>2, <1>4, <1>5, <1>6 DEF FreshEnough
<1>7. CASE i < tokenCache.token
  <2>1. tokenCache.token \in DOMAIN issued
      BY <1>1, <1>2, <1>7
  <2>2. issued[tokenCache.token] \in IssuedTokens
      BY <1>1, <2>1
  <2>3. issued[tokenCache.token].asked \in Nat
      BY <2>2 DEF IssuedTokens
  <2>4. issued[tokenCache.token].asked >= end - Buffer /\ issued[tokenCache.token].asked <= tokenClock
      BY <1>7, <2>1 DEF OAuthInv, NoNeedlessFetch, CacheOK
  <2> QED BY <1>1, <1>4, <2>3, <2>4
<1> QED BY <1>2, <1>5, <1>6, <1>7

LEMMA LockAndFetchInv ==
    ASSUME OAuthInv, NEW c \in TokenCalls, LockAndFetch(c) PROVE OAuthInv'
<1>1. CASE FreshEnough
    BY ZenonT(30), <1>1, ReturnInv DEF LockAndFetch
<1>2. CASE ~FreshEnough
  <2> DEFINE r == [tokenCall[c] EXCEPT !.pc = "ask", !.start = tokenClock]
  <2>1. tokenCall[c] \in TokenCallRecords /\ tokenClock \in Nat
      BY DEF OAuthInv, OAuthTypes
  <2>2. r \in TokenCallRecords /\ r.pc = "ask" /\ r.start = tokenClock
      BY ZenonT(30), <2>1 DEF TokenCallRecords, Fetching
  <2>3. tokenCall' = [tokenCall EXCEPT ![c] = r] /\ tokenCall'[c] = r /\ writer' = c
      BY ZenonT(30), <1>2 DEF LockAndFetch, OAuthInv, OAuthTypes
  <2>4. UNCHANGED <<tokenClock, tokenCache, issued>> /\ writer = NoCall
      BY DEF LockAndFetch
  <2> HIDE DEF r
  <2>5. \A i \in DOMAIN issued : \A end \in issued[i].kept : tokenClock >= end - Buffer
      BY <1>2, AllAboutToExpire
  <2>6. FetchOK(c)' /\ ReturnOK(c)'
      BY <2>1, <2>2, <2>3, <2>4, <2>5 DEF FetchOK, ReturnOK
  <2>7. \A d \in TokenCalls : tokenCall[d].pc \notin Fetching
      BY <2>4 DEF OAuthInv, FetchOK
  <2> QED BY ZenonT(30), <2>2, <2>3, <2>4, <2>6, <2>7, OneTokenCall
<1> QED BY <1>1, <1>2

LEMMA FetchFailsInv ==
    ASSUME OAuthInv, NEW c \in TokenCalls, FetchFails(c) PROVE OAuthInv'
<1> DEFINE r == [tokenCall[c] EXCEPT !.pc = "done", !.got = 0, !.cached = FALSE]
<1>1. tokenCall[c] \in TokenCallRecords
    BY DEF OAuthInv, OAuthTypes
<1>2. r \in TokenCallRecords /\ r.pc = "done" /\ r.cached = FALSE
    BY ZenonT(30), <1>1 DEF TokenCallRecords
<1>3. tokenCall' = [tokenCall EXCEPT ![c] = r] /\ tokenCall'[c] = r
    BY ZenonT(30) DEF FetchFails, ReturnToken, OAuthInv, OAuthTypes
<1> HIDE DEF r
<1>4. FetchOK(c)' /\ ReturnOK(c)'
    BY <1>2, <1>3 DEF FetchOK, ReturnOK, Fetching
<1>5. \A d \in TokenCalls \ {c} : tokenCall[d].pc \notin Fetching
    BY DEF OAuthInv, FetchOK, FetchFails, Fetching
<1> QED BY ZenonT(30), <1>2, <1>3, <1>4, <1>5, OneTokenCall DEF FetchFails

\* Issue: the token is the last one, and its call the only one that fetches.
LEMMA IssueInv ==
    ASSUME OAuthInv, NEW c \in TokenCalls, Issue(c) PROVE OAuthInv'
<1>1. PICK life \in Lives :
          issued' = Append(issued, [at |-> tokenClock, life |-> life, kept |-> {},
                                    scope |-> ScopeOf(tokenCall[c].tool),
                                    asked |-> tokenCall[c].start])
    BY ZenonT(30) DEF Issue
<1> DEFINE t == [at |-> tokenClock, life |-> life, kept |-> {},
                 scope |-> ScopeOf(tokenCall[c].tool), asked |-> tokenCall[c].start]
           r == [tokenCall[c] EXCEPT !.pc = "receive", !.got = Len(issued) + 1]
           n == Len(issued) + 1
<1>2. tokenCall[c] \in TokenCallRecords /\ tokenClock \in Nat /\ issued \in Seq(IssuedTokens)
    BY DEF OAuthInv, OAuthTypes
<1>3. ScopeOf(tokenCall[c].tool) \in ScopesOfTools
    BY <1>2 DEF ScopesOfTools, TokenCallRecords
<1>4. t \in IssuedTokens /\ t.kept = {} /\ t.at = tokenClock /\ t.asked = tokenCall[c].start
    BY <1>2, <1>3 DEF IssuedTokens, TokenCallRecords
<1>5. n \in Nat \ {0}
    BY <1>2
<1>6. r \in TokenCallRecords /\ r.pc = "receive" /\ r.got = n /\ r.start = tokenCall[c].start
    BY ZenonT(30), <1>2, <1>5 DEF TokenCallRecords, Fetching
<1>7. tokenCall' = [tokenCall EXCEPT ![c] = r] /\ tokenCall'[c] = r
    BY ZenonT(30) DEF Issue, OAuthInv, OAuthTypes
<1>8. UNCHANGED <<tokenClock, tokenCache, writer>> /\ tokenCall[c].pc \in Fetching
    BY DEF Issue, Fetching
<1>9. issued' = Append(issued, t)
    BY <1>1
<1> HIDE DEF t, r
<1>10. /\ issued' \in Seq(IssuedTokens) /\ Len(issued') = n /\ DOMAIN issued' = 1 .. n
       /\ \A i \in DOMAIN issued : i \in 1 .. n /\ i # n /\ issued'[i] = issued[i]
       /\ \A i \in DOMAIN issued' : i = n \/ i \in DOMAIN issued
       /\ issued'[n] = t
    BY <1>2, <1>4, <1>9
<1>11. FetchOK(c) /\ CacheOK /\ NoNeedlessFetch /\ \A d \in TokenCalls : FetchOK(d) /\ ReturnOK(d)
    BY DEF OAuthInv
<1>12. OAuthTypes'
    BY <1>2, <1>5, <1>6, <1>7, <1>8, <1>10 DEF OAuthInv, OAuthTypes
<1>13. FetchOK(c)'
  <2>1. tokenCall[c].start <= tokenClock /\ tokenClock <= tokenCall[c].start + Timeout /\ writer = c
      BY <1>8, <1>11 DEF FetchOK
  <2>2. \A i \in DOMAIN issued : \A end \in issued[i].kept : tokenCall[c].start >= end - Buffer
      BY <1>8, <1>11 DEF FetchOK
  <2>3. \A i \in DOMAIN issued' : \A end \in issued'[i].kept : tokenCall[c].start >= end - Buffer
      BY <1>4, <1>10, <2>2
  <2> HIDE DEF n
  <2> QED BY <1>4, <1>5, <1>6, <1>7, <1>8, <1>10, <2>1, <2>3 DEF FetchOK
<1>14. ReturnOK(c)'
    BY <1>6, <1>7 DEF ReturnOK
<1>15. ASSUME NEW d \in TokenCalls, d # c PROVE FetchOK(d)' /\ ReturnOK(d)'
  <2>1. tokenCall'[d] = tokenCall[d] /\ tokenCall[d].pc \notin Fetching
      BY <1>7, <1>8, <1>11, <1>15, Zenon DEF OAuthInv, OAuthTypes, FetchOK
  <2>2. tokenCall[d].pc = "done" /\ tokenCall[d].cached => tokenCall[d].got \in DOMAIN issued
      BY <1>2, <1>11 DEF ReturnOK
  <2> HIDE DEF n
  <2> QED BY <1>8, <1>10, <1>11, <2>1, <2>2, ZenonT(30) DEF FetchOK, ReturnOK
<1>16. CacheOK'
  <2>1. tokenCall[c].start <= tokenClock
      BY <1>8, <1>11 DEF FetchOK
  <2>2. tokenCache.token # 0 => tokenCache.token \in DOMAIN issued
      BY <1>2 DEF OAuthInv, OAuthTypes
  <2> HIDE DEF n
  <2> QED BY <1>4, <1>8, <1>10, <1>11, <2>1, <2>2 DEF CacheOK
<1>17. NoNeedlessFetch'
  <2>1. \A i \in DOMAIN issued : \A end \in issued[i].kept : tokenCall[c].start >= end - Buffer
      BY <1>8, <1>11 DEF FetchOK
  <2>2. ASSUME NEW i \in DOMAIN issued', NEW j \in DOMAIN issued', i < j, NEW end \in issued'[i].kept
        PROVE  issued'[j].asked >= end - Buffer
    <3>1. i \in DOMAIN issued /\ issued'[i] = issued[i]
        BY <1>4, <1>10, <2>2
    <3>2. CASE j = n
        BY <1>4, <1>10, <2>1, <2>2, <3>1, <3>2
    <3>3. CASE j \in DOMAIN issued
        BY <1>10, <1>11, <2>2, <3>1, <3>3 DEF NoNeedlessFetch
    <3> QED BY <1>10, <3>2, <3>3
  <2> QED BY <2>2 DEF NoNeedlessFetch
<1> QED BY <1>12, <1>13, <1>14, <1>15, <1>16, <1>17 DEF OAuthInv

LEMMA KeptToken ==
    ASSUME NEW x \in IssuedTokens, NEW S \in SUBSET Nat
    PROVE  LET t == [x EXCEPT !.kept = S] IN
           /\ t \in IssuedTokens /\ t.kept = S /\ t.life = x.life
           /\ t.at = x.at /\ t.asked = x.asked
    BY DEF IssuedTokens

\* Receive: the token is kept, in the cache, no longer than the server keeps it
\* but for the time the answer took.
LEMMA ReceiveInv ==
    ASSUME OAuthInv, NEW c \in TokenCalls, Receive(c) PROVE OAuthInv'
<1> DEFINE n == tokenCall[c].got
           life == issued[n].life
           ttl == IF life > 0 /\ life < CacheTTL THEN life ELSE CacheTTL
           t == [issued[n] EXCEPT !.kept = {tokenClock + ttl}]
           r == [tokenCall[c] EXCEPT !.pc = "done", !.got = n, !.cached = FALSE]
<1>1. tokenCall[c] \in TokenCallRecords /\ tokenClock \in Nat /\ issued \in Seq(IssuedTokens)
    BY DEF OAuthInv, OAuthTypes
<1>2. tokenCall[c].pc \in Fetching /\ tokenCall[c].pc = "receive"
    BY DEF Receive, Fetching
<1>3. /\ writer = c /\ n = Len(issued) /\ n > 0
      /\ tokenCall[c].start <= tokenClock /\ tokenClock <= tokenCall[c].start + Timeout
      /\ tokenCall[c].start <= issued[n].at
      /\ issued[n].kept = {}
    BY <1>2 DEF OAuthInv, FetchOK
<1>4. n \in DOMAIN issued /\ n \in Nat \ {0} /\ DOMAIN issued = 1 .. n
    BY <1>1, <1>3
<1>5. issued[n] \in IssuedTokens
    BY <1>1, <1>4
<1>6. life \in Nat /\ issued[n].at \in Nat /\ tokenCall[c].start \in Nat
    BY ZenonT(30), <1>1, <1>5 DEF IssuedTokens, TokenCallRecords
<1>7. ttl \in Nat /\ (life = 0 \/ ttl <= life)
    BY <1>6
<1>8. /\ tokenCache' = [token |-> n, expiresAt |-> tokenClock + ttl]
      /\ issued' = [issued EXCEPT ![n] = t]
      /\ writer' = NoCall /\ tokenClock' = tokenClock
      /\ tokenCall' = [tokenCall EXCEPT ![c] = r] /\ tokenCall'[c] = r
    BY ZenonT(30) DEF Receive, ReturnToken, OAuthInv, OAuthTypes
<1> HIDE DEF ttl
<1>9. /\ t \in IssuedTokens /\ t.kept = {tokenClock + ttl} /\ t.life = life
      /\ t.at = issued[n].at /\ t.asked = issued[n].asked
  <2>1. {tokenClock + ttl} \in SUBSET Nat
      BY <1>1, <1>7
  <2> QED BY ZenonT(30), <1>5, <2>1, KeptToken
<1>10. r \in TokenCallRecords /\ r.pc = "done" /\ r.cached = FALSE
    BY ZenonT(30), <1>1 DEF TokenCallRecords
<1> HIDE DEF t, r
<1>11. /\ issued' \in Seq(IssuedTokens) /\ Len(issued') = n /\ DOMAIN issued' = DOMAIN issued
       /\ \A i \in DOMAIN issued : i # n => issued'[i] = issued[i]
       /\ issued'[n] = t
    BY <1>1, <1>3, <1>4, <1>8, <1>9
<1>12. OAuthTypes'
    BY <1>1, <1>4, <1>7, <1>8, <1>10, <1>11 DEF OAuthInv, OAuthTypes
<1>13. FetchOK(c)' /\ ReturnOK(c)'
    BY ZenonT(30), <1>8, <1>10 DEF FetchOK, ReturnOK, Fetching
<1>14. ASSUME NEW d \in TokenCalls, d # c PROVE FetchOK(d)' /\ ReturnOK(d)'
  <2>1. tokenCall'[d] = tokenCall[d] /\ tokenCall[d].pc \notin Fetching
      BY <1>3, <1>8, <1>14, Zenon DEF OAuthInv, OAuthTypes, FetchOK
  <2>2. ReturnOK(d)
      BY DEF OAuthInv
  <2>3. tokenCall[d].pc = "done" /\ tokenCall[d].cached => tokenCall[d].got \in DOMAIN issued
      BY <1>1, <2>2 DEF ReturnOK
  <2>4. \A i \in DOMAIN issued : issued'[i].life = issued[i].life /\ issued'[i].at = issued[i].at
      BY <1>9, <1>11
  <2> HIDE DEF n, life
  <2>5. FetchOK(d)'
      BY <2>1, Zenon DEF FetchOK
  <2>6. ASSUME tokenCall[d].pc = "done", tokenCall[d].cached
        PROVE  /\ tokenCall[d].got \in 1 .. Len(issued')
               /\ \/ issued'[tokenCall[d].got].life = 0
                  \/ tokenClock' < issued'[tokenCall[d].got].at + issued'[tokenCall[d].got].life
    <3>1. /\ tokenCall[d].got \in 1 .. n
          /\ issued[tokenCall[d].got].life = 0
             \/ tokenClock < issued[tokenCall[d].got].at + issued[tokenCall[d].got].life
        BY <1>3, <2>2, <2>6, Zenon DEF ReturnOK
    <3>2. /\ issued'[tokenCall[d].got].life = issued[tokenCall[d].got].life
          /\ issued'[tokenCall[d].got].at = issued[tokenCall[d].got].at
        BY <2>3, <2>4, <2>6, Zenon
    <3> QED BY <1>8, <1>11, <3>1, <3>2, Zenon
  <2>7. ReturnOK(d)'
      BY <2>1, <2>6, Zenon DEF ReturnOK
  <2> QED BY <2>5, <2>7, Zenon
<1>15. CacheOK'
  <2>1. \A i \in DOMAIN issued : issued[i].asked <= tokenClock
      BY DEF OAuthInv, CacheOK
  <2>2. \A i \in DOMAIN issued : issued'[i].asked <= tokenClock
      BY <1>9, <1>11, <2>1
  <2>3. \A i \in DOMAIN issued : \A end \in issued'[i].kept : i <= n /\ (i = n => end = tokenClock + ttl)
      BY <1>4, <1>9, <1>11
  <2>4. life = 0 \/ tokenClock + ttl <= issued[n].at + life + Timeout
      BY <1>1, <1>3, <1>6, <1>7
  <2> HIDE DEF n, life
  <2> QED BY <1>8, <1>9, <1>11, <2>2, <2>3, <2>4 DEF CacheOK, life
<1>16. NoNeedlessFetch'
  <2>1. ASSUME NEW i \in DOMAIN issued, NEW j \in DOMAIN issued, i < j
        PROVE  i # n /\ issued'[i] = issued[i] /\ issued'[j].asked = issued[j].asked
      BY <1>4, <1>9, <1>11, <2>1
  <2>2. NoNeedlessFetch
      BY DEF OAuthInv
  <2> HIDE DEF n, life
  <2> QED BY <1>11, <2>1, <2>2 DEF NoNeedlessFetch
<1> QED BY <1>12, <1>13, <1>14, <1>15, <1>16 DEF OAuthInv

LEMMA TokenTickInv == ASSUME OAuthInv, TokenTick PROVE OAuthInv'
<1>1. tokenClock' = tokenClock + 1 /\ tokenClock \in Nat /\ UNCHANGED <<tokenCache, writer, issued>>
    BY DEF TokenTick, OAuthInv, OAuthTypes
<1>2. ASSUME NEW c \in TokenCalls
      PROVE  /\ tokenCall'[c] \in TokenCallRecords /\ tokenCall'[c].pc # "done"
             /\ tokenCall'[c].pc \in Fetching =>
                  tokenCall'[c] = tokenCall[c] /\ tokenClock < tokenCall[c].start + Timeout
             /\ tokenCall[c].start \in Nat
  <2>1. tokenCall[c] \in TokenCallRecords
      BY DEF OAuthInv, OAuthTypes
  <2> QED BY <2>1 DEF TokenTick, TokenCallRecords, Fetching
<1>3. OAuthTypes'
    BY <1>1, <1>2 DEF TokenTick, OAuthInv, OAuthTypes
<1>4. ASSUME NEW c \in TokenCalls PROVE FetchOK(c)' /\ ReturnOK(c)'
  <2>1. FetchOK(c)
      BY DEF OAuthInv
  <2>2. ReturnOK(c)'
      BY <1>2, Zenon DEF ReturnOK
  <2>3. ASSUME tokenCall'[c].pc \in Fetching PROVE FetchOK(c)'
    <3>1. tokenCall'[c] = tokenCall[c] /\ tokenCall[c].pc \in Fetching
        BY <1>2, <2>3, Zenon
    <3>2. /\ tokenCall[c].start \in Nat /\ tokenCall[c].start <= tokenClock
          /\ tokenClock < tokenCall[c].start + Timeout
        BY <1>2, <2>1, <2>3, <3>1, Zenon DEF FetchOK
    <3>3. tokenCall[c].start <= tokenClock' /\ tokenClock' <= tokenCall[c].start + Timeout
        BY ONLY <1>1, <3>2, OAuthTokensAssumption, SMTT(15)
    <3> QED BY <1>1, <2>1, <3>1, <3>3, ZenonT(30) DEF FetchOK
  <2> QED BY <2>2, <2>3, Zenon DEF FetchOK
<1>5. \A i \in DOMAIN issued : issued[i].asked \in Nat
  <2>1. \A i \in DOMAIN issued : issued[i] \in IssuedTokens
      BY DEF OAuthInv, OAuthTypes
  <2> QED BY <2>1 DEF IssuedTokens
<1>6. CacheOK' /\ NoNeedlessFetch'
    BY <1>1, <1>5 DEF OAuthInv, CacheOK, NoNeedlessFetch
<1> QED BY <1>3, <1>4, <1>6 DEF OAuthInv

LEMMA NextOAuthInv == OAuthInv /\ [OAuthNext]_oauthVars => OAuthInv'
<1> SUFFICES ASSUME OAuthInv, [OAuthNext]_oauthVars PROVE OAuthInv'
    BY ZenonT(30)
<1>1. CASE UNCHANGED oauthVars
    BY <1>1, Zenon
    DEF oauthVars, OAuthInv, OAuthTypes, FetchOK, ReturnOK, CacheOK, NoNeedlessFetch
<1>2. CASE TokenTick
    BY <1>2, TokenTickInv
<1>3. ASSUME NEW c \in TokenCalls, NEW t \in OAuthTools, GetToken(c, t) PROVE OAuthInv'
    BY <1>3, GetTokenInv
<1>4. ASSUME NEW c \in TokenCalls, ReadCache(c) \/ LockAndFetch(c) PROVE OAuthInv'
    BY <1>4, ReadCacheInv, LockAndFetchInv
<1>5. ASSUME NEW c \in TokenCalls, Issue(c) \/ Receive(c) \/ FetchFails(c) PROVE OAuthInv'
    BY <1>5, IssueInv, ReceiveInv, FetchFailsInv
<1> QED BY <1>1, <1>2, <1>3, <1>4, <1>5 DEF OAuthNext

LEMMA OAuthInvAlways == OAuthSpec => []OAuthInv
    BY InitOAuthInv, NextOAuthInv, PTL DEF OAuthSpec

\* A token from the cache has not expired at its server, and a token is asked
\* for only when every token kept before is about to expire, whatever the
\* lifetimes, as long as a fetch takes no longer than the buffer
\* (OAuth2Provider.getToken).
THEOREM TokensCurrent == OAuthSpec => []TokensAreCurrent
<1>1. OAuthInv => TokensAreCurrent
    BY DEF OAuthInv, ReturnOK, TokensAreCurrent, CachedTokenIsLive
<1> QED BY <1>1, OAuthInvAlways, PTL

\* Both caches serve what is current: the two providers share no state.
THEOREM CredentialsCurrent == OAuthSpec /\ SecretSpec => []CredentialsAreCurrent
    BY TokensCurrent, SecretsCurrent, PTL DEF CredentialsAreCurrent
===============================================================================
