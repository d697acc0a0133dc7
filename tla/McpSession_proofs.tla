-------------------------- MODULE McpSession_proofs --------------------------
(***************************************************************************)
(* SessionsAreExact, for any number of gateways, tenants and clients and   *)
(* any lifetime.  A token is known by its id.  As long as its process runs *)
(* and it was not revoked, the cache of the process has its entry, and     *)
(* longer than the token lives.                                            *)
(***************************************************************************)
EXTENDS McpSession, FiniteSetTheorems, TLAPS

\* The provers that try a leaf which names none, and their time.
USE SMTT(15), ZenonT(30)

SessionTokens ==
    [id : Nat, tenant : Tenants, ip : IPs \cup {UnknownIP}, exp : Nat, key : Gateways \X Nat]
TenantStates == {"enabled", "disabled", "deleted"}
SessionRequests ==
    [pc : {"flag", "validate", "lookup", "handle", "refused", "answered"},
     g : Gateways, path : Tenants, ip : IPs \cup {UnknownIP}, init : BOOLEAN,
     by : SUBSET SessionTokens, kind : {"", "unauthorized", "lookup_failed", "accepted"},
     startedAt : Nat, key : Gateways \X Nat, revoked : SUBSET (Gateways \X Nat),
     tenant : TenantStates, flag : SUBSET BOOLEAN, tenants : SUBSET TenantStates]

SessionTypes ==
    /\ sessionClock \in Nat
    /\ sessionBoot \in [Gateways -> Nat]
    /\ sessions \in [Gateways -> SUBSET (Nat \X Nat)]
    /\ tokens \subseteq SessionTokens /\ IsFiniteSet(tokens)
    /\ tenant \in [Tenants -> TenantStates]
    /\ flag \in BOOLEAN
    /\ revoked \subseteq Gateways \X Nat
    /\ req \in [Clients -> SessionRequests \cup {IdleRequest}]

\* Ids are not given twice, and keys are those of processes that have run.
TokensOK ==
    /\ \A k \in tokens :
         /\ k.id <= Cardinality(tokens)
         /\ k.key[2] <= sessionBoot[k.key[1]]
    /\ \A g \in Gateways : \A e \in sessions[g] : e[1] <= Cardinality(tokens)
    /\ \A e \in revoked : e[2] <= Cardinality(tokens)

\* What is missing in the cache was revoked, and conversely.
CacheExact ==
    /\ \A k \in tokens, g \in Gateways : k.key = SessionKey(g) =>
         \/ <<g, k.id>> \in revoked
         \/ \E e \in sessions[g] : e[1] = k.id /\ 2 * k.exp + 1 <= e[2]
    /\ "revoke_all" \notin Ops =>
         \A g \in Gateways : \A e \in sessions[g] : <<g, e[1]>> \notin revoked

\* What a request has found out of its token, when it is past a check.
WasGood(x) ==
    \A k \in x.by :
        /\ k.key = x.key
        /\ k.tenant = x.path
        /\ UnknownIP \in {k.ip, x.ip} \/ k.ip = x.ip
        /\ Unix(x.startedAt) <= k.exp
        /\ "revoke_all" \notin Ops => <<x.g, k.id>> \notin x.revoked

SeesFlag(x) == flag \in x.flag

SessionRequestOK(c) ==
    LET x == req[c] IN
    x.pc # "idle" =>
        /\ x.by \subseteq tokens
        /\ x.startedAt <= sessionClock
        /\ x.revoked \subseteq revoked
        /\ SeesFlag(x) /\ tenant[x.path] \in x.tenants
        /\ x.tenant = "deleted" => tenant[x.path] = "deleted"
        /\ x.pc # "answered" => x.key = SessionKey(x.g)
        /\ x.pc = "refused" => x.by = {}
        /\ x.pc = "answered" => x.kind # ""
        /\ x.pc \in {"lookup", "handle"} \/ (x.pc = "answered" /\ x.kind = "accepted") => WasGood(x)
        /\ (x.pc = "handle" \/ (x.pc = "answered" /\ x.kind = "accepted")) /\ x.by # {} =>
             x.tenant # "deleted"
        /\ x.pc = "answered" /\ x.kind = "unauthorized" /\ x.by # {} => ~ShouldServe(c)

SessionInv ==
    /\ SessionTypes
    /\ TokensOK
    /\ CacheExact
    /\ \A c \in Clients : SessionRequestOK(c)

LEMMA InitSessionInv == McpSessionInit => SessionInv
<1> SUFFICES ASSUME McpSessionInit PROVE SessionInv
    OBVIOUS
<1>1. IsFiniteSet(tokens) /\ Cardinality(tokens) = 0 /\ tokens = {}
    BY FS_EmptySet DEF McpSessionInit
<1>2. \A c \in Clients : req[c].pc = "idle"
    BY DEF McpSessionInit, IdleRequest
<1>3. SessionTypes
    BY <1>1 DEF McpSessionInit, SessionTypes, TenantStates
<1>4. TokensOK /\ CacheExact
    BY <1>1 DEF McpSessionInit, TokensOK, CacheExact
<1>5. \A c \in Clients : SessionRequestOK(c)
    BY ZenonT(30), <1>2 DEF SessionRequestOK
<1> QED BY <1>3, <1>4, <1>5 DEF SessionInv

\* A request that is under way, or was answered, as the rest goes on: what it
\* has found out stays, and so does the reason for which it was refused.
LEMMA RequestKept ==
    ASSUME SessionInv, NEW d \in Clients, req[d].pc # "idle",
           tokens \subseteq tokens', sessionClock' \in Nat, sessionClock <= sessionClock',
           revoked \subseteq revoked',
           sessionBoot' \in [Gateways -> Nat],
           \A g \in Gateways : sessionBoot[g] <= sessionBoot'[g],
           req[d].pc # "answered" => sessionBoot'[req[d].g] = sessionBoot[req[d].g],
           tenant[req[d].path] = "deleted" => tenant'[req[d].path] = "deleted",
           req'[d].pc = req[d].pc, req'[d].g = req[d].g, req'[d].path = req[d].path,
           req'[d].ip = req[d].ip, req'[d].by = req[d].by, req'[d].kind = req[d].kind,
           req'[d].startedAt = req[d].startedAt, req'[d].key = req[d].key,
           req'[d].revoked = req[d].revoked, req'[d].tenant = req[d].tenant,
           req[d].flag \subseteq req'[d].flag, SeesFlag(req[d])',
           req[d].tenants \subseteq req'[d].tenants, tenant'[req[d].path] \in req'[d].tenants
    PROVE  SessionRequestOK(d)'
<1>1. req[d] \in SessionRequests /\ SessionRequestOK(d)
    BY DEF SessionInv, SessionTypes, IdleRequest
<1>2. req[d].g \in Gateways /\ req[d].startedAt \in Nat /\ sessionClock \in Nat
    BY ZenonT(30), <1>1 DEF SessionRequests, SessionInv, SessionTypes
<1>3. WasGood(req[d]) => WasGood(req[d])'
    BY DEF WasGood
<1>4. ASSUME ~ShouldServe(d), req[d].by \subseteq tokens PROVE ~ShouldServe(d)'
  <2>1. PICK k \in req[d].by :
          ~ (/\ k.key = SessionKey(req[d].g) /\ k.tenant = req[d].path
             /\ UnknownIP \in {k.ip, req[d].ip} \/ k.ip = req[d].ip
             /\ Unix(sessionClock) <= k.exp
             /\ <<req[d].g, k.id>> \notin revoked
             /\ "deleted" \notin req[d].tenants
             /\ FALSE \notin req[d].flag)
      BY ZenonT(30), <1>4 DEF ShouldServe
  <2>2. k \in tokens /\ k \in SessionTokens
      BY <1>4 DEF SessionInv, SessionTypes
  <2>3. k.key \in Gateways \X Nat /\ k.exp \in Nat /\ k.key[2] <= sessionBoot[k.key[1]]
      BY <2>2 DEF SessionTokens, SessionInv, TokensOK
  <2>4. k.key # SessionKey(req[d].g) => k.key # SessionKey(req[d].g)'
      BY <1>2, <2>3 DEF SessionKey, SessionInv, SessionTypes
  <2>5. ~(Unix(sessionClock) <= k.exp) => ~(Unix(sessionClock') <= k.exp)
      BY <1>2, <2>3 DEF Unix
  <2> QED BY ZenonT(30), <2>1, <2>4, <2>5 DEF ShouldServe
<1>5. req[d].pc # "answered" => SessionKey(req[d].g)' = SessionKey(req[d].g)
    BY DEF SessionKey
<1>6. req[d].startedAt <= sessionClock => req[d].startedAt <= sessionClock'
    BY <1>2
<1> QED BY ZenonT(30), <1>1, <1>3, <1>4, <1>5, <1>6 DEF SessionRequestOK

\* ShouldServe as a function of what it depends on.
SwitchedOff(x) == FALSE \in x.flag
Serves(x, clock, boot, rev) ==
    \A k \in x.by :
       /\ k.key = <<x.g, boot[x.g]>> /\ k.tenant = x.path
       /\ UnknownIP \in {k.ip, x.ip} \/ k.ip = x.ip
       /\ Unix(clock) <= k.exp
       /\ <<x.g, k.id>> \notin rev
       /\ "deleted" \notin x.tenants
       /\ ~SwitchedOff(x)

LEMMA IdleKept == ASSUME NEW d \in Clients, req'[d].pc = "idle" PROVE SessionRequestOK(d)'
  BY DEF SessionRequestOK

\* A step of one client that leaves everything else alone.
LEMMA OneRequest ==
    ASSUME SessionInv, NEW c \in Clients, NEW r \in SessionRequests,
           req' = [req EXCEPT ![c] = r], UNCHANGED Still, SessionRequestOK(c)'
    PROVE  SessionInv'
<1>1. \A d \in Clients : req'[d] = IF d = c THEN r ELSE req[d]
    BY DEF SessionInv, SessionTypes
<1>2. SessionTypes' /\ TokensOK' /\ CacheExact'
    BY DEF SessionInv, SessionTypes, TokensOK, CacheExact, SessionKey, Still
<1>3. ASSUME NEW d \in Clients, d # c PROVE SessionRequestOK(d)'
  <2>1. req'[d] = req[d] /\ SessionRequestOK(d)
      BY <1>1, <1>3 DEF SessionInv
  <2>2. ShouldServe(d)' <=> ShouldServe(d)
    <3>1. sessionClock' = sessionClock /\ revoked' = revoked /\ sessionBoot' = sessionBoot
        BY DEF Still
    <3>2. ShouldServe(d) <=> Serves(req[d], sessionClock, sessionBoot, revoked)
        BY ZenonT(30) DEF ShouldServe, Serves, SwitchedOff, SessionKey
    <3>3. ShouldServe(d)' <=> Serves(req'[d], sessionClock', sessionBoot', revoked')
        BY ZenonT(30) DEF ShouldServe, Serves, SwitchedOff, SessionKey
    <3> QED BY <2>1, <3>1, <3>2, <3>3
  <2> QED
      BY ZenonT(30), <2>1, <2>2
      DEF SessionRequestOK, SessionKey, WasGood, SeesFlag, Still
<1> QED BY <1>2, <1>3 DEF SessionInv

LEMMA GotoRequest ==
    ASSUME SessionInv, NEW c \in Clients, req[c].pc # "idle",
           NEW p \in {"validate", "lookup", "handle", "refused"}, Goto(c, p)
    PROVE  \E r \in SessionRequests :
             /\ req' = [req EXCEPT ![c] = r] /\ req'[c] = r
             /\ r.pc = p /\ r.g = req[c].g /\ r.path = req[c].path /\ r.ip = req[c].ip
             /\ r.by = req[c].by /\ r.kind = req[c].kind /\ r.startedAt = req[c].startedAt
             /\ r.key = req[c].key /\ r.revoked = req[c].revoked /\ r.tenant = req[c].tenant
             /\ r.flag = req[c].flag /\ r.tenants = req[c].tenants
<1> DEFINE r == [req[c] EXCEPT !.pc = p]
<1>1. req[c] \in SessionRequests
    BY DEF SessionInv, SessionTypes, IdleRequest
<1>2. req' = [req EXCEPT ![c] = r] /\ req'[c] = r
    BY DEF Goto, SessionInv, SessionTypes
<1>3. /\ r \in SessionRequests
      /\ r.pc = p /\ r.g = req[c].g /\ r.path = req[c].path /\ r.ip = req[c].ip
      /\ r.by = req[c].by /\ r.kind = req[c].kind /\ r.startedAt = req[c].startedAt
      /\ r.key = req[c].key /\ r.revoked = req[c].revoked /\ r.tenant = req[c].tenant
      /\ r.flag = req[c].flag /\ r.tenants = req[c].tenants
    BY ZenonT(30), <1>1 DEF SessionRequests
<1> QED BY ZenonT(30), <1>2, <1>3

LEMMA AnsweredRequest ==
    ASSUME SessionInv, NEW c \in Clients, req[c].pc # "idle",
           NEW k \in {"unauthorized", "lookup_failed", "accepted"}, AnswerSession(c, k)
    PROVE  \E r \in SessionRequests :
             /\ req' = [req EXCEPT ![c] = r] /\ req'[c] = r
             /\ r.pc = "answered" /\ r.g = req[c].g /\ r.path = req[c].path /\ r.ip = req[c].ip
             /\ r.by = req[c].by /\ r.kind = k /\ r.startedAt = req[c].startedAt
             /\ r.key = req[c].key /\ r.revoked = req[c].revoked /\ r.tenant = req[c].tenant
             /\ r.flag = req[c].flag /\ r.tenants = req[c].tenants
<1> DEFINE r == [req[c] EXCEPT !.pc = "answered", !.kind = k]
<1>1. req[c] \in SessionRequests
    BY DEF SessionInv, SessionTypes, IdleRequest
<1>2. req' = [req EXCEPT ![c] = r] /\ req'[c] = r
    BY ZenonT(30) DEF AnswerSession, SessionInv, SessionTypes
<1>3. /\ r \in SessionRequests
      /\ r.pc = "answered" /\ r.g = req[c].g /\ r.path = req[c].path /\ r.ip = req[c].ip
      /\ r.by = req[c].by /\ r.kind = k /\ r.startedAt = req[c].startedAt
      /\ r.key = req[c].key /\ r.revoked = req[c].revoked /\ r.tenant = req[c].tenant
      /\ r.flag = req[c].flag /\ r.tenants = req[c].tenants
    BY ZenonT(30), <1>1 DEF SessionRequests
<1> QED BY ZenonT(30), <1>2, <1>3

LEMMA HandleSessionRequestKeeps ==
    ASSUME SessionInv, NEW c \in Clients, HandleSessionRequest(c) PROVE SessionInv'
<1>1. PICK g \in Gateways, path \in Tenants, ip \in IPs \cup {UnknownIP},
           init \in BOOLEAN, by \in {{}} \cup {{k} : k \in tokens} :
         req' = [req EXCEPT ![c] =
              [pc |-> "flag", g |-> g, path |-> path, ip |-> ip, init |-> init,
               by |-> by, kind |-> "", startedAt |-> sessionClock, key |-> SessionKey(g),
               revoked |-> revoked, tenant |-> tenant[path],
               flag |-> {flag}, tenants |-> {tenant[path]}]]
    BY ZenonT(30) DEF HandleSessionRequest
<1> DEFINE r == [pc |-> "flag", g |-> g, path |-> path, ip |-> ip, init |-> init,
               by |-> by, kind |-> "", startedAt |-> sessionClock, key |-> SessionKey(g),
               revoked |-> revoked, tenant |-> tenant[path],
               flag |-> {flag}, tenants |-> {tenant[path]}]
<1>2. /\ by \subseteq tokens /\ by \in SUBSET SessionTokens
      /\ SessionKey(g) \in Gateways \X Nat /\ tenant[path] \in TenantStates
      /\ sessionClock \in Nat /\ revoked \in SUBSET (Gateways \X Nat)
    BY DEF SessionInv, SessionTypes, SessionKey
<1>3. {flag} \in SUBSET BOOLEAN /\ {tenant[path]} \in SUBSET TenantStates
    BY <1>2, ZenonT(30) DEF SessionInv, SessionTypes
<1>4. /\ r \in SessionRequests
      /\ r.pc = "flag" /\ r.g = g /\ r.path = path /\ r.by = by /\ r.startedAt = sessionClock
      /\ r.key = SessionKey(g) /\ r.revoked = revoked /\ r.tenant = tenant[path]
      /\ r.tenants = {tenant[path]}
    BY <1>2, <1>3 DEF SessionRequests
<1>5. req' = [req EXCEPT ![c] = r] /\ r.flag = {flag}
    BY ZenonT(30), <1>1
<1> HIDE DEF r
<1>6. req'[c] = r /\ UNCHANGED Still
    BY ZenonT(30), <1>5 DEF HandleSessionRequest, SessionInv, SessionTypes
<1>7. SeesFlag(req[c])'
    BY <1>5, <1>6, ZenonT(30) DEF SeesFlag, Still
<1>8. UNCHANGED <<sessionClock, sessionBoot, tokens, tenant, revoked>>
    BY <1>6 DEF Still
<1>9. req'[c].by \subseteq tokens' /\ req'[c].startedAt <= sessionClock'
    BY <1>2, <1>4, <1>6, <1>8
<1>10. /\ req'[c].revoked \subseteq revoked' /\ tenant'[req'[c].path] \in req'[c].tenants
       /\ req'[c].tenant = tenant'[req'[c].path] /\ req'[c].pc = "flag"
       /\ req'[c].key = SessionKey(req[c].g)'
    BY <1>4, <1>6, <1>8 DEF SessionKey
<1>11. SessionRequestOK(c)'
    BY <1>7, <1>9, <1>10, ZenonT(30) DEF SessionRequestOK
<1> QED BY ZenonT(30), <1>4, <1>5, <1>6, <1>11, OneRequest

LEMMA AuthenticateMCPRequestKeeps ==
    ASSUME SessionInv, NEW c \in Clients, AuthenticateMCPRequest(c) PROVE SessionInv'
<1>1. req[c].pc = "flag" /\ UNCHANGED Still /\ SessionRequestOK(c)
    BY DEF AuthenticateMCPRequest, SessionInv
<1>2. CASE req[c].by = {} /\ \E p \in {"handle", "refused"} : Goto(c, p)
  <2>1. PICK p \in {"handle", "refused"} : Goto(c, p)
      BY <1>2
  <2>2. PICK r \in SessionRequests :
             /\ req' = [req EXCEPT ![c] = r] /\ req'[c] = r
             /\ r.pc = p /\ r.g = req[c].g /\ r.path = req[c].path /\ r.ip = req[c].ip
             /\ r.by = req[c].by /\ r.kind = req[c].kind /\ r.startedAt = req[c].startedAt
             /\ r.key = req[c].key /\ r.revoked = req[c].revoked /\ r.tenant = req[c].tenant
             /\ r.flag = req[c].flag /\ r.tenants = req[c].tenants
      BY <1>1, <2>1, GotoRequest
  <2>3. SessionRequestOK(c)'
      BY ZenonT(30), <1>1, <1>2, <2>2
      DEF SessionRequestOK, WasGood, SeesFlag, Still, SessionKey
  <2> QED BY ZenonT(30), <1>1, <2>2, <2>3, OneRequest
<1>3. CASE Goto(c, "validate")
  <2>2. PICK r \in SessionRequests :
             /\ req' = [req EXCEPT ![c] = r] /\ req'[c] = r
             /\ r.pc = "validate" /\ r.g = req[c].g /\ r.path = req[c].path /\ r.ip = req[c].ip
             /\ r.by = req[c].by /\ r.kind = req[c].kind /\ r.startedAt = req[c].startedAt
             /\ r.key = req[c].key /\ r.revoked = req[c].revoked /\ r.tenant = req[c].tenant
             /\ r.flag = req[c].flag /\ r.tenants = req[c].tenants
      BY <1>1, <1>3, GotoRequest
  <2>3. SessionRequestOK(c)'
      BY ZenonT(30), <1>1, <2>2 DEF SessionRequestOK, SeesFlag, Still, SessionKey
  <2> QED BY ZenonT(30), <1>1, <2>2, <2>3, OneRequest
<1>4. CASE req[c].by # {} /\ AnswerSession(c, "unauthorized") /\ FALSE \in req[c].flag
  <2>2. PICK r \in SessionRequests :
             /\ req' = [req EXCEPT ![c] = r] /\ req'[c] = r
             /\ r.pc = "answered" /\ r.g = req[c].g /\ r.path = req[c].path /\ r.ip = req[c].ip
             /\ r.by = req[c].by /\ r.kind = "unauthorized" /\ r.startedAt = req[c].startedAt
             /\ r.key = req[c].key /\ r.revoked = req[c].revoked /\ r.tenant = req[c].tenant
             /\ r.flag = req[c].flag /\ r.tenants = req[c].tenants
      BY <1>1, <1>4, AnsweredRequest
  <2>3. ~ShouldServe(c)'
      BY <1>4, <2>2, ZenonT(30) DEF ShouldServe
  <2>4. SessionRequestOK(c)'
      BY ZenonT(30), <1>1, <2>2, <2>3 DEF SessionRequestOK, SeesFlag, Still, SessionKey
  <2> QED BY ZenonT(30), <1>1, <2>2, <2>4, OneRequest
<1>5. ASSUME NEW on \in BOOLEAN, FeatureSessionTokensEnabled(c, on), ~on PROVE FALSE \in req[c].flag
  <2>1. flag = FALSE
      BY <1>5, ZenonT(30) DEF FeatureSessionTokensEnabled, SessionInv, SessionTypes
  <2>2. flag \in req[c].flag
      BY <1>1 DEF SessionRequestOK, SeesFlag
  <2> QED BY <2>1, <2>2, ZenonT(30)
<1> QED BY <1>2, <1>3, <1>4, <1>5, ZenonT(30) DEF AuthenticateMCPRequest

LEMMA RefusedKeeps ==
    ASSUME SessionInv, NEW c \in Clients, Refused(c) PROVE SessionInv'
<1>1. /\ req[c].pc = "refused" /\ UNCHANGED Still /\ SessionRequestOK(c)
      /\ AnswerSession(c, "unauthorized") /\ req[c].by = {}
    BY ZenonT(30) DEF Refused, SessionInv, SessionRequestOK
<1>2. PICK r \in SessionRequests :
             /\ req' = [req EXCEPT ![c] = r] /\ req'[c] = r
             /\ r.pc = "answered" /\ r.g = req[c].g /\ r.path = req[c].path /\ r.ip = req[c].ip
             /\ r.by = req[c].by /\ r.kind = "unauthorized" /\ r.startedAt = req[c].startedAt
             /\ r.key = req[c].key /\ r.revoked = req[c].revoked /\ r.tenant = req[c].tenant
             /\ r.flag = req[c].flag /\ r.tenants = req[c].tenants
    BY <1>1, AnsweredRequest
<1>3. SessionRequestOK(c)'
    BY ZenonT(30), <1>1, <1>2 DEF SessionRequestOK, SeesFlag, Still, SessionKey
<1> QED BY ZenonT(30), <1>1, <1>2, <1>3, OneRequest

\* A token that is validated is good, with the cache as it should be.
LEMMA ValidIsGood ==
    ASSUME SessionInv, NEW c \in Clients, req[c].pc = "validate",
           \A k \in req[c].by : /\ ValidateSessionToken(req[c].g, k, req[c].ip)
                                /\ k.tenant = req[c].path
    PROVE  WasGood(req[c])
<1>1. req[c] \in SessionRequests /\ SessionRequestOK(c)
    BY DEF SessionInv, SessionTypes, IdleRequest
<1>2. /\ req[c].g \in Gateways /\ req[c].startedAt \in Nat /\ sessionClock \in Nat
      /\ req[c].startedAt <= sessionClock /\ req[c].revoked \subseteq revoked
      /\ req[c].key = SessionKey(req[c].g) /\ req[c].by \subseteq tokens
    BY ZenonT(30), <1>1 DEF SessionRequests, SessionRequestOK, SessionInv, SessionTypes
<1> SUFFICES ASSUME NEW k \in req[c].by
             PROVE  /\ k.key = req[c].key
                    /\ k.tenant = req[c].path
                    /\ UnknownIP \in {k.ip, req[c].ip} \/ k.ip = req[c].ip
                    /\ Unix(req[c].startedAt) <= k.exp
                    /\ "revoke_all" \notin Ops => <<req[c].g, k.id>> \notin req[c].revoked
    BY DEF WasGood
<1>3. /\ k.key = SessionKey(req[c].g) /\ k.tenant = req[c].path /\ Unix(sessionClock) <= k.exp
      /\ k.ip = UnknownIP \/ req[c].ip = UnknownIP \/ k.ip = req[c].ip
      /\ Cached(req[c].g, k.id)
    BY DEF ValidateSessionToken
<1>4. k.exp \in Nat
    BY <1>2 DEF SessionTokens, SessionInv, SessionTypes
<1>5. Unix(req[c].startedAt) <= k.exp
    BY <1>2, <1>3, <1>4 DEF Unix
<1>6. "revoke_all" \notin Ops => <<req[c].g, k.id>> \notin revoked
    BY <1>2, <1>3 DEF Cached, SessionInv, CacheExact
<1> QED BY <1>2, <1>3, <1>5, <1>6

LEMMA InvalidIsBad ==
    ASSUME SessionInv, NEW c \in Clients, req[c].pc = "validate",
           ~ \A k \in req[c].by : /\ ValidateSessionToken(req[c].g, k, req[c].ip)
                                  /\ k.tenant = req[c].path
    PROVE  ~ShouldServe(c)
<1>1. req[c] \in SessionRequests /\ SessionRequestOK(c)
    BY DEF SessionInv, SessionTypes, IdleRequest
<1>2. /\ req[c].g \in Gateways /\ sessionClock \in Nat /\ req[c].by \subseteq tokens
    BY ZenonT(30), <1>1 DEF SessionRequests, SessionRequestOK, SessionInv, SessionTypes
<1>3. PICK k \in req[c].by : ~ (/\ ValidateSessionToken(req[c].g, k, req[c].ip)
                                /\ k.tenant = req[c].path)
    OBVIOUS
<1>4. k \in tokens /\ k.exp \in Nat
    BY <1>2 DEF SessionTokens, SessionInv, SessionTypes
<1> SUFFICES ASSUME ShouldServe(c) PROVE FALSE
    OBVIOUS
<1>5. /\ k.key = SessionKey(req[c].g) /\ k.tenant = req[c].path
      /\ UnknownIP \in {k.ip, req[c].ip} \/ k.ip = req[c].ip
      /\ Unix(sessionClock) <= k.exp
      /\ <<req[c].g, k.id>> \notin revoked
    BY ZenonT(30) DEF ShouldServe
<1>6. ~Cached(req[c].g, k.id)
    BY <1>3, <1>5 DEF ValidateSessionToken
<1>7. PICK e \in sessions[req[c].g] : e[1] = k.id /\ 2 * k.exp + 1 <= e[2]
    BY <1>2, <1>4, <1>5 DEF SessionInv, CacheExact
<1>8. e[2] \in Nat
    BY <1>2 DEF SessionInv, SessionTypes
<1>9. sessionClock <= e[2]
    BY <1>2, <1>4, <1>5, <1>7, <1>8 DEF Unix
<1> QED BY <1>6, <1>7, <1>9 DEF Cached

\* The steps that end with a refusal, or go on to the next step.
LEMMA UnauthorizedKeeps ==
    ASSUME SessionInv, NEW c \in Clients, req[c].pc \in {"validate", "lookup"},
           ~ShouldServe(c), AnswerSession(c, "unauthorized"), UNCHANGED Still
    PROVE  SessionInv'
<1>1. SessionRequestOK(c) /\ req[c].pc # "idle"
    BY DEF SessionInv
<1>2. PICK r \in SessionRequests :
             /\ req' = [req EXCEPT ![c] = r] /\ req'[c] = r
             /\ r.pc = "answered" /\ r.g = req[c].g /\ r.path = req[c].path /\ r.ip = req[c].ip
             /\ r.by = req[c].by /\ r.kind = "unauthorized" /\ r.startedAt = req[c].startedAt
             /\ r.key = req[c].key /\ r.revoked = req[c].revoked /\ r.tenant = req[c].tenant
             /\ r.flag = req[c].flag /\ r.tenants = req[c].tenants
    BY <1>1, AnsweredRequest
<1>3. ~ShouldServe(c)'
  <2>1. sessionClock' = sessionClock /\ revoked' = revoked /\ sessionBoot' = sessionBoot
      BY DEF Still
  <2>2. ~Serves(req[c], sessionClock, sessionBoot, revoked)
      BY ZenonT(30) DEF ShouldServe, Serves, SwitchedOff, SessionKey
  <2>3. SwitchedOff(req[c]) <=> SwitchedOff(req'[c])
      BY <1>2, ZenonT(30) DEF SwitchedOff
  <2>4. ~Serves(req'[c], sessionClock, sessionBoot, revoked)
      BY ONLY <1>2, <2>2, <2>3, SMTT(15) DEF Serves
  <2>5. ~Serves(req'[c], sessionClock', sessionBoot', revoked')
      BY <2>1, <2>4
  <2> QED BY <2>5, ZenonT(30) DEF ShouldServe, Serves, SwitchedOff, SessionKey
<1>4. SessionRequestOK(c)'
    BY ZenonT(30), <1>1, <1>2, <1>3 DEF SessionRequestOK, SeesFlag, Still, SessionKey
<1> QED BY ZenonT(30), <1>2, <1>4, OneRequest

LEMMA AuthenticateViaSessionKeeps ==
    ASSUME SessionInv, NEW c \in Clients, AuthenticateViaSession(c) PROVE SessionInv'
<1>1. req[c].pc = "validate" /\ UNCHANGED Still /\ SessionRequestOK(c)
    BY DEF AuthenticateViaSession, SessionInv
<1>2. CASE \A k \in req[c].by : /\ ValidateSessionToken(req[c].g, k, req[c].ip)
                                /\ k.tenant = req[c].path
  <2>1. WasGood(req[c]) /\ Goto(c, "lookup")
      BY <1>1, <1>2, ValidIsGood DEF AuthenticateViaSession
  <2>2. PICK r \in SessionRequests :
             /\ req' = [req EXCEPT ![c] = r] /\ req'[c] = r
             /\ r.pc = "lookup" /\ r.g = req[c].g /\ r.path = req[c].path /\ r.ip = req[c].ip
             /\ r.by = req[c].by /\ r.kind = req[c].kind /\ r.startedAt = req[c].startedAt
             /\ r.key = req[c].key /\ r.revoked = req[c].revoked /\ r.tenant = req[c].tenant
             /\ r.flag = req[c].flag /\ r.tenants = req[c].tenants
      BY <1>1, <2>1, GotoRequest
  <2>3. SessionRequestOK(c)'
      BY ZenonT(30), <1>1, <2>1, <2>2
      DEF SessionRequestOK, WasGood, SeesFlag, Still, SessionKey
  <2> QED BY ZenonT(30), <1>1, <2>2, <2>3, OneRequest
<1>3. CASE ~ \A k \in req[c].by : /\ ValidateSessionToken(req[c].g, k, req[c].ip)
                                  /\ k.tenant = req[c].path
    BY <1>1, <1>3, InvalidIsBad, UnauthorizedKeeps DEF AuthenticateViaSession
<1> QED BY <1>2, <1>3

LEMMA LookupTenantKeeps ==
    ASSUME SessionInv, NEW c \in Clients, LookupTenant(c) PROVE SessionInv'
<1>1. req[c].pc = "lookup" /\ UNCHANGED Still /\ SessionRequestOK(c)
    BY DEF LookupTenant, SessionInv
<1>2. WasGood(req[c]) /\ tenant[req[c].path] \in req[c].tenants
    BY <1>1, Zenon DEF SessionRequestOK
<1>3. CASE GetTenant(c) /\ Goto(c, "handle")
  <2>1. PICK r \in SessionRequests :
             /\ req' = [req EXCEPT ![c] = r] /\ req'[c] = r
             /\ r.pc = "handle" /\ r.g = req[c].g /\ r.path = req[c].path /\ r.ip = req[c].ip
             /\ r.by = req[c].by /\ r.kind = req[c].kind /\ r.startedAt = req[c].startedAt
             /\ r.key = req[c].key /\ r.revoked = req[c].revoked /\ r.tenant = req[c].tenant
             /\ r.flag = req[c].flag /\ r.tenants = req[c].tenants
      BY <1>1, <1>3, GotoRequest
  <2>2. req[c].tenant # "deleted"
      BY <1>1, <1>3 DEF GetTenant, SessionRequestOK
  <2>3. SessionRequestOK(c)'
      BY ZenonT(30), <1>1, <1>2, <2>1, <2>2
      DEF SessionRequestOK, WasGood, SeesFlag, Still, SessionKey
  <2> QED BY ZenonT(30), <1>1, <2>1, <2>3, OneRequest
<1>4. CASE ~GetTenant(c) /\ AnswerSession(c, "unauthorized")
  <2>1. CASE req[c].by = {}
    <3>1. PICK r \in SessionRequests :
             /\ req' = [req EXCEPT ![c] = r] /\ req'[c] = r
             /\ r.pc = "answered" /\ r.g = req[c].g /\ r.path = req[c].path /\ r.ip = req[c].ip
             /\ r.by = req[c].by /\ r.kind = "unauthorized" /\ r.startedAt = req[c].startedAt
             /\ r.key = req[c].key /\ r.revoked = req[c].revoked /\ r.tenant = req[c].tenant
             /\ r.flag = req[c].flag /\ r.tenants = req[c].tenants
        BY <1>1, <1>4, AnsweredRequest
    <3>2. SessionRequestOK(c)'
        BY ZenonT(30), <1>1, <2>1, <3>1 DEF SessionRequestOK, SeesFlag, Still, SessionKey
    <3> QED BY ZenonT(30), <1>1, <3>1, <3>2, OneRequest
  <2>2. CASE req[c].by # {}
    <3>1. ~ShouldServe(c)
        BY <1>2, <1>4, <2>2, ZenonT(30) DEF ShouldServe, GetTenant
    <3> QED BY <1>1, <1>4, <3>1, UnauthorizedKeeps
  <2> QED BY <2>1, <2>2
<1>5. CASE AnswerSession(c, "lookup_failed")
  <2>1. PICK r \in SessionRequests :
             /\ req' = [req EXCEPT ![c] = r] /\ req'[c] = r
             /\ r.pc = "answered" /\ r.g = req[c].g /\ r.path = req[c].path /\ r.ip = req[c].ip
             /\ r.by = req[c].by /\ r.kind = "lookup_failed" /\ r.startedAt = req[c].startedAt
             /\ r.key = req[c].key /\ r.revoked = req[c].revoked /\ r.tenant = req[c].tenant
             /\ r.flag = req[c].flag /\ r.tenants = req[c].tenants
      BY <1>1, <1>5, AnsweredRequest
  <2>2. SessionRequestOK(c)'
      BY ZenonT(30), <1>1, <2>1 DEF SessionRequestOK, SeesFlag, Still, SessionKey
  <2> QED BY ZenonT(30), <1>1, <2>1, <2>2, OneRequest
<1> QED BY <1>3, <1>4, <1>5 DEF LookupTenant

\* A token that is issued is new, and its entry in the cache outlives it.
LEMMA IssueKeeps ==
    ASSUME SessionInv, NEW g \in Gateways, NEW t \in Tenants, NEW ip \in IPs \cup {UnknownIP},
           IssueSessionToken(g, t, ip), UNCHANGED <<sessionClock, sessionBoot, revoked>>
    PROVE  /\ tokens \subseteq tokens' /\ tokens' \subseteq SessionTokens /\ IsFiniteSet(tokens')
           /\ sessions' \in [Gateways -> SUBSET (Nat \X Nat)]
           /\ TokensOK' /\ CacheExact'
<1> DEFINE n == Cardinality(tokens)
           claims == [id |-> n + 1, tenant |-> t, ip |-> ip,
                      exp |-> Unix(sessionClock + 2 * SessionTTL), key |-> SessionKey(g)]
           entry == <<n + 1, sessionClock + SessionCacheTTL>>
<1>1. /\ tokens' = tokens \cup {claims}
      /\ sessions' = [sessions EXCEPT ![g] = @ \cup {entry}]
    BY DEF IssueSessionToken
<1>2. n \in Nat /\ IsFiniteSet(tokens)
    BY FS_CardinalityType DEF SessionInv, SessionTypes
<1>3. /\ sessionClock \in Nat /\ SessionTTL \in Nat /\ SessionCachePadding \in Nat
      /\ SessionCachePadding >= 1
    BY McpSessionAssumption DEF SessionInv, SessionTypes
<1>4. /\ claims \in SessionTokens /\ claims.id = n + 1 /\ claims.key = SessionKey(g)
      /\ claims.exp = Unix(sessionClock + 2 * SessionTTL) /\ claims.exp \in Nat
    BY <1>2, <1>3 DEF SessionTokens, SessionKey, Unix, SessionInv, SessionTypes
<1>5. /\ entry \in Nat \X Nat /\ entry[1] = n + 1
      /\ 2 * Unix(sessionClock + 2 * SessionTTL) + 1 <= entry[2]
    BY <1>2, <1>3 DEF SessionCacheTTL, Unix
<1> HIDE DEF claims, entry
<1>6. claims \notin tokens
    BY <1>2, <1>4 DEF SessionInv, TokensOK
<1>7. IsFiniteSet(tokens') /\ Cardinality(tokens') = n + 1
    BY <1>1, <1>2, <1>6, FS_AddElement
<1>8. sessions' \in [Gateways -> SUBSET (Nat \X Nat)]
    BY <1>1, <1>5 DEF SessionInv, SessionTypes
<1>9. \A h \in Gateways : sessions'[h] = IF h = g THEN sessions[g] \cup {entry} ELSE sessions[h]
    BY <1>1 DEF SessionInv, SessionTypes
<1>10. \A k \in tokens : k.id \in Nat /\ k.id <= n /\ k.key[2] <= sessionBoot[k.key[1]]
    BY <1>2 DEF SessionInv, SessionTypes, TokensOK, SessionTokens
<1>11. sessionBoot[g] \in Nat /\ SessionKey(g)[1] = g /\ SessionKey(g)[2] = sessionBoot[g]
    BY DEF SessionKey, SessionInv, SessionTypes
<1>12. \A k \in tokens' : k.id <= n + 1 /\ k.key[2] <= sessionBoot[k.key[1]]
    BY ONLY <1>1, <1>2, <1>4, <1>10, <1>11, SMTT(15)
<1>13. /\ \A h \in Gateways : \A e \in sessions[h] : e[1] \in Nat /\ e[1] <= n
       /\ \A e \in revoked : e[2] \in Nat /\ e[2] <= n
    BY DEF SessionInv, SessionTypes, TokensOK
<1>14. /\ \A h \in Gateways : \A e \in sessions'[h] : e[1] <= n + 1
       /\ \A e \in revoked : e[2] <= n + 1
    BY <1>2, <1>5, <1>9, <1>13
<1>15. TokensOK'
    BY <1>7, <1>12, <1>14 DEF TokensOK
<1>16. \A h \in Gateways : SessionKey(h)' = SessionKey(h) /\ (SessionKey(h) = SessionKey(g) => h = g)
    BY DEF SessionKey
<1>17. ASSUME NEW k \in tokens', NEW h \in Gateways, k.key = SessionKey(h)
       PROVE  \/ <<h, k.id>> \in revoked
              \/ \E e \in sessions'[h] : e[1] = k.id /\ 2 * k.exp + 1 <= e[2]
  <2>1. CASE k \in tokens
    <3>1. \/ <<h, k.id>> \in revoked
          \/ \E e \in sessions[h] : e[1] = k.id /\ 2 * k.exp + 1 <= e[2]
        BY <1>17, <2>1 DEF SessionInv, CacheExact
    <3> QED BY <1>9, <3>1
  <2>2. CASE k = claims
    <3>1. h = g /\ entry \in sessions'[h]
        BY <1>4, <1>9, <1>16, <1>17, <2>2
    <3> QED BY <1>4, <1>5, <2>2, <3>1
  <2> QED BY <1>1, <2>1, <2>2
<1>18. ASSUME "revoke_all" \notin Ops, NEW h \in Gateways, NEW e \in sessions'[h]
       PROVE  <<h, e[1]>> \notin revoked
  <2>1. CASE e \in sessions[h]
      BY <1>18, <2>1 DEF SessionInv, CacheExact
  <2>2. CASE e = entry
      BY <1>2, <1>5, <1>13, <2>2
  <2> QED BY <1>9, <2>1, <2>2
<1>19. CacheExact'
    BY <1>16, <1>17, <1>18 DEF CacheExact
<1> QED BY <1>1, <1>4, <1>7, <1>8, <1>15, <1>19 DEF SessionInv, SessionTypes

LEMMA HandleInitializeSessionKeeps ==
    ASSUME SessionInv, NEW c \in Clients, HandleInitializeSession(c) PROVE SessionInv'
<1>1. /\ req[c].pc = "handle" /\ SessionRequestOK(c) /\ AnswerSession(c, "accepted")
      /\ UNCHANGED <<sessionClock, sessionBoot, tenant, flag, revoked, changes>>
    BY DEF HandleInitializeSession, SessionInv
<1>2. /\ req[c] \in SessionRequests /\ req[c].g \in Gateways /\ req[c].path \in Tenants
      /\ req[c].ip \in IPs \cup {UnknownIP}
  <2>1. req[c] \in SessionRequests
      BY <1>1 DEF SessionInv, SessionTypes, IdleRequest
  <2> QED BY ZenonT(30), <2>1 DEF SessionRequests
<1>3. /\ tokens \subseteq tokens' /\ tokens' \subseteq SessionTokens /\ IsFiniteSet(tokens')
      /\ sessions' \in [Gateways -> SUBSET (Nat \X Nat)]
      /\ TokensOK' /\ CacheExact'
  <2>1. CASE IssueSessionToken(req[c].g, req[c].path, req[c].ip)
      BY <1>1, <1>2, <2>1, IssueKeeps
  <2>2. CASE UNCHANGED <<tokens, sessions>>
    <3>1. TokensOK' /\ CacheExact'
        BY <1>1, <2>2 DEF SessionInv, TokensOK, CacheExact, SessionKey
    <3> QED BY <2>2, <3>1 DEF SessionInv, SessionTypes
  <2> QED BY ZenonT(30), <2>1, <2>2 DEF HandleInitializeSession
<1>4. PICK r \in SessionRequests :
             /\ req' = [req EXCEPT ![c] = r] /\ req'[c] = r
             /\ r.pc = "answered" /\ r.g = req[c].g /\ r.path = req[c].path /\ r.ip = req[c].ip
             /\ r.by = req[c].by /\ r.kind = "accepted" /\ r.startedAt = req[c].startedAt
             /\ r.key = req[c].key /\ r.revoked = req[c].revoked /\ r.tenant = req[c].tenant
             /\ r.flag = req[c].flag /\ r.tenants = req[c].tenants
    BY <1>1, AnsweredRequest
<1>5. SessionTypes'
    BY <1>1, <1>3, <1>4 DEF SessionInv, SessionTypes
<1>6. SessionRequestOK(c)'
    BY ZenonT(30), <1>1, <1>3, <1>4 DEF SessionRequestOK, WasGood, SeesFlag, SessionKey
<1>7. ASSUME NEW d \in Clients, d # c PROVE SessionRequestOK(d)'
  <2>1. req'[d] = req[d]
      BY <1>4, <1>7 DEF SessionInv, SessionTypes
  <2>2. CASE req[d].pc = "idle"
      BY <2>1, <2>2, IdleKept
  <2>3. CASE req[d].pc # "idle"
    <3>1. req[d] \in SessionRequests /\ SessionRequestOK(d)
        BY <2>3 DEF SessionInv, SessionTypes, IdleRequest
    <3>2. tenant[req[d].path] \in req[d].tenants
        BY ZenonT(30), <2>3, <3>1 DEF SessionRequestOK
    <3>3. SeesFlag(req[d])'
        BY ZenonT(30), <1>1, <2>1, <2>3, <3>1 DEF SessionRequestOK, SeesFlag
    <3>4. /\ sessionClock' \in Nat /\ sessionClock <= sessionClock'
          /\ sessionBoot' \in [Gateways -> Nat] /\ sessionBoot' = sessionBoot
          /\ \A g \in Gateways : sessionBoot[g] <= sessionBoot'[g]
        BY <1>1 DEF SessionInv, SessionTypes
    <3> QED BY <1>1, <1>3, <2>1, <2>3, <3>2, <3>3, <3>4, RequestKept, Zenon
  <2> QED BY <2>2, <2>3
<1> QED BY <1>3, <1>5, <1>6, <1>7 DEF SessionInv

LEMMA SessionTickKeeps == ASSUME SessionInv, SessionTick PROVE SessionInv'
<1>1. /\ sessionClock' = sessionClock + 1
      /\ UNCHANGED <<sessionBoot, sessions, tokens, tenant, flag, revoked, changes, req>>
    BY DEF SessionTick
<1>2. /\ sessionClock' \in Nat /\ sessionClock <= sessionClock'
      /\ sessionBoot' \in [Gateways -> Nat] /\ sessionBoot' = sessionBoot
      /\ \A g \in Gateways : sessionBoot[g] <= sessionBoot'[g]
    BY <1>1 DEF SessionInv, SessionTypes
<1>3. SessionTypes'
    BY <1>1, <1>2 DEF SessionInv, SessionTypes
<1>4. TokensOK' /\ CacheExact'
    BY ZenonT(30), <1>1 DEF SessionInv, TokensOK, CacheExact, SessionKey
<1>5. ASSUME NEW d \in Clients, req[d].pc # "idle" PROVE SessionRequestOK(d)'
  <2>1. SessionRequestOK(d)
      BY ZenonT(30) DEF SessionInv
  <2>2. tenant[req[d].path] \in req[d].tenants /\ SeesFlag(req[d])
      BY ZenonT(30), <1>5, <2>1 DEF SessionRequestOK
  <2>3. SeesFlag(req[d])'
      BY <1>1, <2>2 DEF SeesFlag
  <2> QED BY <1>1, <1>2, <1>5, <2>2, <2>3, RequestKept, Zenon
<1>6. ASSUME NEW d \in Clients, req[d].pc = "idle" PROVE SessionRequestOK(d)'
    BY <1>1, <1>6, IdleKept
<1> QED BY <1>3, <1>4, <1>5, <1>6 DEF SessionInv

\* A key of a process that has ended is no key of the next one.
LEMMA RestartGatewayKeeps ==
    ASSUME SessionInv, NEW g \in Gateways, RestartGateway(g) PROVE SessionInv'
<1>1. /\ sessionBoot' = [sessionBoot EXCEPT ![g] = @ + 1]
      /\ sessions' = [sessions EXCEPT ![g] = {}]
      /\ UNCHANGED <<sessionClock, tokens, tenant, flag, revoked, changes>>
    BY DEF RestartGateway
<1>2. /\ sessionBoot \in [Gateways -> Nat] /\ sessions \in [Gateways -> SUBSET (Nat \X Nat)]
      /\ sessionClock \in Nat
    BY DEF SessionInv, SessionTypes
<1>3. /\ sessionBoot' \in [Gateways -> Nat] /\ sessionBoot'[g] = sessionBoot[g] + 1
      /\ \A h \in Gateways : h # g => sessionBoot'[h] = sessionBoot[h]
      /\ \A h \in Gateways : sessionBoot[h] <= sessionBoot'[h]
    BY <1>1, <1>2
<1>4. /\ sessions' \in [Gateways -> SUBSET (Nat \X Nat)] /\ sessions'[g] = {}
      /\ \A h \in Gateways : h # g => sessions'[h] = sessions[h]
    BY <1>1, <1>2
<1>5. \A d \in Clients : req'[d] =
         IF req[d].pc \notin {"idle", "answered"} /\ req[d].g = g THEN IdleRequest ELSE req[d]
    BY DEF RestartGateway
<1>6. SessionTypes'
  <2>1. req' \in [Clients -> SessionRequests \cup {IdleRequest}]
      BY DEF RestartGateway, SessionInv, SessionTypes
  <2> QED BY <1>1, <1>3, <1>4, <2>1 DEF SessionInv, SessionTypes
<1>7. \A k \in tokens : /\ k.key \in Gateways \X Nat /\ k.key[1] \in Gateways /\ k.key[2] \in Nat
                        /\ k.key[2] <= sessionBoot[k.key[1]]
    BY DEF SessionInv, SessionTypes, TokensOK, SessionTokens
<1>8. TokensOK'
  <2>1. \A k \in tokens : k.key[2] <= sessionBoot'[k.key[1]]
    <3> SUFFICES ASSUME NEW k \in tokens PROVE k.key[2] <= sessionBoot'[k.key[1]]
        OBVIOUS
    <3>1. /\ k.key[1] \in Gateways /\ k.key[2] \in Nat /\ k.key[2] <= sessionBoot[k.key[1]]
          /\ sessionBoot[k.key[1]] \in Nat /\ sessionBoot'[k.key[1]] \in Nat
          /\ sessionBoot[k.key[1]] <= sessionBoot'[k.key[1]]
        BY <1>2, <1>3, <1>7
    <3> QED BY <3>1
  <2>2. \A h \in Gateways : sessions'[h] \subseteq sessions[h]
      BY <1>4
  <2> QED BY <1>1, <2>1, <2>2, Zenon DEF SessionInv, TokensOK
<1>9. CacheExact'
  <2>1. ASSUME NEW k \in tokens, NEW h \in Gateways, k.key = SessionKey(h)'
        PROVE  h # g /\ k.key = SessionKey(h)
    <3>1. k.key[1] = h /\ k.key[2] = sessionBoot'[h]
        BY <2>1 DEF SessionKey
    <3>2. h # g
        BY <1>2, <1>3, <1>7, <3>1
    <3> QED BY <1>3, <2>1, <3>2 DEF SessionKey
  <2>2. "revoke_all" \notin Ops =>
            \A h \in Gateways : \A e \in sessions'[h] : <<h, e[1]>> \notin revoked
      BY ZenonT(30), <1>4 DEF SessionInv, CacheExact
  <2>3. \A k \in tokens, h \in Gateways : k.key = SessionKey(h)' =>
            \/ <<h, k.id>> \in revoked
            \/ \E e \in sessions'[h] : e[1] = k.id /\ 2 * k.exp + 1 <= e[2]
      BY <1>4, <2>1 DEF SessionInv, CacheExact
  <2> QED BY <1>1, <2>2, <2>3 DEF CacheExact
<1>10. ASSUME NEW d \in Clients PROVE SessionRequestOK(d)'
  <2>1. CASE req'[d].pc = "idle"
      BY ZenonT(30), <2>1, IdleKept
  <2>2. CASE req'[d].pc # "idle"
    <3>1. /\ req'[d] = req[d] /\ req[d].pc # "idle"
          /\ req[d].pc # "answered" => req[d].g # g
        BY <1>5, <2>2 DEF IdleRequest
    <3>2. SessionRequestOK(d) /\ req[d] \in SessionRequests
      <4>1. SessionRequestOK(d) /\ req[d] \in SessionRequests \cup {IdleRequest}
          BY Zenon DEF SessionInv, SessionTypes
      <4>2. IdleRequest.pc = "idle"
          BY Zenon DEF IdleRequest
      <4> QED BY <3>1, <4>1, <4>2, Zenon
    <3>3. /\ tenant[req[d].path] \in req[d].tenants /\ SeesFlag(req[d])
          /\ req[d].g \in Gateways
        BY ZenonT(30), <3>1, <3>2 DEF SessionRequestOK, SessionRequests
    <3>4. SeesFlag(req[d])'
        BY <1>1, <3>1, <3>3 DEF SeesFlag
    <3>5. sessionClock' \in Nat /\ sessionClock <= sessionClock'
        BY <1>1, <1>2
    <3>6. req[d].pc # "answered" => sessionBoot'[req[d].g] = sessionBoot[req[d].g]
        BY <1>3, <3>1, <3>3
    <3> QED BY <1>1, <1>3, <3>1, <3>3, <3>4, <3>5, <3>6, RequestKept, Zenon
  <2> QED BY <2>1, <2>2
<1> QED BY <1>6, <1>8, <1>9, <1>10 DEF SessionInv

\* Requests as sessions are revoked, or a tenant or the feature changes.
LEMMA RevokeKeeps == ASSUME SessionInv, Revoke PROVE SessionInv'
<1>1. UNCHANGED <<sessionClock, sessionBoot, tokens, tenant, flag, req>>
    BY DEF Revoke
<1>2. /\ sessionClock' \in Nat /\ sessionClock <= sessionClock'
      /\ sessionBoot' \in [Gateways -> Nat] /\ sessionBoot' = sessionBoot
      /\ \A g \in Gateways : sessionBoot[g] <= sessionBoot'[g]
      /\ sessions \in [Gateways -> SUBSET (Nat \X Nat)] /\ revoked \subseteq Gateways \X Nat
    BY <1>1 DEF SessionInv, SessionTypes
<1>3. /\ \A k \in tokens : k.id \in Nat /\ k.id <= Cardinality(tokens)
      /\ \A g \in Gateways : \A e \in sessions[g] : e[1] \in Nat /\ e[1] <= Cardinality(tokens)
      /\ \A e \in revoked : e[2] <= Cardinality(tokens)
    BY DEF SessionInv, SessionTypes, SessionTokens, TokensOK
<1>4. /\ revoked \subseteq revoked' /\ revoked' \subseteq Gateways \X Nat
      /\ sessions' \in [Gateways -> SUBSET (Nat \X Nat)]
      /\ \A g \in Gateways : sessions'[g] \subseteq sessions[g]
      /\ \A e \in revoked' : e[2] <= Cardinality(tokens)
      /\ \A g \in Gateways : \A e \in sessions[g] : e \in sessions'[g] \/ <<g, e[1]>> \in revoked'
      /\ "revoke_all" \notin Ops =>
           \A g \in Gateways : \A e \in sessions'[g] : <<g, e[1]>> \notin revoked'
  <2>1. ASSUME NEW g \in Gateways, NEW e \in sessions[g], RevokeSession(g, e[1])
        PROVE  <1>4!:
    <3>1. /\ sessions' = [sessions EXCEPT ![g] = {f \in sessions[g] : f[1] # e[1]}]
          /\ revoked' = revoked \cup {<<g, e[1]>>}
        BY <2>1 DEF RevokeSession
    <3>2. e[1] \in Nat /\ e[1] <= Cardinality(tokens)
        BY <1>3
    <3>3. \A h \in Gateways : sessions'[h] =
             IF h = g THEN {f \in sessions[g] : f[1] # e[1]} ELSE sessions[h]
        BY <1>2, <3>1
    <3>4. sessions' \in [Gateways -> SUBSET (Nat \X Nat)]
        BY <1>2, <3>1
    <3>5. "revoke_all" \notin Ops =>
             \A h \in Gateways : \A f \in sessions'[h] : <<h, f[1]>> \notin revoked'
      <4> SUFFICES ASSUME "revoke_all" \notin Ops, NEW h \in Gateways, NEW f \in sessions'[h]
                   PROVE  <<h, f[1]>> \notin revoked'
          BY ZenonT(30)
      <4>1. f \in sessions[h] /\ (h = g => f[1] # e[1])
          BY ZenonT(30), <3>3
      <4>2. <<h, f[1]>> \notin revoked
          BY <4>1 DEF SessionInv, CacheExact
      <4>3. <<h, f[1]>> # <<g, e[1]>>
          BY <4>1
      <4> QED BY <3>1, <4>2, <4>3
    <3> QED BY <1>2, <1>3, <3>1, <3>2, <3>3, <3>4, <3>5
  <2>2. ASSUME NEW g \in Gateways, NEW t \in Tenants, RevokeAllForTenant(g, t), "revoke_all" \in Ops
        PROVE  <1>4!:
    <3>1. /\ revoked' = revoked \cup
               {<<g, k.id>> : k \in {k \in tokens : k.tenant = t /\ k.key = SessionKey(g)}}
          /\ sessions' = sessions
        BY <2>2 DEF RevokeAllForTenant
    <3>2. \A e \in revoked' : e \in revoked \/ \E k \in tokens : e = <<g, k.id>>
        BY <3>1
    <3>3. \A e \in revoked' : e \in Gateways \X Nat /\ e[2] <= Cardinality(tokens)
        BY <1>2, <1>3, <3>2
    <3>4. revoked \subseteq revoked'
        BY <3>1
    <3> QED BY <1>2, <2>2, <3>1, <3>3, <3>4
  <2> QED BY <2>1, <2>2, Zenon DEF Revoke, Change
<1>5. SessionTypes'
    BY <1>1, <1>4 DEF SessionInv, SessionTypes
<1>6. TokensOK'
    BY <1>1, <1>4 DEF SessionInv, TokensOK
<1>7. CacheExact'
    BY ZenonT(30), <1>1, <1>4 DEF SessionInv, CacheExact, SessionKey
<1>8. ASSUME NEW d \in Clients, req[d].pc # "idle" PROVE SessionRequestOK(d)'
  <2>1. SessionRequestOK(d)
      BY DEF SessionInv
  <2>2. tenant[req[d].path] \in req[d].tenants /\ SeesFlag(req[d])
      BY ZenonT(30), <1>8, <2>1 DEF SessionRequestOK
  <2>3. SeesFlag(req[d])'
      BY <1>1, <2>2 DEF SeesFlag
  <2> QED BY <1>1, <1>2, <1>4, <1>8, <2>2, <2>3, RequestKept, Zenon
<1>9. ASSUME NEW d \in Clients, req[d].pc = "idle" PROVE SessionRequestOK(d)'
    BY <1>1, <1>9, IdleKept
<1> QED BY <1>5, <1>6, <1>7, <1>8, <1>9 DEF SessionInv

LEMMA AdministerTenantKeeps == ASSUME SessionInv, AdministerTenant PROVE SessionInv'
<1>1. /\ UNCHANGED <<sessionClock, sessionBoot, sessions, tokens, revoked>>
      /\ Watch(tenant', flag')
    BY DEF AdministerTenant
<1>2. /\ sessionClock' \in Nat /\ sessionClock <= sessionClock'
      /\ sessionBoot' \in [Gateways -> Nat] /\ sessionBoot' = sessionBoot
      /\ \A g \in Gateways : sessionBoot[g] <= sessionBoot'[g]
    BY <1>1 DEF SessionInv, SessionTypes
<1>3. /\ tenant' \in [Tenants -> TenantStates]
      /\ \A t \in Tenants : tenant[t] = "deleted" => tenant'[t] = "deleted"
    BY DEF AdministerTenant, SessionInv, SessionTypes, TenantStates
<1>4. flag' \in BOOLEAN
    BY ZenonT(30) DEF AdministerTenant, SessionInv, SessionTypes
<1>5. TokensOK' /\ CacheExact'
    BY <1>1, Zenon DEF SessionInv, TokensOK, CacheExact, SessionKey
<1>6. ASSUME NEW d \in Clients, req[d].pc # "idle"
      PROVE  /\ req'[d] \in SessionRequests
             /\ SessionRequestOK(d)'
  <2> DEFINE r == [req[d] EXCEPT !.tenants = @ \cup {tenant'[req[d].path]},
                                 !.flag = @ \cup {flag'}]
  <2>1. req'[d] = r
      BY <1>1, <1>6, ZenonT(30) DEF Watch
  <2>2. req[d] \in SessionRequests /\ SessionRequestOK(d)
      BY <1>6 DEF SessionInv, SessionTypes, IdleRequest
  <2>3. req[d].path \in Tenants /\ req[d].tenants \in SUBSET TenantStates
      BY ZenonT(30), <2>2 DEF SessionRequests
  <2>4. req[d].flag \in SUBSET BOOLEAN
      BY ZenonT(30), <2>2 DEF SessionRequests
  <2>5. req[d].tenants \cup {tenant'[req[d].path]} \in SUBSET TenantStates
      BY <1>3, <2>3
  <2>6. req[d].flag \cup {flag'} \in SUBSET BOOLEAN
      BY <1>4, <2>4, ZenonT(30)
  <2>7. /\ r \in SessionRequests /\ r.flag = req[d].flag \cup {flag'}
        /\ r.tenants = req[d].tenants \cup {tenant'[req[d].path]}
        /\ r.pc = req[d].pc /\ r.g = req[d].g /\ r.path = req[d].path
        /\ r.ip = req[d].ip /\ r.by = req[d].by /\ r.kind = req[d].kind
        /\ r.startedAt = req[d].startedAt /\ r.key = req[d].key
        /\ r.revoked = req[d].revoked /\ r.tenant = req[d].tenant
      BY ZenonT(30), <2>2, <2>5, <2>6 DEF SessionRequests
  <2> HIDE DEF r
  <2>8. SeesFlag(req[d])'
      BY <2>1, <2>7, ZenonT(30) DEF SeesFlag
  <2>9. /\ req[d].flag \subseteq req'[d].flag /\ req[d].tenants \subseteq req'[d].tenants
        /\ tenant'[req[d].path] \in req'[d].tenants
      BY <2>1, <2>7, ZenonT(30)
  <2>10. SessionRequestOK(d)'
      BY ZenonT(30), <1>1, <1>2, <1>3, <1>6, <2>1, <2>3, <2>7, <2>8, <2>9, RequestKept
  <2> QED BY <2>1, <2>7, <2>10, Zenon
<1>7. ASSUME NEW d \in Clients, req[d].pc = "idle"
      PROVE  req'[d] = req[d] /\ SessionRequestOK(d)'
  <2>1. req'[d] = req[d]
      BY ZenonT(30), <1>1, <1>7 DEF Watch
  <2> QED BY <1>7, <2>1, IdleKept
<1>8. req' \in [Clients -> SessionRequests \cup {IdleRequest}]
  <2>1. req' = [d \in Clients |-> req'[d]]
      BY <1>1, ZenonT(30) DEF Watch
  <2>2. \A d \in Clients : req'[d] \in SessionRequests \cup {IdleRequest}
      BY <1>6, <1>7 DEF SessionInv, SessionTypes
  <2> QED BY <2>1, <2>2, ZenonT(30)
<1>9. SessionTypes'
    BY <1>1, <1>2, <1>3, <1>4, <1>8 DEF SessionInv, SessionTypes
<1> QED BY <1>5, <1>6, <1>7, <1>9 DEF SessionInv

LEMMA NextSessionInv == SessionInv /\ [McpSessionNext]_mcpSessionVars => SessionInv'
<1> SUFFICES ASSUME SessionInv, [McpSessionNext]_mcpSessionVars PROVE SessionInv'
    OBVIOUS
<1>1. CASE UNCHANGED mcpSessionVars
  <2>1. /\ UNCHANGED <<sessionClock, sessionBoot, sessions, tokens, tenant, flag, revoked, req>>
      BY ZenonT(30), <1>1 DEF mcpSessionVars
  <2>2. SessionTypes' /\ TokensOK' /\ CacheExact'
      BY <2>1, Zenon DEF SessionInv, SessionTypes, TokensOK, CacheExact, SessionKey
  <2>3. ASSUME NEW d \in Clients PROVE SessionRequestOK(d)'
    <3>1. SessionRequestOK(d)
        BY DEF SessionInv
    <3>2. ShouldServe(d) <=> Serves(req[d], sessionClock, sessionBoot, revoked)
        BY ZenonT(30) DEF ShouldServe, Serves, SwitchedOff, SessionKey
    <3>3. ShouldServe(d)' <=> Serves(req'[d], sessionClock', sessionBoot', revoked')
        BY ZenonT(30) DEF ShouldServe, Serves, SwitchedOff, SessionKey
    <3>4. ShouldServe(d)' <=> ShouldServe(d)
        BY <2>1, <3>2, <3>3
    <3> QED
        BY ZenonT(30), <2>1, <3>1, <3>4
        DEF SessionRequestOK, SessionKey, WasGood, SeesFlag
  <2> QED BY <2>2, <2>3 DEF SessionInv
<1>2. CASE \E c \in Clients :
             \/ HandleSessionRequest(c) \/ AuthenticateMCPRequest(c) \/ Refused(c)
             \/ AuthenticateViaSession(c) \/ LookupTenant(c) \/ HandleInitializeSession(c)
    BY <1>2, HandleSessionRequestKeeps, AuthenticateMCPRequestKeeps, RefusedKeeps,
       AuthenticateViaSessionKeeps, LookupTenantKeeps, HandleInitializeSessionKeeps
<1>3. CASE SessionTick \/ Revoke \/ AdministerTenant \/ \E g \in Gateways : RestartGateway(g)
    BY <1>3, SessionTickKeeps, RevokeKeeps, AdministerTenantKeeps, RestartGatewayKeeps
<1> QED BY <1>1, <1>2, <1>3 DEF McpSessionNext

\* A request that was accepted for its session had, when it arrived, a token
\* of this process for its tenant and address, neither expired nor revoked,
\* of a tenant not deleted; and a token that is good to the end is accepted:
\* an entry that authenticateViaSession misses in the cache was revoked.
THEOREM SessionsExact == McpSessionSpec => []SessionsAreExact
<1>1. SessionInv => SessionsAreExact
  <2> SUFFICES ASSUME SessionInv PROVE SessionsAreExact
      OBVIOUS
  <2>1. ASSUME NEW c \in Clients, Accepted(c)
        PROVE  WasGood(req[c]) /\ req[c].tenant # "deleted"
    <3>1. SessionRequestOK(c) /\ req[c].pc = "answered" /\ req[c].kind = "accepted"
          /\ req[c].by # {}
        BY <2>1 DEF Accepted, BySession, SessionInv
    <3> QED BY <3>1, Zenon DEF SessionRequestOK
  <2>2. AcceptedSessionWasGood
      BY <2>1, ZenonT(30) DEF AcceptedSessionWasGood, WasGood
  <2>3. ASSUME NEW c \in Clients, BySession(c), ShouldServe(c)
        PROVE  req[c].kind \in {"accepted", "lookup_failed"}
    <3>1. SessionRequestOK(c) /\ req[c].pc = "answered" /\ req[c].by # {}
        BY <2>3 DEF BySession, SessionInv
    <3>2. req[c].kind \in {"", "unauthorized", "lookup_failed", "accepted"}
      <4>1. req[c] \in SessionRequests
          BY <3>1 DEF SessionInv, SessionTypes, IdleRequest
      <4> QED BY ZenonT(30), <4>1 DEF SessionRequests
    <3> QED BY ZenonT(30), <2>3, <3>1, <3>2 DEF SessionRequestOK
  <2> QED BY <2>2, <2>3 DEF SessionsAreExact, GoodSessionAccepted
<1> QED BY InitSessionInv, NextSessionInv, <1>1, PTL DEF McpSessionSpec
==============================================================================
