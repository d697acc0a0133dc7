------------------------------ MODULE McpSession ------------------------------
(***************************************************************************)
(* Session tokens of the MCP endpoint.  initialize answers with a token    *)
(* that is signed by a key of the gateway process and bound to a tenant    *)
(* and an address; later requests present it in place of the tenant's key. *)
(* The process keeps its sessions in a cache, where a missing entry means  *)
(* that the session was revoked.                                           *)
(*                                                                         *)
(* Time passes in half seconds, because the claims hold whole seconds and  *)
(* the cache does not.  Gateways restart; tenants are disabled and deleted *)
(* and the feature is switched off and on while requests are handled.      *)
(***************************************************************************)
EXTENDS Integers, FiniteSets

CONSTANTS
    Gateways,
    Tenants,
    Clients,
    IPs,            \* addresses of clients
    UnknownIP,      \* an address that could not be told
    SessionTTL,     \* lifetime of a token, in seconds
    SessionCachePadding,
    MaxSessionTime, MaxSessionBoot, MaxSessions, MaxChanges,
    Ops             \* what happens besides requests in this instance

ASSUME McpSessionAssumption ==
    /\ UnknownIP \notin IPs
    /\ SessionCachePadding \in Nat \ {0}
    /\ {SessionTTL, MaxSessionTime, MaxSessionBoot, MaxSessions, MaxChanges} \subseteq Nat
    /\ Ops \subseteq {"restart", "revoke", "revoke_all", "disable", "delete", "flag", "fail"}

VARIABLES
    sessionClock,   \* in half seconds
    sessionBoot,    \* how often a gateway has been started
    sessions,       \* a gateway's cache: pairs of a session and its expiry
    tokens,         \* every token that was handed out
    tenant,         \* "enabled", "disabled" or "deleted"
    flag,           \* the setting that switches session tokens on
    revoked,        \* sessions that RevokeSession or RevokeAllForTenant named
    changes,
    req

mcpSessionVars ==
    <<sessionClock, sessionBoot, sessions, tokens, tenant, flag, revoked, changes, req>>
IdleRequest == [pc |-> "idle"]

McpSessionInit ==
    /\ sessionClock = 0
    /\ sessionBoot = [g \in Gateways |-> 1]
    /\ sessions = [g \in Gateways |-> {}]
    /\ tokens = {}
    /\ tenant = [t \in Tenants |-> "enabled"]
    /\ flag = TRUE
    /\ revoked = {}
    /\ changes = 0
    /\ req = [c \in Clients |-> IdleRequest]

-----------------------------------------------------------------------------
(* The session manager of a process. *)

Unix(t) == t \div 2
SessionCacheTTLBare == 2 * SessionTTL
SessionCacheTTL == 2 * (SessionTTL + SessionCachePadding)

\* Every process signs with a key of its own.
SessionKey(g) == <<g, sessionBoot[g]>>

IssueSessionToken(g, t, ip) ==
    LET id == Cardinality(tokens) + 1
        claims == [id |-> id, tenant |-> t, ip |-> ip, exp |-> Unix(sessionClock + 2 * SessionTTL),
                   key |-> SessionKey(g)]
    IN  /\ Cardinality(tokens) < MaxSessions
        /\ tokens' = tokens \cup {claims}
        /\ sessions' = [sessions EXCEPT ![g] = @ \cup {<<id, sessionClock + SessionCacheTTL>>}]

Cached(g, id) == \E e \in sessions[g] : e[1] = id /\ sessionClock <= e[2]

ValidateTokenUncached(g, token, ip) ==
    /\ token.key = SessionKey(g)
    /\ Unix(sessionClock) <= token.exp
    /\ token.ip = UnknownIP \/ ip = UnknownIP \/ token.ip = ip
ValidateSessionToken(g, token, ip) ==
    /\ token.key = SessionKey(g)
    /\ Unix(sessionClock) <= token.exp
    /\ token.ip = UnknownIP \/ ip = UnknownIP \/ token.ip = ip
    /\ Cached(g, token.id)

\* Neither has a caller in the gateway; they are what the manager offers.
RevokeSession(g, id) ==
    /\ sessions' = [sessions EXCEPT ![g] = {e \in @ : e[1] # id}]
    /\ revoked' = revoked \cup {<<g, id>>}

\* Removes the entries whose key starts with the tenant and a colon.  Keys
\* are session ids, which start with "sess_".
RevokeAllForTenant(g, t) ==
    /\ revoked' = revoked \cup
         {<<g, k.id>> : k \in {k \in tokens : k.tenant = t /\ k.key = SessionKey(g)}}
    /\ UNCHANGED sessions

-----------------------------------------------------------------------------
(* Requests to /v1/mcp/:tenant_id. *)

Goto(c, pc) == req' = [req EXCEPT ![c].pc = pc]
AnswerSession(c, kind) == req' = [req EXCEPT ![c].pc = "answered", ![c].kind = kind]
Still == <<sessionClock, sessionBoot, sessions, tokens, tenant, flag, revoked, changes>>

\* A request presents a token, or else a good key of its tenant: keys are the
\* subject of TenantKeys.  The record keeps what held when it began.
HandleSessionRequest(c) ==
    /\ req[c].pc \in {"idle", "answered"}
    /\ \E g \in Gateways, path \in Tenants, ip \in IPs \cup {UnknownIP},
          init \in BOOLEAN, by \in {{}} \cup {{k} : k \in tokens} :
         /\ init => Cardinality(tokens) < MaxSessions
         /\ by = {} => init
         /\ req' = [req EXCEPT ![c] =
              [pc |-> "flag", g |-> g, path |-> path, ip |-> ip, init |-> init,
               by |-> by, kind |-> "", startedAt |-> sessionClock, key |-> SessionKey(g),
               revoked |-> revoked, tenant |-> tenant[path],
               flag |-> {flag}, tenants |-> {tenant[path]}]]
    /\ UNCHANGED Still

\* A setting that cannot be read counts as what the environment says, and a
\* gateway has a session manager only if that says yes.
FeatureSessionTokensEnabled(c, on) == on = flag \/ ("fail" \in Ops /\ on)

\* Without the feature a token is taken for a key, and is none.
AuthenticateMCPRequest(c) ==
    /\ req[c].pc = "flag"
    /\ \E on \in BOOLEAN :
         /\ FeatureSessionTokensEnabled(c, on)
         /\ \/ /\ req[c].by = {}
               /\ Goto(c, IF req[c].tenant = "enabled" THEN "handle" ELSE "refused")
            \/ req[c].by # {} /\ on /\ Goto(c, "validate")
            \/ req[c].by # {} /\ ~on /\ AnswerSession(c, "unauthorized")
    /\ UNCHANGED Still

AuthenticateViaSession(c) ==
    /\ req[c].pc = "validate"
    /\ IF \A k \in req[c].by : /\ ValidateSessionToken(req[c].g, k, req[c].ip)
                               /\ k.tenant = req[c].path
       THEN Goto(c, "lookup")
       ELSE AnswerSession(c, "unauthorized")
    /\ UNCHANGED Still

\* The row of a tenant that is disabled is found.
GetTenantAny(c) == TRUE
GetTenant(c) == tenant[req[c].path] # "deleted"

LookupTenant(c) ==
    /\ req[c].pc = "lookup"
    /\ \/ GetTenant(c) /\ Goto(c, "handle")
       \/ ~GetTenant(c) /\ AnswerSession(c, "unauthorized")
       \/ "fail" \in Ops /\ AnswerSession(c, "lookup_failed")
    /\ UNCHANGED Still

\* initialize issues a token whoever authenticated it, a session included.
HandleInitializeSession(c) ==
    /\ req[c].pc = "handle"
    /\ \/ /\ req[c].init
          /\ FeatureSessionTokensEnabled(c, TRUE)
          /\ IssueSessionToken(req[c].g, req[c].path, req[c].ip)
       \/ /\ req[c].init => FeatureSessionTokensEnabled(c, FALSE)
          /\ UNCHANGED <<tokens, sessions>>
    /\ AnswerSession(c, "accepted")
    /\ UNCHANGED <<sessionClock, sessionBoot, tenant, flag, revoked, changes>>

Refused(c) == req[c].pc = "refused" /\ AnswerSession(c, "unauthorized") /\ UNCHANGED Still

-----------------------------------------------------------------------------
(* What happens meanwhile. *)

\* Requests under way remember what became of their tenant and the feature.
Watch(newTenant, newFlag) ==
    req' = [c \in Clients |->
              IF req[c].pc = "idle" THEN req[c]
              ELSE [req[c] EXCEPT !.tenants = @ \cup {newTenant[req[c].path]},
                                  !.flag = @ \cup {newFlag}]]

SessionTick ==
    /\ sessionClock < MaxSessionTime
    /\ sessionClock' = sessionClock + 1
    /\ UNCHANGED <<sessionBoot, sessions, tokens, tenant, flag, revoked, changes, req>>

\* NewSessionManager: a new key and an empty cache.  Requests are lost.
RestartGateway(g) ==
    /\ "restart" \in Ops /\ sessionBoot[g] < MaxSessionBoot
    /\ sessionBoot' = [sessionBoot EXCEPT ![g] = @ + 1]
    /\ sessions' = [sessions EXCEPT ![g] = {}]
    /\ req' = [c \in Clients |->
                 IF req[c].pc \notin {"idle", "answered"} /\ req[c].g = g THEN IdleRequest
                 ELSE req[c]]
    /\ UNCHANGED <<sessionClock, tokens, tenant, flag, revoked, changes>>

Change(op) == op \in Ops /\ changes < MaxChanges /\ changes' = changes + 1

Revoke ==
    /\ \E g \in Gateways :
         \/ Change("revoke") /\ \E e \in sessions[g] : RevokeSession(g, e[1])
         \/ Change("revoke_all") /\ \E t \in Tenants : RevokeAllForTenant(g, t)
    /\ UNCHANGED <<sessionClock, sessionBoot, tokens, tenant, flag, req>>

AdministerTenant ==
    /\ \/ /\ Change("disable")
          /\ \E t \in Tenants : /\ tenant[t] # "deleted"
                                /\ tenant' = [tenant EXCEPT ![t] =
                                     IF @ = "enabled" THEN "disabled" ELSE "enabled"]
          /\ UNCHANGED flag
       \/ /\ Change("delete")
          /\ \E t \in Tenants : tenant[t] # "deleted" /\ tenant' = [tenant EXCEPT ![t] = "deleted"]
          /\ UNCHANGED flag
       \/ /\ Change("flag")
          /\ flag' = ~flag
          /\ UNCHANGED tenant
    /\ Watch(tenant', flag')
    /\ UNCHANGED <<sessionClock, sessionBoot, sessions, tokens, revoked>>

McpSessionNext ==
    \/ \E c \in Clients :
         \/ HandleSessionRequest(c) \/ AuthenticateMCPRequest(c) \/ Refused(c)
         \/ AuthenticateViaSession(c) \/ LookupTenant(c) \/ HandleInitializeSession(c)
    \/ SessionTick
    \/ \E g \in Gateways : RestartGateway(g)
    \/ Revoke
    \/ AdministerTenant

McpSessionSpec == McpSessionInit /\ [][McpSessionNext]_mcpSessionVars

-----------------------------------------------------------------------------
(* Properties. *)

BySession(c) == req[c].pc = "answered" /\ req[c].by # {}
Accepted(c) == BySession(c) /\ req[c].kind = "accepted"

\* A request that was accepted for its token had a token of this very process
\* for the tenant in its path and for its address; and when it arrived, the
\* token had not expired, the session had not been revoked by its id, and the
\* tenant had not been deleted (authenticateViaSession, ValidateToken).
AcceptedSessionWasGood ==
    \A c \in Clients : Accepted(c) => \A k \in req[c].by :
        /\ k.key = req[c].key
        /\ k.tenant = req[c].path
        /\ UnknownIP \in {k.ip, req[c].ip} \/ k.ip = req[c].ip
        /\ Unix(req[c].startedAt) <= k.exp
        /\ "revoke_all" \notin Ops => <<req[c].g, k.id>> \notin req[c].revoked
        /\ req[c].tenant # "deleted"

\* The whole condition under which a session ought to be served by the
\* process that issued it, from the arrival of the request to its answer.
ShouldServe(c) ==
    \A k \in req[c].by :
       /\ k.key = SessionKey(req[c].g) /\ k.tenant = req[c].path
       /\ UnknownIP \in {k.ip, req[c].ip} \/ k.ip = req[c].ip
       /\ Unix(sessionClock) <= k.exp
       /\ <<req[c].g, k.id>> \notin revoked
       /\ "deleted" \notin req[c].tenants
       /\ FALSE \notin req[c].flag

\* Conversely a token that is good to the end is accepted: until its last
\* second the cache has not lost an entry, so that a missing one means, as
\* ValidateToken has it, that the session was revoked.
GoodSessionAccepted ==
    \A c \in Clients :
        BySession(c) /\ ShouldServe(c) => req[c].kind \in {"accepted", "lookup_failed"}

\* A request that was accepted for its session had a token of this process
\* for its tenant and address that was neither expired nor revoked, of a
\* tenant not deleted, when it arrived; and a token that is good to the end
\* is accepted, since until its last second the cache has not lost its entry
\* (authenticateViaSession, ValidateToken).
SessionsAreExact == AcceptedSessionWasGood /\ GoodSessionAccepted

\* docs/runbooks/upgrade-rollback.md on rolling restarts: "No in-memory
\* session state. Each request is independently authenticated and evaluated."
\* So a token is as good on one gateway as on another, before and after.
SessionOutlivesProcess ==
    \A c \in Clients : BySession(c) /\ req[c].kind = "unauthorized" =>
        \A k \in req[c].by :
        \/ k.tenant # req[c].path
        \/ UnknownIP \notin {k.ip, req[c].ip} /\ k.ip # req[c].ip
        \/ Unix(sessionClock) > k.exp

\* "Revocable per-session or per-tenant" (README): a request that begins
\* after the sessions of its tenant were revoked is not accepted for one.
RevokedIsRefused ==
    \A c \in Clients : Accepted(c) =>
        \A k \in req[c].by : <<req[c].g, k.id>> \notin req[c].revoked

\* "existence in store implies enabled for session scope"
\* (authenticateViaSession): a request is accepted only for a tenant that was
\* enabled at some moment of it.
AcceptedTenantEnabled ==
    \A c \in Clients : Accepted(c) => "enabled" \in req[c].tenants
=============================================================================
