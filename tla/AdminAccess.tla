----------------------------- MODULE AdminAccess -----------------------------
(***************************************************************************)
(* Who may use the admin API: sign-in through an OpenID Connect provider,  *)
(* the admin sessions it leads to, and the check of scopes on the routes,  *)
(* for sessions and for API keys.                                          *)
(*                                                                         *)
(* A gateway keeps in memory the provider's endpoints and keys (one set,   *)
(* of the issuer it asked last), the key its sessions are signed with, and *)
(* the sessions.  Sign-in takes two requests, authorize and callback, and  *)
(* each is several steps between which others run.                         *)
(***************************************************************************)
EXTENDS Integers, FiniteSets, TLC

CONSTANTS
    Gateways, Users, Issuers,
    Configs,        \* records [enabled, issuer, domains, scopes]: the stored settings
    Domains,        \* domains of users' addresses
    KeyScopes,      \* scopes of the API keys in use
    Required,       \* scopes that routes require
    MaxSessions, MaxBoot, MaxChanges,
    Ops

AdminRead == "admin:read"
AdminWrite == "admin:write"

\* What is assumed of the constants.
AdminAccessAssumption ==
    /\ {MaxSessions, MaxBoot, MaxChanges} \subseteq Nat
    /\ \A k \in Configs : k.issuer \in Issuers /\ k.domains \subseteq Domains
    /\ Ops \subseteq {"config", "rotate", "restart", "logout", "route", "fail", "expire"}

VARIABLES
    config,         \* the sso_ keys of system_settings
    idpKey,         \* the key each issuer signs with at present
    boot,
    provider,       \* a gateway's discovery: {} or a record [issuer, key]
    sessions,       \* a gateway's cache of sessions
    tokens,         \* session tokens handed out
    expired,        \* of them, those past their eight hours
    ended,          \* of them, those that were logged out
    changes,
    req

vars == <<config, idpKey, boot, provider, sessions, tokens, expired, ended, changes, req>>
Idle == [pc |-> "idle", kind |-> ""]

Init ==
    /\ config \in Configs
    /\ idpKey = [i \in Issuers |-> 1]
    /\ boot = [g \in Gateways |-> 1]
    /\ provider = [g \in Gateways |-> {}]
    /\ sessions = [g \in Gateways |-> {}]
    /\ tokens = {} /\ expired = {} /\ ended = {}
    /\ changes = 0
    /\ req = [u \in Users |-> Idle]

Goto(u, pc) == req' = [req EXCEPT ![u].pc = pc]
Answer(u, status) == req' = [req EXCEPT ![u].pc = "answered", ![u].status = status]
Memory == <<boot, provider, sessions, tokens, expired, ended>>
World == <<config, idpKey, changes>>

\* Every process signs its sessions with a key of its own.
SigningKey(g) == <<g, boot[g]>>

\* A request begins.  "code" is the issuer where the user has signed in, if
\* the request is a callback; "configs" is every configuration it has met.
Begin(u, kind, g, fields) ==
    /\ req[u].pc \in {"idle", "answered"}
    /\ req' = [req EXCEPT ![u] = fields @@ [pc |-> kind, kind |-> kind, g |-> g, status |-> 0,
                                   cfg |-> config, configs |-> {config}, code |-> {},
                                   id |-> {}, key |-> SigningKey(g)]]
    /\ UNCHANGED <<Memory, World>>

-----------------------------------------------------------------------------
(* The provider, and sessions. *)

Discovery(g) == CHOOSE d \in provider[g] : TRUE

\* Discovery is kept as long as the issuer stays the same.
Discover(g, issuer) ==
    provider' = [provider EXCEPT ![g] =
        IF @ # {} /\ Discovery(g).issuer = issuer THEN @
        ELSE {[issuer |-> issuer, key |-> idpKey[issuer]]}]

\* The token that the provider's endpoint returns for a code: the provider
\* takes the codes that it gave out itself.
ExchangeCode(u, g) ==
    IF provider[g] = {} \/ req[u].code # {Discovery(g).issuer} THEN {}
    ELSE {[iss |-> Discovery(g).issuer, key |-> idpKey[Discovery(g).issuer], domain |-> d] :
             d \in Domains}

ValidateIDTokenAnyDomain(g, id, cfg) ==
    /\ id.key = Discovery(g).key /\ id.iss = cfg.issuer
ValidateIDToken(g, id, cfg) ==
    /\ id.iss = Discovery(g).issuer /\ id.key = Discovery(g).key
    /\ id.iss = cfg.issuer
    /\ cfg.domains # {} => id.domain \in cfg.domains

DefaultScopes(cfg) == IF cfg.scopes = {} THEN {AdminRead, AdminWrite} ELSE cfg.scopes

IssueSession(g, id, cfg) ==
    LET n == Cardinality(tokens) + 1
    IN  /\ n <= MaxSessions
        /\ tokens' = tokens \cup {[n |-> n, key |-> SigningKey(g), scopes |-> DefaultScopes(cfg),
                                   iss |-> id.iss, domain |-> id.domain]}
        /\ sessions' = [sessions EXCEPT ![g] = @ \cup {n}]

ValidateSessionStateless(g, k) == k.key = SigningKey(g) /\ k \notin expired
ValidateSession(g, k) ==
    /\ k.key = SigningKey(g)
    /\ k \notin expired
    /\ k.n \in sessions[g]

-----------------------------------------------------------------------------
(* Sign-in: GET /admin/auth/sso/authorize and /admin/auth/sso/callback. *)

\* A setting that cannot be read counts as sign-in being off.
ReadConfig(u, next) ==
    \/ config.enabled /\ req' = [req EXCEPT ![u].pc = next, ![u].cfg = config]
    \/ ~config.enabled /\ Answer(u, 400)
    \/ "fail" \in Ops /\ Answer(u, 400)

AuthorizeConfig(u) ==
    /\ req[u].pc = "authorize"
    /\ ReadConfig(u, "discover")
    /\ UNCHANGED <<Memory, World>>

AuthorizeDiscover(u) ==
    /\ req[u].pc = "discover"
    /\ \/ Discover(req[u].g, req[u].cfg.issuer) /\ Goto(u, "url")
       \/ "fail" \in Ops /\ Answer(u, 502) /\ UNCHANGED provider
    /\ UNCHANGED <<boot, sessions, tokens, expired, ended, World>>

\* The URL is that of whatever discovery the gateway holds now; the user goes
\* there, signs in, and comes back with a code.
AuthorizationURL(u) ==
    /\ req[u].pc = "url"
    /\ req' = [req EXCEPT ![u].pc = "answered", ![u].status = 200,
                          ![u].code = {Discovery(req[u].g).issuer}]
    /\ UNCHANGED <<Memory, World>>

HandleSSOCallback(u) ==
    /\ req[u].pc = "answered" /\ req[u].kind = "authorize" /\ req[u].code # {}
    /\ \E g \in Gateways : Begin(u, "callback", g, [code |-> req[u].code])

CallbackConfig(u) ==
    /\ req[u].pc = "callback"
    /\ ReadConfig(u, "exchange")
    /\ UNCHANGED <<Memory, World>>

\* The client's secret is resolved first, and may not be.
CallbackExchange(u) ==
    /\ req[u].pc = "exchange"
    /\ \/ \E id \in ExchangeCode(u, req[u].g) :
            req' = [req EXCEPT ![u].pc = "id_token", ![u].id = {id}]
       \/ ExchangeCode(u, req[u].g) = {} /\ Answer(u, 502)
       \/ "fail" \in Ops /\ Answer(u, 500)
    /\ UNCHANGED <<Memory, World>>

CallbackIssue(u) ==
    LET id == CHOOSE i \in req[u].id : TRUE
    IN  /\ req[u].pc = "id_token"
        /\ IF ValidateIDToken(req[u].g, id, req[u].cfg)
           THEN IssueSession(req[u].g, id, req[u].cfg) /\ Answer(u, 200)
           ELSE Answer(u, 401) /\ UNCHANGED <<sessions, tokens>>
        /\ UNCHANGED <<boot, provider, expired, ended, World>>

-----------------------------------------------------------------------------
(* Routes. *)

\* admin:read covers what reads, exports or simulates, admin:write the rest.
IsReadLikeScope(s) == s \in {AdminRead, "read", "export", "simulate"}
HasScopeEither(scopes, s) == s \in scopes \/ AdminRead \in scopes \/ AdminWrite \in scopes
HasScope(scopes, s) ==
    \/ s \in scopes
    \/ IF IsReadLikeScope(s) THEN AdminRead \in scopes ELSE AdminWrite \in scopes

\* A request presents a session token or an API key with some scopes.
RouteBegin(u) ==
    /\ "route" \in Ops
    /\ \E g \in Gateways, s \in Required, tenantRoute \in BOOLEAN,
          by \in {{k} : k \in tokens} \cup {{}}, scopes \in KeyScopes :
         /\ by # {} => scopes = {}
         /\ Begin(u, "route", g, [by |-> by, scopes |-> scopes, need |-> s,
                                  tenantRoute |-> tenantRoute, claims |-> {},
                                  alive |-> {k \in by \ (expired \cup ended) :
                                               k.key = SigningKey(g)}])

\* The middleware of the tenant routes: a session first, else an API key.
\* The other routes have none.
RequireTenantVisible(u) ==
    /\ req[u].pc = "route"
    /\ IF req[u].tenantRoute /\ req[u].by # {}
       THEN IF \E k \in req[u].by : ValidateSession(req[u].g, k)
            THEN req' = [req EXCEPT ![u].pc = "scope", ![u].claims = @ \cup req[u].by]
            ELSE Answer(u, 401)
       ELSE Goto(u, "scope")
    /\ UNCHANGED <<Memory, World>>

\* The claims of a session are those the middleware left, if it ran; what is
\* no session counts as an API key, and a session's token is none.
RequireAdminScope(u) ==
    /\ req[u].pc = "scope"
    /\ LET held == UNION {k.scopes : k \in req[u].claims} \cup req[u].scopes
       IN  CASE req[u].by # {} /\ req[u].claims = {} -> Answer(u, 401)
             [] OTHER -> Answer(u, IF HasScope(held, req[u].need) THEN 200 ELSE 403)
    /\ UNCHANGED <<Memory, World>>

HandleSSOLogout(u) ==
    /\ "logout" \in Ops
    /\ req[u].pc \in {"idle", "answered"}
    /\ \E g \in Gateways, k \in tokens :
         /\ ValidateSession(g, k)
         /\ sessions' = [sessions EXCEPT ![g] = @ \ {k.n}]
         /\ ended' = ended \cup {k}
    /\ UNCHANGED <<boot, provider, tokens, expired, World, req>>

-----------------------------------------------------------------------------
(* What happens meanwhile. *)

Change(op) == op \in Ops /\ changes < MaxChanges /\ changes' = changes + 1

\* PUT /admin/settings/sso-config and sso-enabled.
SetSSOConfig ==
    /\ Change("config")
    /\ config' \in Configs \ {config}
    /\ req' = [u \in Users |-> IF req[u].pc = "idle" THEN req[u]
                               ELSE [req[u] EXCEPT !.configs = @ \cup {config'}]]
    /\ UNCHANGED <<idpKey, Memory>>

\* The provider replaces its signing key, which it may do at any time.
RotateIdpKey ==
    /\ Change("rotate")
    /\ \E i \in Issuers : idpKey' = [idpKey EXCEPT ![i] = @ + 1]
    /\ UNCHANGED <<config, Memory, req>>

Expire ==
    /\ "expire" \in Ops
    /\ \E k \in tokens \ expired : expired' = expired \cup {k}
    /\ UNCHANGED <<World, boot, provider, sessions, tokens, ended, req>>

\* InitSSOComponents: no discovery, a new key, no sessions.
Restart(g) ==
    /\ "restart" \in Ops /\ boot[g] < MaxBoot
    /\ boot' = [boot EXCEPT ![g] = @ + 1]
    /\ provider' = [provider EXCEPT ![g] = {}]
    /\ sessions' = [sessions EXCEPT ![g] = {}]
    /\ req' = [u \in Users |-> IF req[u].pc \notin {"idle", "answered"} /\ req[u].g = g
                               THEN Idle ELSE req[u]]
    /\ UNCHANGED <<World, tokens, expired, ended>>

Next ==
    \/ \E u \in Users :
         \/ \E g \in Gateways : Cardinality(tokens) < MaxSessions /\ Begin(u, "authorize", g, [code |-> {}])
         \/ AuthorizeConfig(u) \/ AuthorizeDiscover(u) \/ AuthorizationURL(u)
         \/ HandleSSOCallback(u) \/ CallbackConfig(u) \/ CallbackExchange(u) \/ CallbackIssue(u)
         \/ RouteBegin(u) \/ RequireTenantVisible(u) \/ RequireAdminScope(u)
         \/ HandleSSOLogout(u)
    \/ SetSSOConfig \/ RotateIdpKey \/ Expire
    \/ \E g \in Gateways : Restart(g)

Spec == Init /\ [][Next]_vars

-----------------------------------------------------------------------------
(* Properties. *)

Done(u, kind) == req[u].kind = kind /\ req[u].pc = "answered"

\* However authorize requests, callbacks and changes of the settings are
\* interleaved, a callback that yields a session has met a configuration that
\* was enabled, names the issuer of the ID token, and allows the user's
\* domain (handleSSOCallback, ValidateIDToken).
SignInWasConfigured ==
    \A u \in Users : Done(u, "callback") /\ req[u].status = 200 =>
        \E id \in req[u].id, cfg \in req[u].configs :
            /\ cfg.enabled /\ cfg.issuer = id.iss
            /\ cfg.domains # {} => id.domain \in cfg.domains

\* A request that is served had the scope it needs or the umbrella scope for
\* it; and one that was served for a session had a session of this process
\* that was valid when the request began: not logged out, not expired.
ServedHadScope ==
    \A u \in Users : Done(u, "route") /\ req[u].status = 200 =>
        /\ LET held == UNION {k.scopes : k \in req[u].by} \cup req[u].scopes
           IN  \/ req[u].need \in held
               \/ req[u].need \in {"read", "export", "simulate"} /\ AdminRead \in held
               \/ req[u].need \notin {AdminRead, "read", "export", "simulate"} /\ AdminWrite \in held
        /\ req[u].alive = req[u].by

\* "Dual auth: SSO sessions and API keys work side-by-side" (README): what an
\* API key with some scopes may do, a session with them may do, on every
\* route.
SessionsWorkAsKeys ==
    \A u \in Users : Done(u, "route") /\ req[u].status = 401 => req[u].alive = {}

\* "Admin console supports SSO via any OIDC-compliant identity provider"
\* (README): while one enabled configuration is in force, a user of an
\* allowed domain with a token of the configured issuer is not turned away.
AllowedUserSignsIn ==
    \A u \in Users : Done(u, "callback") /\ req[u].status = 401 =>
        \A id \in req[u].id, cfg \in req[u].configs :
            ~(cfg.enabled /\ cfg.issuer = id.iss /\ (cfg.domains # {} => id.domain \in cfg.domains))
=============================================================================
