--------------------------- MODULE MCAdministration ---------------------------
(***************************************************************************)
(* Safety of what administrators do: a behaviour is one of the components  *)
(* below, which Init chooses, or one of the first-run setup.  They share   *)
(* no state, so that this is the same as checking each of them alone;      *)
(* variables with the same name are one variable here.                     *)
(***************************************************************************)
EXTENDS Setup, Integers, Sequences

CONSTANT None

VARIABLES
    part,           \* the component that this behaviour is one of
    active, published, rows, sim, report, ver, before, created, locked, req,
    audit, prepared, call, row, writes, version, cache, look, acked, tenants,
    keys, adminHash, conf, auth, config, idpKey, boot, provider, sessions,
    tokens, expired, ended, changes, stored, audited, owner, members, given,
    events, pend, trailClock, tier, swept, pager, disturbed

vars ==
    <<part, setupVars, active, published, rows, sim, report, ver, before,
    created, locked, req, audit, prepared, call, row, writes, version, cache,
    look, acked, tenants, keys, adminHash, conf, auth, config, idpKey, boot,
    provider, sessions, tokens, expired, ended, changes, stored, audited,
    owner, members, given, events, pend, trailClock, tier, swept, pager,
    disturbed>>

Two == {"p", "q"}
Three == {"p", "q", "r"}

Ids == <<"a", "b", "rule_default_deny">>
Types == {<<"DATA", "DELETE">>, <<"MCP", "CALL">>, <<"ACCESS", "GRANT">>}
Effects == {"ALLOW", "DENY", "REQUIRE_APPROVAL"}
Rule(id, prio, effect, types, risks) ==
    [id |-> id, priority |-> prio, effect |-> effect, tools |-> {},
     types |-> types, risks |-> risks, ttl |-> -1]
Matchers == {<<{}, {}>>, <<{<<"DATA", "*">>}, {}>>,
             <<{<<"DATA", "DELETE">>, <<"MCP", "*">>}, {"HIGH"}>>}
Rules(id) ==
    {Rule(id, prio, effect, m[1], m[2]) :
       prio \in {1, 2, 1000}, effect \in Effects, m \in Matchers}
Policy(rules, default, fallbacks) ==
    [rules |-> rules, default |-> default, fallbacks |-> fallbacks]
PairPolicies ==
    {Policy(<<r, s>>, "DENY", TRUE) : r \in Rules("a"), s \in Rules("b")}
OddRules ==
    {[Rule("a", 1, "ALLOW", {<<"DATA", "PAINT">>}, {}) EXCEPT !.tools = {"t"}],
     [Rule("a", 1, "ALLOW", {<<"DATA", "DELETE">>}, {}) EXCEPT !.tools = {"t"}],
     [Rule("b", 1, "REQUIRE_APPROVAL", {}, {"LOW"}) EXCEPT !.ttl = 59],
     [Rule("b", 1, "REQUIRE_APPROVAL", {}, {"LOW"}) EXCEPT !.ttl = 60],
     Rule("rule_default_deny", 1, "DENY", {<<"MCP", "CALL">>}, {})}
OddPolicies ==
    {Policy(<<r>>, "DENY", TRUE) : r \in OddRules}
      \cup {Policy(<<>>, d, FALSE) : d \in Effects \cup {"MAYBE"}}
SomeRequests ==
    {[tool |-> "t", action |-> a, risk |-> r] :
       a \in Types, r \in {"LOW", "HIGH", "CRITICAL"}}
OddRequests ==
    {[tool |-> "t", action |-> <<"DATA", "DELETE">>, risk |-> r] : r \in {"HIGH", ""}}
      \cup {[tool |-> "u", action |-> <<"MCP", "CALL">>, risk |-> "HIGH"]}
Matched(id, prio, effect) == [rule_id |-> id, priority |-> prio, effect |-> effect]
Answer(d, matched) ==
    [shape |-> "object", version |-> "v", decision |-> d, risk |-> "LOW",
     rule |-> [id |-> "a", priority |-> 5], reasons |-> "ok",
     constraints |-> "ok", matched |-> matched, listed |-> TRUE]
SomeMatched == {Matched(id, prio, e) : id \in {"a", "b"}, prio \in {1, 2}, e \in Effects}
Good == Answer("ALLOW", <<>>)
Malformed ==
    {[Good EXCEPT !.shape = "empty"], [Good EXCEPT !.shape = "text"],
     [Good EXCEPT !.version = ""], Answer("MAYBE", <<>>),
     [Good EXCEPT !.risk = ""], [Good EXCEPT !.risk = "SOME"],
     [Good EXCEPT !.rule = [kind |-> "none"]], [Good EXCEPT !.rule.id = ""],
     [Good EXCEPT !.rule.priority = -1], [Good EXCEPT !.reasons = ""],
     [Good EXCEPT !.listed = FALSE]}
SomeOutputs ==
    {Answer(d, <<>>) : d \in Effects} \cup Malformed
      \cup {Answer("ALLOW", <<x, y>>) : x, y \in SomeMatched}
FewOutputs == {Good, Answer("ALLOW", <<Matched("a", 1, "DENY")>>)}

OneSecret == <<<<"s1">>>>
\* A first secret after none, then a second one in front of it.
TwoSecrets == <<<<"">>, <<"s1", "">>, <<"s2", "s1", "s2">>>>

Cfg(on, i, d, s) == [enabled |-> on, issuer |-> i, domains |-> d, scopes |-> s]
SomeConfigs ==
    {Cfg(TRUE, "a", {"x"}, {}), Cfg(TRUE, "b", {}, {"read"}), Cfg(FALSE, "a", {"x"}, {})}
RouteConfigs ==
    {Cfg(TRUE, "a", {}, s) : s \in {{}, {"admin:read"}, {"simulate", "write"}}}
SomeKeyScopes == {{}, {"admin:read"}, {"admin:write"}, {"simulate", "write"}}

\* Values at and beside the limits of each setting.
EdgeValues(k) ==
    CASE k \in {"default_approval_ttl", "session_token_ttl"} ->
           {<<59>>, <<60>>, <<86400>>, <<86401>>}
      [] k = "audit_retention" -> {<<29>>, <<30>>, <<90>>, <<91>>}
      [] k = "default_rate_limit" -> {<<1, 5>>, <<10, 10>>, <<6, 5>>, <<0, 1>>}
      [] k = "mcp_passthrough_upstream" -> {<<0>>, <<1>>, <<2>>}
\* Nothing is switched on.
EnvOff(k) == IF k = "session_token_ttl" THEN <<900>> ELSE <<0>>

Decision == INSTANCE PolicyDecision WITH
    RuleIDs <- Ids, ActionTypes <- Types, Tools <- {"t", "u"},
    Policies <- PairPolicies, Outputs <- SomeOutputs, Requests <- SomeRequests,
    Ops <- {}, MaxPolicies <- 1, MaxDecisions <- 1, Limit <- 2,
    BaseMayFail <- FALSE
Coverage == INSTANCE PolicyDecision WITH
    RuleIDs <- Ids, ActionTypes <- Types, Tools <- {"t", "u"},
    Policies <- OddPolicies, Outputs <- FewOutputs, Requests <- OddRequests,
    Ops <- {"report", "simulate"}, MaxPolicies <- 2, MaxDecisions <- 2,
    Limit <- 2, BaseMayFail <- FALSE
Lifecycle == INSTANCE PolicyLifecycle WITH
    Versions <- {"v1", "v2"}, First <- "v1", Texts <- {"x", "bad"},
    Broken <- {"bad"}, Sources <- {"s"}, Gateways <- {"g"}, Requests <- Two,
    Calls <- {}, Ops <- {"create", "structured", "publish", "rollback", "lock"}
Prepared == INSTANCE PolicyLifecycle WITH
    Versions <- {"v1", "v2"}, First <- "v1", Texts <- {"x", "y", "bad"},
    Broken <- {"bad"}, Sources <- {}, Gateways <- {"g"}, Requests <- {"r"},
    Calls <- Two, Ops <- {"update"}
ToolCache == INSTANCE ToolConfig WITH
    Gateways <- {"g", "h"}, Tools <- {"t"}, Registered <- {"t"},
    Batches <- {<<"t">>}, Actions <- {}, Requests <- {"r"}, Lookups <- Two,
    Ops <- {"config"}, HasConfig <- TRUE, Absent <- None
ToolAdmin == INSTANCE ToolConfig WITH
    Gateways <- {"g"}, Tools <- {"t", "u"}, Registered <- {"t"},
    Batches <- {<<"t", "u">>}, Actions <- {"a"}, Requests <- Two,
    Lookups <- {}, Ops <- {"config", "metadata", "create", "archive",
    "restore", "risk_set", "risk_delete", "import", "write_lock_on",
    "write_lock_off"}, HasConfig <- TRUE, Absent <- None
Key == INSTANCE TenantKeys WITH
    Gateways <- {"g", "h"}, Tenants <- {"t"}, SetupTenant <- "t",
    Keys <- {"k1", "k2"}, SetupKey <- "k1", SetupScheme <- "legacy",
    ChosenKey <- "own", AdminKey <- "admin", Configs <- TwoSecrets,
    MaxTenants <- 1, MaxActiveKeys <- 2, Requests <- {"r"}, Auths <- {"p"},
    Ops <- {"key_rotate", "key_revoke", "disable", "config"},
    Presented <- {"k1", "k2", "admin"}, Nobody <- None
Auth == INSTANCE TenantKeys WITH
    Gateways <- {"g"}, Tenants <- {"t"}, SetupTenant <- "t",
    Keys <- {"k1", "k2"}, SetupKey <- "k1", SetupScheme <- "legacy",
    ChosenKey <- "own", AdminKey <- "admin", Configs <- TwoSecrets,
    MaxTenants <- 1, MaxActiveKeys <- 2, Requests <- {"r"}, Auths <- Two,
    Ops <- {"key_rotate", "key_revoke", "disable", "config"},
    Presented <- {"k1", "k2", "admin"}, Nobody <- None
Tenant == INSTANCE TenantKeys WITH
    Gateways <- {"g"}, Tenants <- {"t", "u"}, SetupTenant <- "t",
    Keys <- {"k1", "k2", "k3"}, SetupKey <- "k1", SetupScheme <- "s1",
    ChosenKey <- "own", AdminKey <- "admin", Configs <- OneSecret,
    MaxTenants <- 2, MaxActiveKeys <- 2, Requests <- Two, Auths <- {"p"},
    Ops <- {"create", "key_create", "key_rotate", "key_revoke", "disable",
    "enable", "delete", "config", "write_lock"}, Presented <- {},
    Nobody <- None
SignIn == INSTANCE AdminAccess WITH
    Gateways <- {"g"}, Users <- Two, Issuers <- {"a", "b"},
    Configs <- SomeConfigs, Domains <- {"x", "y"}, KeyScopes <- {{}},
    Required <- {"read"}, MaxSessions <- 1, MaxBoot <- 2, MaxChanges <- 2,
    Ops <- {"config", "rotate", "restart", "fail"}
Route == INSTANCE AdminAccess WITH
    Gateways <- {"g"}, Users <- {"p"}, Issuers <- {"a"},
    Configs <- RouteConfigs, Domains <- {"x"}, KeyScopes <- SomeKeyScopes,
    Required <- {"admin:read", "read", "simulate", "write"}, MaxSessions <- 2,
    MaxBoot <- 2, MaxChanges <- 1,
    Ops <- {"route", "logout", "restart", "expire"}
Setting == INSTANCE AdminSettings WITH
    Requests <- Two, Values <- EdgeValues, Env <- EnvOff, LicensedDays <- 90,
    McpTools <- {1}, Keys <- {"default_rate_limit", "audit_retention",
    "default_approval_ttl", "feature_rate_limiting", "bootstrap_complete"},
    CanFail <- TRUE
Frozen == INSTANCE AdminSettings WITH
    Requests <- Three, Values <- EdgeValues, Env <- EnvOff, LicensedDays <- 90,
    McpTools <- {1},
    Keys <- {"enforcement_mode", "mcp_passthrough_upstream", "write_lock"},
    CanFail <- TRUE
Channel == INSTANCE NotificationConfig WITH
    Requests <- Two, Channels <- {"email", "slack_webhook"},
    Refs <- {"env://u", "aws://u"}, Builtin <- {"env://u"}, CanFail <- TRUE
Mailing == INSTANCE MailingLists WITH
    Requests <- Three, Lists <- {"l"}, Emails <- {"e1", "e2"},
    Tenants <- {"t"}, Addressed <- {<<"t", "l">>}
Listing == INSTANCE AuditTrail WITH
    Writers <- {"w"}, TrailTenants <- {}, EventIds <- 1 .. 3,
    Allowlist <- [listed |-> {"shown"}], ResourceTypes <- {"listed"},
    EventBodies <- {{"shown"}}, Res <- 1, FreeWindow <- 1, Retention <- 1,
    PageSize <- 1, Froms <- {0}, Tiers <- {"free", "paid"}, MaxTrailTime <- 2,
    NoFloor <- None

ASSUME
    /\ Lifecycle!PolicyLifecycleAssumption
    /\ Prepared!PolicyLifecycleAssumption
    /\ ToolCache!ToolConfigAssumption
    /\ ToolAdmin!ToolConfigAssumption
    /\ Key!TenantKeysAssumption
    /\ Auth!TenantKeysAssumption
    /\ Tenant!TenantKeysAssumption
    /\ SignIn!AdminAccessAssumption
    /\ Route!AdminAccessAssumption
    /\ Setting!AdminSettingsAssumption
    /\ Frozen!AdminSettingsAssumption
    /\ Channel!NotificationConfigAssumption
    /\ Mailing!MailingListsAssumption

\* A variable that the component does not have.
Off == "off"

PartInit ==
    \/ /\ part = "decision"
       /\ Decision!Init
       /\ ver = Off /\ before = Off /\ created = Off /\ locked = Off
       /\ req = Off /\ audit = Off /\ prepared = Off /\ call = Off /\ row = Off
       /\ writes = Off /\ version = Off /\ cache = Off /\ look = Off
       /\ acked = Off /\ tenants = Off /\ keys = Off /\ adminHash = Off
       /\ conf = Off /\ auth = Off /\ config = Off /\ idpKey = Off
       /\ boot = Off /\ provider = Off /\ sessions = Off /\ tokens = Off
       /\ expired = Off /\ ended = Off /\ changes = Off /\ stored = Off
       /\ audited = Off /\ owner = Off /\ members = Off /\ given = Off
       /\ events = Off /\ pend = Off /\ trailClock = Off /\ tier = Off
       /\ swept = Off /\ pager = Off /\ disturbed = Off
    \/ /\ part = "coverage"
       /\ Coverage!Init
       /\ ver = Off /\ before = Off /\ created = Off /\ locked = Off
       /\ req = Off /\ audit = Off /\ prepared = Off /\ call = Off /\ row = Off
       /\ writes = Off /\ version = Off /\ cache = Off /\ look = Off
       /\ acked = Off /\ tenants = Off /\ keys = Off /\ adminHash = Off
       /\ conf = Off /\ auth = Off /\ config = Off /\ idpKey = Off
       /\ boot = Off /\ provider = Off /\ sessions = Off /\ tokens = Off
       /\ expired = Off /\ ended = Off /\ changes = Off /\ stored = Off
       /\ audited = Off /\ owner = Off /\ members = Off /\ given = Off
       /\ events = Off /\ pend = Off /\ trailClock = Off /\ tier = Off
       /\ swept = Off /\ pager = Off /\ disturbed = Off
    \/ /\ part = "lifecycle"
       /\ Lifecycle!Init
       /\ published = Off /\ rows = Off /\ sim = Off /\ report = Off
       /\ row = Off /\ writes = Off /\ version = Off /\ cache = Off
       /\ look = Off /\ acked = Off /\ tenants = Off /\ keys = Off
       /\ adminHash = Off /\ conf = Off /\ auth = Off /\ config = Off
       /\ idpKey = Off /\ boot = Off /\ provider = Off /\ sessions = Off
       /\ tokens = Off /\ expired = Off /\ ended = Off /\ changes = Off
       /\ stored = Off /\ audited = Off /\ owner = Off /\ members = Off
       /\ given = Off /\ events = Off /\ pend = Off /\ trailClock = Off
       /\ tier = Off /\ swept = Off /\ pager = Off /\ disturbed = Off
    \/ /\ part = "prepared"
       /\ Prepared!Init
       /\ published = Off /\ rows = Off /\ sim = Off /\ report = Off
       /\ row = Off /\ writes = Off /\ version = Off /\ cache = Off
       /\ look = Off /\ acked = Off /\ tenants = Off /\ keys = Off
       /\ adminHash = Off /\ conf = Off /\ auth = Off /\ config = Off
       /\ idpKey = Off /\ boot = Off /\ provider = Off /\ sessions = Off
       /\ tokens = Off /\ expired = Off /\ ended = Off /\ changes = Off
       /\ stored = Off /\ audited = Off /\ owner = Off /\ members = Off
       /\ given = Off /\ events = Off /\ pend = Off /\ trailClock = Off
       /\ tier = Off /\ swept = Off /\ pager = Off /\ disturbed = Off
    \/ /\ part = "toolcache"
       /\ ToolCache!Init
       /\ active = Off /\ published = Off /\ rows = Off /\ sim = Off
       /\ report = Off /\ ver = Off /\ before = Off /\ created = Off
       /\ prepared = Off /\ call = Off /\ tenants = Off /\ keys = Off
       /\ adminHash = Off /\ conf = Off /\ auth = Off /\ config = Off
       /\ idpKey = Off /\ boot = Off /\ provider = Off /\ sessions = Off
       /\ tokens = Off /\ expired = Off /\ ended = Off /\ changes = Off
       /\ stored = Off /\ audited = Off /\ owner = Off /\ members = Off
       /\ given = Off /\ events = Off /\ pend = Off /\ trailClock = Off
       /\ tier = Off /\ swept = Off /\ pager = Off /\ disturbed = Off
    \/ /\ part = "tools"
       /\ ToolAdmin!Init
       /\ active = Off /\ published = Off /\ rows = Off /\ sim = Off
       /\ report = Off /\ ver = Off /\ before = Off /\ created = Off
       /\ prepared = Off /\ call = Off /\ tenants = Off /\ keys = Off
       /\ adminHash = Off /\ conf = Off /\ auth = Off /\ config = Off
       /\ idpKey = Off /\ boot = Off /\ provider = Off /\ sessions = Off
       /\ tokens = Off /\ expired = Off /\ ended = Off /\ changes = Off
       /\ stored = Off /\ audited = Off /\ owner = Off /\ members = Off
       /\ given = Off /\ events = Off /\ pend = Off /\ trailClock = Off
       /\ tier = Off /\ swept = Off /\ pager = Off /\ disturbed = Off
    \/ /\ part = "keys"
       /\ Key!Init
       /\ active = Off /\ published = Off /\ rows = Off /\ sim = Off
       /\ report = Off /\ ver = Off /\ before = Off /\ created = Off
       /\ audit = Off /\ prepared = Off /\ call = Off /\ row = Off
       /\ writes = Off /\ version = Off /\ cache = Off /\ look = Off
       /\ acked = Off /\ config = Off /\ idpKey = Off /\ boot = Off
       /\ provider = Off /\ sessions = Off /\ tokens = Off /\ expired = Off
       /\ ended = Off /\ changes = Off /\ stored = Off /\ audited = Off
       /\ owner = Off /\ members = Off /\ given = Off /\ events = Off
       /\ pend = Off /\ trailClock = Off /\ tier = Off /\ swept = Off
       /\ pager = Off /\ disturbed = Off
    \/ /\ part = "auths"
       /\ Auth!Init
       /\ active = Off /\ published = Off /\ rows = Off /\ sim = Off
       /\ report = Off /\ ver = Off /\ before = Off /\ created = Off
       /\ audit = Off /\ prepared = Off /\ call = Off /\ row = Off
       /\ writes = Off /\ version = Off /\ cache = Off /\ look = Off
       /\ acked = Off /\ config = Off /\ idpKey = Off /\ boot = Off
       /\ provider = Off /\ sessions = Off /\ tokens = Off /\ expired = Off
       /\ ended = Off /\ changes = Off /\ stored = Off /\ audited = Off
       /\ owner = Off /\ members = Off /\ given = Off /\ events = Off
       /\ pend = Off /\ trailClock = Off /\ tier = Off /\ swept = Off
       /\ pager = Off /\ disturbed = Off
    \/ /\ part = "tenants"
       /\ Tenant!Init
       /\ active = Off /\ published = Off /\ rows = Off /\ sim = Off
       /\ report = Off /\ ver = Off /\ before = Off /\ created = Off
       /\ audit = Off /\ prepared = Off /\ call = Off /\ row = Off
       /\ writes = Off /\ version = Off /\ cache = Off /\ look = Off
       /\ acked = Off /\ config = Off /\ idpKey = Off /\ boot = Off
       /\ provider = Off /\ sessions = Off /\ tokens = Off /\ expired = Off
       /\ ended = Off /\ changes = Off /\ stored = Off /\ audited = Off
       /\ owner = Off /\ members = Off /\ given = Off /\ events = Off
       /\ pend = Off /\ trailClock = Off /\ tier = Off /\ swept = Off
       /\ pager = Off /\ disturbed = Off
    \/ /\ part = "signin"
       /\ SignIn!Init
       /\ active = Off /\ published = Off /\ rows = Off /\ sim = Off
       /\ report = Off /\ ver = Off /\ before = Off /\ created = Off
       /\ locked = Off /\ audit = Off /\ prepared = Off /\ call = Off
       /\ row = Off /\ writes = Off /\ version = Off /\ cache = Off
       /\ look = Off /\ acked = Off /\ tenants = Off /\ keys = Off
       /\ adminHash = Off /\ conf = Off /\ auth = Off /\ stored = Off
       /\ audited = Off /\ owner = Off /\ members = Off /\ given = Off
       /\ events = Off /\ pend = Off /\ trailClock = Off /\ tier = Off
       /\ swept = Off /\ pager = Off /\ disturbed = Off
    \/ /\ part = "routes"
       /\ Route!Init
       /\ active = Off /\ published = Off /\ rows = Off /\ sim = Off
       /\ report = Off /\ ver = Off /\ before = Off /\ created = Off
       /\ locked = Off /\ audit = Off /\ prepared = Off /\ call = Off
       /\ row = Off /\ writes = Off /\ version = Off /\ cache = Off
       /\ look = Off /\ acked = Off /\ tenants = Off /\ keys = Off
       /\ adminHash = Off /\ conf = Off /\ auth = Off /\ stored = Off
       /\ audited = Off /\ owner = Off /\ members = Off /\ given = Off
       /\ events = Off /\ pend = Off /\ trailClock = Off /\ tier = Off
       /\ swept = Off /\ pager = Off /\ disturbed = Off
    \/ /\ part = "settings"
       /\ Setting!Init
       /\ active = Off /\ published = Off /\ rows = Off /\ sim = Off
       /\ report = Off /\ ver = Off /\ before = Off /\ created = Off
       /\ locked = Off /\ prepared = Off /\ call = Off /\ row = Off
       /\ writes = Off /\ version = Off /\ cache = Off /\ look = Off
       /\ acked = Off /\ tenants = Off /\ keys = Off /\ adminHash = Off
       /\ conf = Off /\ auth = Off /\ config = Off /\ idpKey = Off
       /\ boot = Off /\ provider = Off /\ sessions = Off /\ tokens = Off
       /\ expired = Off /\ ended = Off /\ changes = Off /\ audited = Off
       /\ owner = Off /\ members = Off /\ given = Off /\ events = Off
       /\ pend = Off /\ trailClock = Off /\ tier = Off /\ swept = Off
       /\ pager = Off /\ disturbed = Off
    \/ /\ part = "frozen"
       /\ Frozen!Init
       /\ active = Off /\ published = Off /\ rows = Off /\ sim = Off
       /\ report = Off /\ ver = Off /\ before = Off /\ created = Off
       /\ locked = Off /\ prepared = Off /\ call = Off /\ row = Off
       /\ writes = Off /\ version = Off /\ cache = Off /\ look = Off
       /\ acked = Off /\ tenants = Off /\ keys = Off /\ adminHash = Off
       /\ conf = Off /\ auth = Off /\ config = Off /\ idpKey = Off
       /\ boot = Off /\ provider = Off /\ sessions = Off /\ tokens = Off
       /\ expired = Off /\ ended = Off /\ changes = Off /\ audited = Off
       /\ owner = Off /\ members = Off /\ given = Off /\ events = Off
       /\ pend = Off /\ trailClock = Off /\ tier = Off /\ swept = Off
       /\ pager = Off /\ disturbed = Off
    \/ /\ part = "channels"
       /\ Channel!Init
       /\ active = Off /\ published = Off /\ rows = Off /\ sim = Off
       /\ report = Off /\ ver = Off /\ before = Off /\ created = Off
       /\ locked = Off /\ audit = Off /\ prepared = Off /\ call = Off
       /\ writes = Off /\ version = Off /\ cache = Off /\ look = Off
       /\ acked = Off /\ tenants = Off /\ keys = Off /\ adminHash = Off
       /\ conf = Off /\ auth = Off /\ config = Off /\ idpKey = Off
       /\ boot = Off /\ provider = Off /\ sessions = Off /\ tokens = Off
       /\ expired = Off /\ ended = Off /\ changes = Off /\ stored = Off
       /\ owner = Off /\ members = Off /\ given = Off /\ events = Off
       /\ pend = Off /\ trailClock = Off /\ tier = Off /\ swept = Off
       /\ pager = Off /\ disturbed = Off
    \/ /\ part = "lists"
       /\ Mailing!Init
       /\ active = Off /\ published = Off /\ rows = Off /\ sim = Off
       /\ report = Off /\ ver = Off /\ before = Off /\ created = Off
       /\ locked = Off /\ audit = Off /\ prepared = Off /\ call = Off
       /\ row = Off /\ writes = Off /\ version = Off /\ cache = Off
       /\ look = Off /\ acked = Off /\ tenants = Off /\ keys = Off
       /\ adminHash = Off /\ conf = Off /\ auth = Off /\ config = Off
       /\ idpKey = Off /\ boot = Off /\ provider = Off /\ sessions = Off
       /\ tokens = Off /\ expired = Off /\ ended = Off /\ changes = Off
       /\ stored = Off /\ audited = Off /\ events = Off /\ pend = Off
       /\ trailClock = Off /\ tier = Off /\ swept = Off /\ pager = Off
       /\ disturbed = Off
    \/ /\ part = "listing"
       /\ Listing!TrailInit
       /\ active = Off /\ published = Off /\ rows = Off /\ sim = Off
       /\ report = Off /\ ver = Off /\ before = Off /\ created = Off
       /\ locked = Off /\ req = Off /\ audit = Off /\ prepared = Off
       /\ call = Off /\ row = Off /\ writes = Off /\ version = Off
       /\ cache = Off /\ look = Off /\ acked = Off /\ tenants = Off
       /\ keys = Off /\ adminHash = Off /\ conf = Off /\ auth = Off
       /\ config = Off /\ idpKey = Off /\ boot = Off /\ provider = Off
       /\ sessions = Off /\ tokens = Off /\ expired = Off /\ ended = Off
       /\ changes = Off /\ stored = Off /\ audited = Off /\ owner = Off
       /\ members = Off /\ given = Off
    \/ /\ part = "setup"
       /\ active = Off /\ published = Off /\ rows = Off /\ sim = Off
       /\ report = Off /\ ver = Off /\ before = Off /\ created = Off
       /\ locked = Off /\ req = Off /\ audit = Off /\ prepared = Off
       /\ call = Off /\ row = Off /\ writes = Off /\ version = Off
       /\ cache = Off /\ look = Off /\ acked = Off /\ tenants = Off
       /\ keys = Off /\ adminHash = Off /\ conf = Off /\ auth = Off
       /\ config = Off /\ idpKey = Off /\ boot = Off /\ provider = Off
       /\ sessions = Off /\ tokens = Off /\ expired = Off /\ ended = Off
       /\ changes = Off /\ stored = Off /\ audited = Off /\ owner = Off
       /\ members = Off /\ given = Off /\ events = Off /\ pend = Off
       /\ trailClock = Off /\ tier = Off /\ swept = Off /\ pager = Off
       /\ disturbed = Off

Init ==
    /\ PartInit
    /\ SetupInit
    /\ part # "setup" => schema /\ payload = [r \in Setups |-> "p1"]

notSetup ==
    <<part, active, published, rows, sim, report, ver, before, created, locked,
    req, audit, prepared, call, row, writes, version, cache, look, acked,
    tenants, keys, adminHash, conf, auth, config, idpKey, boot, provider,
    sessions, tokens, expired, ended, changes, stored, audited, owner, members,
    given, events, pend, trailClock, tier, swept, pager, disturbed>>
notDecision ==
    <<part, setupVars, ver, before, created, locked, req, audit, prepared,
    call, row, writes, version, cache, look, acked, tenants, keys, adminHash,
    conf, auth, config, idpKey, boot, provider, sessions, tokens, expired,
    ended, changes, stored, audited, owner, members, given, events, pend,
    trailClock, tier, swept, pager, disturbed>>
notCoverage ==
    <<part, setupVars, ver, before, created, locked, req, audit, prepared,
    call, row, writes, version, cache, look, acked, tenants, keys, adminHash,
    conf, auth, config, idpKey, boot, provider, sessions, tokens, expired,
    ended, changes, stored, audited, owner, members, given, events, pend,
    trailClock, tier, swept, pager, disturbed>>
notLifecycle ==
    <<part, setupVars, published, rows, sim, report, row, writes, version,
    cache, look, acked, tenants, keys, adminHash, conf, auth, config, idpKey,
    boot, provider, sessions, tokens, expired, ended, changes, stored, audited,
    owner, members, given, events, pend, trailClock, tier, swept, pager,
    disturbed>>
notPrepared ==
    <<part, setupVars, published, rows, sim, report, row, writes, version,
    cache, look, acked, tenants, keys, adminHash, conf, auth, config, idpKey,
    boot, provider, sessions, tokens, expired, ended, changes, stored, audited,
    owner, members, given, events, pend, trailClock, tier, swept, pager,
    disturbed>>
notToolCache ==
    <<part, setupVars, active, published, rows, sim, report, ver, before,
    created, prepared, call, tenants, keys, adminHash, conf, auth, config,
    idpKey, boot, provider, sessions, tokens, expired, ended, changes, stored,
    audited, owner, members, given, events, pend, trailClock, tier, swept,
    pager, disturbed>>
notToolAdmin ==
    <<part, setupVars, active, published, rows, sim, report, ver, before,
    created, prepared, call, tenants, keys, adminHash, conf, auth, config,
    idpKey, boot, provider, sessions, tokens, expired, ended, changes, stored,
    audited, owner, members, given, events, pend, trailClock, tier, swept,
    pager, disturbed>>
notKey ==
    <<part, setupVars, active, published, rows, sim, report, ver, before,
    created, audit, prepared, call, row, writes, version, cache, look, acked,
    config, idpKey, boot, provider, sessions, tokens, expired, ended, changes,
    stored, audited, owner, members, given, events, pend, trailClock, tier,
    swept, pager, disturbed>>
notAuth ==
    <<part, setupVars, active, published, rows, sim, report, ver, before,
    created, audit, prepared, call, row, writes, version, cache, look, acked,
    config, idpKey, boot, provider, sessions, tokens, expired, ended, changes,
    stored, audited, owner, members, given, events, pend, trailClock, tier,
    swept, pager, disturbed>>
notTenant ==
    <<part, setupVars, active, published, rows, sim, report, ver, before,
    created, audit, prepared, call, row, writes, version, cache, look, acked,
    config, idpKey, boot, provider, sessions, tokens, expired, ended, changes,
    stored, audited, owner, members, given, events, pend, trailClock, tier,
    swept, pager, disturbed>>
notSignIn ==
    <<part, setupVars, active, published, rows, sim, report, ver, before,
    created, locked, audit, prepared, call, row, writes, version, cache, look,
    acked, tenants, keys, adminHash, conf, auth, stored, audited, owner,
    members, given, events, pend, trailClock, tier, swept, pager, disturbed>>
notRoute ==
    <<part, setupVars, active, published, rows, sim, report, ver, before,
    created, locked, audit, prepared, call, row, writes, version, cache, look,
    acked, tenants, keys, adminHash, conf, auth, stored, audited, owner,
    members, given, events, pend, trailClock, tier, swept, pager, disturbed>>
notSetting ==
    <<part, setupVars, active, published, rows, sim, report, ver, before,
    created, locked, prepared, call, row, writes, version, cache, look, acked,
    tenants, keys, adminHash, conf, auth, config, idpKey, boot, provider,
    sessions, tokens, expired, ended, changes, audited, owner, members, given,
    events, pend, trailClock, tier, swept, pager, disturbed>>
notFrozen ==
    <<part, setupVars, active, published, rows, sim, report, ver, before,
    created, locked, prepared, call, row, writes, version, cache, look, acked,
    tenants, keys, adminHash, conf, auth, config, idpKey, boot, provider,
    sessions, tokens, expired, ended, changes, audited, owner, members, given,
    events, pend, trailClock, tier, swept, pager, disturbed>>
notChannel ==
    <<part, setupVars, active, published, rows, sim, report, ver, before,
    created, locked, audit, prepared, call, writes, version, cache, look,
    acked, tenants, keys, adminHash, conf, auth, config, idpKey, boot,
    provider, sessions, tokens, expired, ended, changes, stored, owner,
    members, given, events, pend, trailClock, tier, swept, pager, disturbed>>
notMailing ==
    <<part, setupVars, active, published, rows, sim, report, ver, before,
    created, locked, audit, prepared, call, row, writes, version, cache, look,
    acked, tenants, keys, adminHash, conf, auth, config, idpKey, boot,
    provider, sessions, tokens, expired, ended, changes, stored, audited,
    events, pend, trailClock, tier, swept, pager, disturbed>>
notListing ==
    <<part, setupVars, active, published, rows, sim, report, ver, before,
    created, locked, req, audit, prepared, call, row, writes, version, cache,
    look, acked, tenants, keys, adminHash, conf, auth, config, idpKey, boot,
    provider, sessions, tokens, expired, ended, changes, stored, audited,
    owner, members, given>>

Next ==
    \/ part = "setup" /\ SetupNext /\ UNCHANGED notSetup
    \/ part = "decision" /\ Decision!Next /\ UNCHANGED notDecision
    \/ part = "coverage" /\ Coverage!Next /\ UNCHANGED notCoverage
    \/ part = "lifecycle" /\ Lifecycle!Next /\ UNCHANGED notLifecycle
    \/ part = "prepared" /\ Prepared!Next /\ UNCHANGED notPrepared
    \/ part = "toolcache" /\ ToolCache!Next /\ UNCHANGED notToolCache
    \/ part = "tools" /\ ToolAdmin!Next /\ UNCHANGED notToolAdmin
    \/ part = "keys" /\ Key!Next /\ UNCHANGED notKey
    \/ part = "auths" /\ Auth!Next /\ UNCHANGED notAuth
    \/ part = "tenants" /\ Tenant!Next /\ UNCHANGED notTenant
    \/ part = "signin" /\ SignIn!Next /\ UNCHANGED notSignIn
    \/ part = "routes" /\ Route!Next /\ UNCHANGED notRoute
    \/ part = "settings" /\ Setting!Next /\ UNCHANGED notSetting
    \/ part = "frozen" /\ Frozen!Next /\ UNCHANGED notFrozen
    \/ part = "channels" /\ Channel!Next /\ UNCHANGED notChannel
    \/ part = "lists" /\ Mailing!Next /\ UNCHANGED notMailing
    \/ part = "listing" /\ Listing!TrailNext /\ UNCHANGED notListing

Spec == Init /\ [][Next]_vars

------------------------------------------------------------------------------
\* A lookup that begins after a change of a tool was acknowledged, on
\* whatever gateway, does not return what was there before, if it could read
\* the version (getToolCached, bumpTenantConfigVersion).
FreshAfterAck ==
    part = "toolcache" => ToolCache!FreshAfterAck

\* A request that begins while administrators are locked out, and ends
\* before the lock is released, changes no tool, no policy and no setting of
\* a tenant (ensureAdminWritesAllowed).
WriteLockFreezes ==
    /\ part = "tools" => ToolAdmin!LockFreezes
    /\ part = "lifecycle" => Lifecycle!LockFreezesPolicies
    /\ part = "frozen" => Frozen!LockFreezesTenant

\* What the audit trail tells of a tool or a tenant was done; a change of
\* the active policy or of a setting that was acknowledged has its event,
\* with what was asked for; and a setting stored without one is that of a
\* request that failed or is still at work (emitAuditEvent after the write,
\* in every handler).
ChangesAreAudited ==
    /\ part = "tools" => ToolAdmin!AuditTellsWrite
    /\ part = "lifecycle" => Lifecycle!AckedIsAudited
    /\ part = "tenants" => Tenant!AckedIsDone
    /\ part = "settings" => Setting!ChangeIsAudited

\* Of a structured policy the matching rule of the highest priority decides,
\* the first of several; of the rules that a policy in Rego matched, none of
\* the highest priority is stricter than the decision; no tenant policy lets
\* a call through that the base policy wants approved; the coverage report
\* calls no endpoint unconfigured that only rules of an author decided; and
\* a simulation is never stricter than enforcement (Compile,
\* resolveDecision, MergeBasePolicyDecision).
StrictestRuleDecides ==
    /\ part = "decision" =>
         /\ Decision!HigherPriorityWins
         /\ Decision!StrictestOfHighest
         /\ Decision!BaseHolds
    /\ part = "coverage" =>
         /\ Coverage!CoverageSound
         /\ Coverage!SimulationNotStricter

\* Without the update that writes and publishes in one request, no policy is
\* active that does not compile; and a call is decided by the module that
\* the active version had when the call read it, whatever the gateway had
\* prepared under the name of that version (handlePolicyPublish,
\* evaluateTenantPolicy).
PolicyInForce ==
    /\ part = "lifecycle" => Lifecycle!ActiveCompiles
    /\ part = "prepared" => Prepared!DecidedByWhatWasRead

\* A request is accepted only with a key that was good at some moment of it;
\* a key that is good throughout is not refused if its hash is under a
\* secret the gateway knows; and when the deployment of a new secret is
\* over, every good key is known to every gateway. Lookups, revocations and
\* the upgrade of a hash are separate statements (AuthenticateTenant,
\* BuildTenantKeyHashCandidates).
KeysAreRecognised ==
    /\ part = "keys" =>
         /\ Key!AcceptedWasGood
         /\ Key!SettledKeyNotRefused
         /\ Key!DeployedSecretsKnowKeys
    /\ part = "auths" =>
         /\ Auth!AcceptedWasGood
         /\ Auth!SettledKeyNotRefused
         /\ Auth!DeployedSecretsKnowKeys

\* However authorize requests, callbacks and changes of the settings
\* interleave, a callback that yields a session has met a configuration that
\* was enabled, names the issuer and allows the domain; a request that is
\* served had the scope it needs, by a key or by a session valid when it
\* began (handleSSOCallback, requireAdminScope).
AdminsAreAuthorised ==
    /\ part = "signin" => SignIn!SignInWasConfigured
    /\ part = "routes" => Route!ServedHadScope

\* Whatever requests overlap and wherever they fail, the two numbers of a
\* stored rate limit belong together and lifetimes are in range; a channel
\* that is on has its address and its key; a request that ran alone leaves
\* what it is not about; and a mailing list has the members of one request,
\* or none when it is gone (the update handlers and UpdateMailingList).
ConfigurationStaysUsable ==
    /\ part = "settings" => Setting!StoredIsValid
    /\ part = "channels" =>
         /\ Channel!EnabledIsUsable
         /\ Channel!AloneKeepsRest
    /\ part = "lists" =>
         /\ Mailing!MembersOfOneRequest
         /\ Mailing!MembersHaveList

\* An administrator who has walked through the pages of the audit trail has
\* seen every event that was stored when the walk began and is still in the
\* window, whatever was written between two pages; rows that share a
\* created_at are the exception, since the listing has no tie-breaker
\* (handleAuditList, ListAuditEvents).
ListingIsComplete ==
    part = "listing" => Listing!WalkIsComplete
==============================================================================
