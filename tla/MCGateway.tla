------------------------------ MODULE MCGateway ------------------------------
(***************************************************************************)
(* Safety of what serves a tenant's requests and reacts to them: in a      *)
(* behaviour one of the components below takes steps, which Init chooses,  *)
(* and the others stay as they were at the start.  They share no state, so *)
(* that this is the same as checking each of them alone.                   *)
(***************************************************************************)
EXTENDS ToolCall, RateLimit, McpRouting, McpSession, Provenance, Credentials,
        Notifications, Ticketing, JobLock, AuditTrail

VARIABLE part       \* the component that takes steps

Override(minute, day, scope) == [perMinute |-> minute, perDay |-> day, scope |-> scope]
NoOverride == Override(Unset, Unset, Unset)
ZeroOverride == Override(0, 1, "tenant_agent")
CodeLimits == Override(1, 2, "tenant_agent_tool")
TenantLimits == Override(Unset, Unset, "tenant")
NewLimits == Override(2, 1, "tenant_agent")
MCConfigs == {NewLimits}
MCOverrides == {NoOverride, ZeroOverride}

OneScope(t) == "read"
ListedFields == [listed |-> {"shown"}]
AllFields == {{"shown", "hidden"}}

Tracker(p, auto) == [provider |-> p, enabled |-> TRUE, auto |-> auto, secret |-> "s"]
Trackers ==
    {Tracker(p, TRUE) : p \in Providers \cup {""}} \cup
    {Tracker("jira", FALSE), [Tracker("jira", TRUE) EXCEPT !.enabled = FALSE]}
OneTenant == [a \in Approvals |-> "t"]

\* The components that do not take steps are in one of their initial states; a
\* tool call begins with every feature switched on and both upstreams, and the
\* administrator may change that before it or during it.
MCInit ==
    /\ part \in {"call", "rate", "routing", "session", "chain", "token", "secret",
                 "notice", "ticket", "job", "trail"}
    /\ ToolCallInit /\ RateLimitInit /\ McpRoutingInit /\ McpSessionInit
    /\ ProvenanceInit /\ OAuthInit /\ SecretInit /\ NoticeInit /\ TicketInit
    /\ JobInit /\ TrailInit
    /\ enabled = Features /\ tool = {"mcp", "http"}
    /\ part # "call" => mode = "enforce" /\ \A c \in Calls : call[c].proto = "rest"
    /\ part # "ticket" => config = [t \in TicketTenants |-> Tracker("jira", TRUE)]
    /\ part # "trail" => tier = "paid"

MCNext ==
    \/ /\ part = "call" /\ ToolCallNext
       /\ UNCHANGED <<part, rateLimitVars, mcpRoutingVars, mcpSessionVars,
                      provenanceVars, oauthVars, secretVars, noticeVars, ticketVars,
                      jobVars, trailVars>>
    \/ /\ part = "rate" /\ RateLimitNext
       /\ UNCHANGED <<part, toolCallVars, mcpRoutingVars, mcpSessionVars,
                      provenanceVars, oauthVars, secretVars, noticeVars, ticketVars,
                      jobVars, trailVars>>
    \/ /\ part = "routing" /\ McpRoutingNext
       /\ UNCHANGED <<part, toolCallVars, rateLimitVars, mcpSessionVars, provenanceVars,
                      oauthVars, secretVars, noticeVars, ticketVars, jobVars, trailVars>>
    \/ /\ part = "session" /\ McpSessionNext
       /\ UNCHANGED <<part, toolCallVars, rateLimitVars, mcpRoutingVars, provenanceVars,
                      oauthVars, secretVars, noticeVars, ticketVars, jobVars, trailVars>>
    \/ /\ part = "chain" /\ ProvenanceNext
       /\ UNCHANGED <<part, toolCallVars, rateLimitVars, mcpRoutingVars, mcpSessionVars,
                      oauthVars, secretVars, noticeVars, ticketVars, jobVars, trailVars>>
    \/ /\ part = "token" /\ OAuthNext
       /\ UNCHANGED <<part, toolCallVars, rateLimitVars, mcpRoutingVars, mcpSessionVars,
                      provenanceVars, secretVars, noticeVars, ticketVars, jobVars,
                      trailVars>>
    \/ /\ part = "secret" /\ SecretNext
       /\ UNCHANGED <<part, toolCallVars, rateLimitVars, mcpRoutingVars, mcpSessionVars,
                      provenanceVars, oauthVars, noticeVars, ticketVars, jobVars,
                      trailVars>>
    \/ /\ part = "notice" /\ NoticeNext
       /\ UNCHANGED <<part, toolCallVars, rateLimitVars, mcpRoutingVars, mcpSessionVars,
                      provenanceVars, oauthVars, secretVars, ticketVars, jobVars,
                      trailVars>>
    \/ /\ part = "ticket" /\ TicketNext
       /\ UNCHANGED <<part, toolCallVars, rateLimitVars, mcpRoutingVars, mcpSessionVars,
                      provenanceVars, oauthVars, secretVars, noticeVars, jobVars,
                      trailVars>>
    \/ /\ part = "job" /\ JobNext
       /\ UNCHANGED <<part, toolCallVars, rateLimitVars, mcpRoutingVars, mcpSessionVars,
                      provenanceVars, oauthVars, secretVars, noticeVars, ticketVars,
                      trailVars>>
    \/ /\ part = "trail" /\ TrailNext
       /\ UNCHANGED <<part, toolCallVars, rateLimitVars, mcpRoutingVars, mcpSessionVars,
                      provenanceVars, oauthVars, secretVars, noticeVars, ticketVars,
                      jobVars>>

mcVars ==
    <<part, toolCallVars, rateLimitVars, mcpRoutingVars, mcpSessionVars,
    provenanceVars, oauthVars, secretVars, noticeVars, ticketVars, jobVars,
    trailVars>>

MCSpec == MCInit /\ [][MCNext]_mcVars
=============================================================================
