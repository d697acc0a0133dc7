------------------------------ MODULE McpRouting ------------------------------
(***************************************************************************)
(* A message to the MCP endpoint of a tenant, from its body to its answer: *)
(* parsing, the choice of a handler, the handlers that do not run a tool,  *)
(* and the forwarding of unknown methods to an MCP server.  tools/call is  *)
(* the subject of ToolCall.                                                *)
(*                                                                         *)
(* Handlers read tenant_config and tools by separate statements, while an  *)
(* administrator archives and restores tools and chooses the one that      *)
(* unknown methods are forwarded to.                                       *)
(***************************************************************************)
EXTENDS Integers

CONSTANTS
    Tools,          \* the tenant's tools, numbered in the order of their ids
    McpTools,       \* of them, those with an MCP transport and a URL
    DevTools,       \* of them, those that were seeded for development
    SpecTools,      \* of them, those with an OpenAPI specification
    DevAutoTools,   \* development mode
    JsonIds,        \* values of a JSON-RPC id
    Messages,       \* messages being handled
    MaxToolChanges, \* bound on what the administrator does
    None

Methods == {"initialize", "notifications/initialized", "tools/list",
            "resources/list", "resources/read", "other"}
Bodies == {"unreadable", "too_large", "not_json", "two_values", "bad_id",
           "bad_version", "no_method", "good"}
Params == {"good", "bad", "none"}

\* A string, a number or no id at all; null is refused with the body.
RequestIDs == JsonIds \cup {None}

ASSUME McpRoutingAssumption ==
    /\ DevAutoTools \in BOOLEAN /\ MaxToolChanges \in Nat
    /\ None \notin JsonIds /\ Tools \subseteq Nat /\ None \notin Tools

VARIABLES
    archived,       \* tools with archived_at
    chosen,         \* tenant_config.mcp_passthrough_upstream_tool_id
    toolChanges,
    msg

mcpRoutingVars == <<archived, chosen, toolChanges, msg>>

\* A message of which nothing is known yet.
Unread == [pc |-> "idle", body |-> "unreadable", id |-> None, method |-> "other",
           params |-> "none", kind |-> "", answerId |-> None, chosen |-> None,
           listed |-> {}, target |-> None]

McpRoutingInit ==
    /\ archived = {}
    /\ chosen = None
    /\ toolChanges = 0
    /\ msg = [c \in Messages |-> Unread]

-----------------------------------------------------------------------------
(* Parsing. *)

\* What is wrong with a body, in the order of the checks.
ValidateAndParseRequest(body) ==
    CASE body = "too_large" -> "invalid_request"
      [] body = "not_json" -> "parse_error"
      [] body = "bad_id" -> "invalid_request"
      [] body \in {"two_values", "bad_version", "no_method"} -> "invalid_request"
      [] body = "good" -> "ok"

\* The id for the answer to a body that is refused: that of the first value,
\* if there is one and its id is a string or a number.  Of a body that is too
\* large the beginning is searched, which need not hold a whole value.
ExtractRequestID(body, id) ==
    CASE body \in {"not_json", "bad_id"} -> {None}
      [] body = "too_large" -> {None, id}
      [] OTHER -> {id}

Answer(c, kind, id) ==
    msg' = [msg EXCEPT ![c].pc = "answered", ![c].kind = kind, ![c].answerId = id]
toolVars == <<archived, chosen, toolChanges>>

\* The request has been authenticated.
HandleMCP(c) ==
    /\ msg[c].pc = "idle"
    /\ \E body \in Bodies, id \in RequestIDs, method \in Methods, params \in Params :
         /\ body # "good" => method = "other" /\ params = "none"
         /\ body = "bad_id" => id = None
         /\ params # "good" => body # "good" \/ method \in {"initialize", "resources/read"}
         /\ msg' = [msg EXCEPT ![c].pc = "read", ![c].body = body, ![c].id = id,
                                ![c].method = method, ![c].params = params]
    /\ UNCHANGED toolVars

ReadBody(c) ==
    /\ msg[c].pc = "read"
    /\ LET body == msg[c].body
           id == msg[c].id
       IN  \/ body = "unreadable" /\ Answer(c, "internal_error", None)
           \/ /\ body # "unreadable" /\ ValidateAndParseRequest(body) # "ok"
              /\ \E found \in ExtractRequestID(body, id) :
                   Answer(c, ValidateAndParseRequest(body), found)
           \/ /\ body = "good"
              /\ msg' = [msg EXCEPT ![c].pc = "route"]
    /\ UNCHANGED toolVars

-----------------------------------------------------------------------------
(* Handlers. *)

\* A message without an id is a notification: whatever its handler returns,
\* it gets an empty answer.
RespondTalkative(c, kind) == Answer(c, kind, msg[c].id)
Respond(c, kind) ==
    IF msg[c].id = None THEN Answer(c, "silent", None) ELSE Answer(c, kind, msg[c].id)

\* A session token is issued with the result: see McpSession.
HandleInitialize(c) ==
    /\ msg[c].method = "initialize"
    /\ Respond(c, IF msg[c].params = "good" THEN "result" ELSE "invalid_params")

HandleInitializedNotification(c) ==
    /\ msg[c].method = "notifications/initialized"
    /\ Respond(c, IF msg[c].id = None THEN "nothing" ELSE "invalid_request")

Visible(t) == t \notin archived /\ (DevAutoTools \/ t \notin DevTools)
ListTools == {t \in Tools : Visible(t)}

\* A list of tools, or of the specifications of tools.
HandleToolsList(c) ==
    /\ msg[c].method = "tools/list"
    /\ \/ Respond(c, "result")
       \/ Respond(c, "internal_error")

HandleResourcesList(c) ==
    /\ msg[c].method = "resources/list"
    /\ \/ Respond(c, "result")
       \/ Respond(c, "internal_error")

\* The parameters name a tool: one without a row or whose row cannot be read,
\* one without a specification, or one whose specification is then fetched.
HandleResourcesRead(c) ==
    /\ msg[c].method = "resources/read"
    /\ \/ msg[c].params # "good" /\ Respond(c, "invalid_params")
       \/ /\ msg[c].params = "good"
          /\ \E t \in Tools \cup {None} :
               \/ Respond(c, "invalid_params")
               \/ t \in SpecTools /\ Respond(c, "result")
               \/ t \in SpecTools /\ Respond(c, "internal_error")

\* The server that an unknown method goes to: the chosen tool, or nothing if
\* that one is not listed or is no MCP server; without a choice, the first
\* listed MCP server.
UpstreamLenient(choice, listed) ==
    LET servers == listed \cap McpTools
    IN  IF choice \in servers THEN {choice}
        ELSE {t \in servers : \A u \in servers : t <= u}
Upstream(choice, listed) ==
    LET servers == listed \cap McpTools
    IN  IF choice # None THEN servers \cap {choice}
        ELSE {t \in servers : \A u \in servers : t <= u}

HandlePassThrough(c) ==
    /\ msg[c].method = "other"
    /\ \/ msg' = [msg EXCEPT ![c].pc = "list", ![c].chosen = chosen]
       \/ Respond(c, "internal_error")

RouteMCPMethod(c) ==
    /\ msg[c].pc = "route"
    /\ \/ HandleInitialize(c)
       \/ HandleInitializedNotification(c)
       \/ HandleToolsList(c)
       \/ HandleResourcesList(c)
       \/ HandleResourcesRead(c)
       \/ HandlePassThrough(c)
    /\ UNCHANGED toolVars

PassThroughList(c) ==
    LET choice == msg[c].chosen
        found == Upstream(choice, ListTools)
    IN  /\ msg[c].pc = "list"
        /\ \/ Respond(c, "internal_error")
           \/ /\ found = {}
              /\ Respond(c, IF choice = None THEN "method_not_found" ELSE "internal_error")
           \/ \E target \in found :
                msg' = [msg EXCEPT ![c].pc = "forward", ![c].listed = ListTools,
                                   ![c].target = target]
        /\ UNCHANGED toolVars

\* An answer must carry the id of the request, unless that has none.
AnyRequestID(id, other) == TRUE
CompareRequestIDs(id, other) == id = None \/ id = other

\* The server answers: with a result or an error under some id, with an error
\* under a status other than 200, with something else, or not at all.
ForwardRequest(c) ==
    /\ msg[c].pc = "forward"
    /\ \E other \in RequestIDs :
         \/ /\ CompareRequestIDs(msg[c].id, other)
            /\ IF msg[c].id = None THEN Respond(c, "forwarded")
               ELSE Answer(c, "forwarded", other)
         \/ /\ ~CompareRequestIDs(msg[c].id, other)
            /\ Respond(c, "internal_error")
         \/ IF msg[c].id = None THEN Respond(c, "upstream_error")
            ELSE Answer(c, "upstream_error", other)
    /\ UNCHANGED toolVars

-----------------------------------------------------------------------------
(* The administrator. *)

AdministerTools ==
    /\ toolChanges < MaxToolChanges
    /\ toolChanges' = toolChanges + 1
    /\ \/ \E t \in Tools : archived' \in {archived \cup {t}, archived \ {t}} \ {archived}
          /\ UNCHANGED chosen
       \/ /\ chosen' \in (McpTools \cup {None}) \ {chosen}
          /\ UNCHANGED archived
    /\ UNCHANGED msg

McpRoutingNext ==
    \/ \E c \in Messages : HandleMCP(c) \/ ReadBody(c) \/ RouteMCPMethod(c)
                        \/ PassThroughList(c) \/ ForwardRequest(c)
    \/ AdministerTools

McpRoutingSpec == McpRoutingInit /\ [][McpRoutingNext]_mcpRoutingVars

-----------------------------------------------------------------------------
(* Properties. *)

Answered(c) == msg[c].pc = "answered"

\* A well-formed message is answered without a body if and only if it has no
\* id: a notification is never answered, not even with an error of the server
\* that it was forwarded to, and a request always is.
SilentIffNotification ==
    \A c \in Messages : Answered(c) /\ msg[c].body = "good" =>
        (msg[c].kind = "silent" <=> msg[c].id = None)

\* Every answer of the gateway, and every result that it passes on, carries
\* the id of the request it answers; the refusal of a malformed body carries
\* that id or none, never another.
ResultCarriesId ==
    \A c \in Messages :
        /\ Answered(c) /\ msg[c].body = "good" /\ msg[c].kind # "upstream_error" =>
            msg[c].answerId = msg[c].id
        /\ Answered(c) /\ msg[c].body # "good" => msg[c].answerId \in {msg[c].id, None}

\* The same of what ForwardRequest returns in every case, as its comment says:
\* "It preserves the request ID and returns the upstream response."
ForwardPreservesId ==
    \A c \in Messages : Answered(c) /\ msg[c].body = "good" => msg[c].answerId = msg[c].id

\* A method is forwarded to an MCP server that was visible when the tools were
\* listed; if the tenant had chosen one, to that one and to no other.
ForwardedWhereChosen ==
    \A c \in Messages : msg[c].target # None =>
        /\ msg[c].target \in msg[c].listed \cap McpTools
        /\ ~DevAutoTools => msg[c].target \notin DevTools
        /\ msg[c].chosen # None => msg[c].target = msg[c].chosen
        /\ msg[c].chosen = None =>
             \A t \in msg[c].listed \cap McpTools : msg[c].target <= t

\* A well-formed message is answered without a body if and only if it is a
\* notification, even when it is forwarded; an answer and a forwarded result
\* carry the id of the request; and a method is forwarded to a server that
\* was visible when the tools were listed, to the one the tenant had chosen
\* if it had (handleMCP, handlePassThrough).
AnswersFitRequests ==
    /\ SilentIffNotification
    /\ ResultCarriesId
    /\ ForwardedWhereChosen
=============================================================================
