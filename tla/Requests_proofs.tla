--------------------------- MODULE Requests_proofs ---------------------------
(***************************************************************************)
(* What is proved of a request on its way through the gateway: the chain of *)
(* gateways it extends, the MCP server it is sent to, and the checks that a *)
(* tool call passes.                                                       *)
(***************************************************************************)
EXTENDS Provenance, McpRouting, ToolCall, FiniteSetTheorems, TLAPS

\* The provers that try a leaf which names none, and their time.
USE SMTT(15), ZenonT(30)

-----------------------------------------------------------------------------
(* Provenance chains, for any number of chains and gateways and any maximal *)
(* depth.  What a policy sees at a hop is decided by the token of the hop   *)
(* before: its depth counts the hops, and exactly so while the chain is     *)
(* clean, and a chain that may go on is below the maximum.                  *)

ChainRecords ==
    [hops : Nat, seen : Nat, clean : BOOLEAN, over : BOOLEAN,
     token : [depth : Nat, exp : Nat, key : {<<>>} \cup (ChainGateways \X Nat)]]

ChainCounts(x) ==
    /\ x.token.depth <= x.hops
    /\ ~x.over => x.token.depth <= MaxChainDepth
    /\ x.clean /\ ~x.over => x.token.depth = x.hops
    /\ x.hops > 0 => x.seen <= x.hops - 1
    /\ x.hops > 0 /\ x.clean => x.seen = x.hops - 1
    /\ x.clean => x.hops <= MaxChainDepth + 1

ProvenanceInv ==
    /\ chainClock \in Nat
    /\ chainBoot \in [ChainGateways -> Nat]
    /\ chain \in [Chains -> ChainRecords]
    /\ \A c \in Chains : ChainCounts(chain[c])

LEMMA InitProvenanceInv == ProvenanceInit => ProvenanceInv
  BY ProvenanceAssumption
     DEF ProvenanceInit, ProvenanceInv, ChainRecords, ChainCounts, NoChainToken

\* Hop: the token of the next hop is one deeper than that of this one.
LEMMA HopCounts ==
    ASSUME ProvenanceInv, NEW c \in Chains, NEW g \in ChainGateways, Hop(c, g)
    PROVE  chain' \in [Chains -> ChainRecords] /\ ChainCounts(chain'[c])
<1> DEFINE x == chain[c]
           depth == ExtractProvenance(g, x.token)
           next == IssueToken(g, depth)
           clean == x.clean /\ (x.hops = 0 \/ ValidateToken(g, x.token))
<1>1. x \in ChainRecords /\ ChainCounts(x) /\ ~x.over
    BY DEF ProvenanceInv, Hop
<1>2. /\ depth \in Nat /\ x.hops \in Nat
      /\ depth <= x.hops /\ depth <= MaxChainDepth
      /\ clean \in BOOLEAN /\ (clean => depth = x.hops)
  <2>1. x.hops \in Nat /\ x.token.depth \in Nat /\ clean \in BOOLEAN
      BY <1>1 DEF ChainRecords
  <2>2. depth \in {0, x.token.depth} /\ (x.hops > 0 /\ clean => depth = x.token.depth)
      BY DEF ExtractProvenance, ValidateToken
  <2> HIDE DEF depth
  <2> QED BY <1>1, <2>1, <2>2, ProvenanceAssumption DEF ChainCounts
<1> HIDE DEF depth, clean
<1>3. CASE depth + 1 > MaxChainDepth
  <2>1. next = {}
      BY <1>3 DEF IssueToken
  <2> DEFINE y == [hops |-> x.hops + 1, token |-> NoChainToken,
                   clean |-> clean,
                   seen |-> depth, over |-> TRUE]
  <2>2. chain' = [chain EXCEPT ![c] = y]
      BY ZenonT(30), <2>1 DEF Hop, depth, clean
  <2>3. y \in ChainRecords
      BY <1>2 DEF ChainRecords, NoChainToken
  <2>4. ChainCounts(y)
      BY <1>2, <1>3, ProvenanceAssumption DEF ChainCounts, NoChainToken
  <2> QED BY <2>2, <2>3, <2>4 DEF ProvenanceInv
<1>4. CASE ~(depth + 1 > MaxChainDepth)
  <2> DEFINE k == [depth |-> depth + 1, exp |-> chainClock + ChainTTL, key |-> ChainKey(g)]
             y == [hops |-> x.hops + 1, token |-> k,
                   clean |-> clean,
                   seen |-> depth, over |-> FALSE]
  <2>1. next = {k}
      BY <1>4 DEF IssueToken
  <2>2. chain' = [chain EXCEPT ![c] = y]
      BY ZenonT(30), <2>1 DEF Hop, depth, clean
  <2>3. k \in [depth : Nat, exp : Nat, key : {<<>>} \cup (ChainGateways \X Nat)]
      BY <1>2, ProvenanceAssumption DEF ProvenanceInv, ChainKey
  <2>4. y \in ChainRecords
      BY <1>2, <2>3 DEF ChainRecords
  <2>5. ChainCounts(y)
      BY <1>2, <1>4, ProvenanceAssumption DEF ChainCounts
  <2> QED BY <2>2, <2>4, <2>5 DEF ProvenanceInv
<1> QED BY <1>2, <1>3, <1>4, ProvenanceAssumption

LEMMA NextProvenanceInv == ProvenanceInv /\ [ProvenanceNext]_provenanceVars => ProvenanceInv'
<1> SUFFICES ASSUME ProvenanceInv, [ProvenanceNext]_provenanceVars PROVE ProvenanceInv'
    OBVIOUS
<1>1. ASSUME NEW c \in Chains, NEW g \in ChainGateways, Hop(c, g) PROVE ProvenanceInv'
  <2>1. ASSUME NEW d \in Chains, d # c PROVE chain'[d] = chain[d]
      BY <1>1, <2>1 DEF Hop, ProvenanceInv
  <2> QED BY ZenonT(30), <1>1, <2>1, HopCounts DEF ProvenanceInv, ChainCounts, Hop
<1>2. CASE ChainTick
    BY <1>2 DEF ChainTick, ProvenanceInv, ChainCounts
<1>3. ASSUME NEW g \in ChainGateways, Restart(g) PROVE ProvenanceInv'
    BY <1>3 DEF Restart, ProvenanceInv, ChainCounts
<1>4. CASE UNCHANGED provenanceVars
    BY <1>4 DEF provenanceVars, ProvenanceInv, ChainCounts
<1> QED BY <1>1, <1>2, <1>3, <1>4 DEF ProvenanceNext

\* extractProvenance and IssueToken: what a policy sees as the depth of a
\* chain is the number of hops before this one if no token was refused, and
\* never more, and such a chain ends at the maximum, whatever gateways it
\* crosses, restart and however long it takes.
THEOREM ChainsCounted == ProvenanceSpec => []ChainsAreCounted
<1>1. ProvenanceInv => ChainsAreCounted
    BY DEF ProvenanceInv, ChainCounts, ChainsAreCounted, DepthIsHops, CleanChainEnds
<1> QED BY InitProvenanceInv, NextProvenanceInv, <1>1, PTL DEF ProvenanceSpec

-----------------------------------------------------------------------------
(* Messages, for any tools, ids and number of messages.  What is known of a *)
(* message depends on where it is: a server is found for it only once the   *)
(* tools are listed, and only a good body gets there.                       *)

AnswerKinds == {"", "silent", "result", "invalid_params", "nothing", "invalid_request", "parse_error",
                "internal_error", "method_not_found", "forwarded", "upstream_error"}
MessageRecords ==
    [pc : {"idle", "read", "route", "list", "forward", "answered"},
     body : Bodies, id : RequestIDs, method : Methods, params : Params, kind : AnswerKinds,
     answerId : RequestIDs, chosen : McpTools \cup {None}, listed : SUBSET Tools,
     target : Tools \cup {None}]

MessageOK(x) ==
    /\ x.pc \in {"route", "list", "forward"} => x.body = "good"
    /\ x.pc = "answered" /\ x.body = "good" =>
         /\ x.kind = "silent" <=> x.id = None
         /\ x.kind # "upstream_error" => x.answerId = x.id
    /\ x.pc = "answered" /\ x.body # "good" => x.answerId \in {x.id, None}
    /\ x.pc \in {"idle", "read", "route", "list"} => x.target = None
    /\ x.target # None =>
         /\ x.target \in x.listed \cap McpTools
         /\ ~DevAutoTools => x.target \notin DevTools
         /\ x.chosen # None => x.target = x.chosen
         /\ x.chosen = None => \A t \in x.listed \cap McpTools : x.target <= t

RoutingInv ==
    /\ chosen \in McpTools \cup {None}
    /\ msg \in [Messages -> MessageRecords]
    /\ \A c \in Messages : MessageOK(msg[c])

LEMMA InitRoutingInv == McpRoutingInit => RoutingInv
<1> SUFFICES ASSUME McpRoutingInit PROVE RoutingInv
    OBVIOUS
<1>1. Unread \in MessageRecords
    BY DEF Unread, MessageRecords, AnswerKinds, Bodies, Methods, Params, RequestIDs
<1>2. MessageOK(Unread)
    BY DEF Unread, MessageOK
<1> QED BY <1>1, <1>2 DEF McpRoutingInit, RoutingInv

LEMMA OneMessage ==
    ASSUME RoutingInv, NEW c \in Messages, NEW r \in MessageRecords, MessageOK(r),
           msg' = [msg EXCEPT ![c] = r], UNCHANGED toolVars
    PROVE  RoutingInv'
<1>1. \A d \in Messages : msg'[d] = IF d = c THEN r ELSE msg[d]
    BY DEF RoutingInv
<1> QED BY <1>1 DEF RoutingInv, toolVars

\* An answer to a message that is well-formed, or is not.
LEMMA AnswerInv ==
    ASSUME RoutingInv, NEW c \in Messages, NEW k \in AnswerKinds, NEW i \in RequestIDs,
           Answer(c, k, i), UNCHANGED toolVars,
           IF msg[c].body = "good"
             THEN /\ k = "silent" <=> msg[c].id = None
                  /\ k # "upstream_error" => i = msg[c].id
             ELSE i \in {msg[c].id, None}
    PROVE  RoutingInv'
<1> DEFINE r == [msg[c] EXCEPT !.pc = "answered", !.kind = k, !.answerId = i]
<1>1. msg[c] \in MessageRecords /\ MessageOK(msg[c])
    BY DEF RoutingInv
<1>2. msg' = [msg EXCEPT ![c] = r]
    BY ZenonT(30) DEF Answer, RoutingInv
<1>3. /\ r \in MessageRecords /\ r.pc = "answered" /\ r.kind = k /\ r.answerId = i
      /\ r.body = msg[c].body /\ r.id = msg[c].id /\ r.target = msg[c].target
      /\ r.listed = msg[c].listed /\ r.chosen = msg[c].chosen
    BY ZenonT(30), <1>1 DEF MessageRecords
<1> HIDE DEF r
<1>4. MessageOK(r)
    BY <1>1, <1>3 DEF MessageOK
<1> QED BY ZenonT(30), <1>2, <1>3, <1>4, OneMessage

LEMMA RespondInv ==
    ASSUME RoutingInv, NEW c \in Messages, NEW k \in AnswerKinds \ {"silent"}, Respond(c, k),
           msg[c].body = "good", UNCHANGED toolVars
    PROVE  RoutingInv'
<1>1. msg[c].id \in RequestIDs /\ None \in RequestIDs
    BY DEF RoutingInv, MessageRecords, RequestIDs
<1>2. CASE msg[c].id = None
    BY ZenonT(30), <1>1, <1>2, AnswerInv DEF Respond, AnswerKinds
<1>3. CASE msg[c].id # None
    BY <1>1, <1>3, AnswerInv DEF Respond
<1> QED BY <1>2, <1>3

LEMMA HandleMCPInv == ASSUME RoutingInv, NEW c \in Messages, HandleMCP(c) PROVE RoutingInv'
<1>1. PICK body \in Bodies, id \in RequestIDs, method \in Methods, params \in Params :
         /\ body # "good" => method = "other" /\ params = "none"
         /\ body = "bad_id" => id = None
         /\ params # "good" => body # "good" \/ method \in {"initialize", "resources/read"}
         /\ msg' = [msg EXCEPT ![c].pc = "read", ![c].body = body, ![c].id = id,
                                ![c].method = method, ![c].params = params]
    BY ZenonT(30) DEF HandleMCP
<1> DEFINE r == [msg[c] EXCEPT !.pc = "read", !.body = body, !.id = id,
                               !.method = method, !.params = params]
<1>2. msg[c] \in MessageRecords /\ MessageOK(msg[c]) /\ msg[c].pc = "idle"
    BY DEF RoutingInv, HandleMCP
<1>3. msg' = [msg EXCEPT ![c] = r]
    BY ZenonT(30), <1>1 DEF RoutingInv
<1>4. r \in MessageRecords /\ r.pc = "read" /\ r.target = msg[c].target
    BY ZenonT(30), <1>2 DEF MessageRecords
<1> HIDE DEF r
<1>5. MessageOK(r)
    BY <1>2, <1>4 DEF MessageOK
<1> QED BY ZenonT(30), <1>3, <1>4, <1>5, OneMessage DEF HandleMCP

LEMMA ReadBodyInv == ASSUME RoutingInv, NEW c \in Messages, ReadBody(c) PROVE RoutingInv'
<1>1. msg[c] \in MessageRecords /\ MessageOK(msg[c]) /\ msg[c].pc = "read" /\ UNCHANGED toolVars
    BY DEF RoutingInv, ReadBody
<1>2. msg[c].id \in RequestIDs /\ None \in RequestIDs /\ msg[c].body \in Bodies
    BY <1>1 DEF MessageRecords, RequestIDs
<1>3. CASE msg[c].body = "unreadable" /\ Answer(c, "internal_error", None)
    BY ZenonT(30), <1>1, <1>2, <1>3, AnswerInv DEF AnswerKinds
<1>4. ASSUME ValidateAndParseRequest(msg[c].body) # "ok", msg[c].body # "unreadable",
             NEW found \in ExtractRequestID(msg[c].body, msg[c].id),
             Answer(c, ValidateAndParseRequest(msg[c].body), found)
      PROVE  RoutingInv'
  <2>1. ValidateAndParseRequest(msg[c].body) \in AnswerKinds /\ msg[c].body # "good"
      BY ZenonT(30), <1>2, <1>4 DEF ValidateAndParseRequest, Bodies, AnswerKinds
  <2>2. found \in {msg[c].id, None}
      BY DEF ExtractRequestID
  <2> QED BY <1>1, <1>2, <1>4, <2>1, <2>2, AnswerInv
<1>5. CASE msg[c].body = "good" /\ msg' = [msg EXCEPT ![c].pc = "route"]
  <2> DEFINE r == [msg[c] EXCEPT !.pc = "route"]
  <2>1. msg' = [msg EXCEPT ![c] = r]
      BY <1>5 DEF RoutingInv
  <2>2. r \in MessageRecords /\ r.pc = "route" /\ r.body = "good" /\ r.target = msg[c].target
      BY <1>1, <1>5 DEF MessageRecords
  <2> HIDE DEF r
  <2>3. MessageOK(r)
      BY <1>1, <2>2 DEF MessageOK
  <2> QED BY ZenonT(30), <1>1, <2>1, <2>2, <2>3, OneMessage
<1> QED BY <1>3, <1>4, <1>5 DEF ReadBody

LEMMA RouteInv == ASSUME RoutingInv, NEW c \in Messages, RouteMCPMethod(c) PROVE RoutingInv'
<1>1. msg[c] \in MessageRecords /\ MessageOK(msg[c]) /\ msg[c].pc = "route" /\ UNCHANGED toolVars
      /\ msg[c].body = "good" /\ chosen \in McpTools \cup {None}
    BY DEF RoutingInv, RouteMCPMethod, MessageOK
<1>2. \/ \E k \in {"result", "invalid_params", "nothing", "invalid_request", "internal_error"} : Respond(c, k)
      \/ msg' = [msg EXCEPT ![c].pc = "list", ![c].chosen = chosen]
    BY ZenonT(30)
    DEF RouteMCPMethod, HandleInitialize, HandleInitializedNotification,
        HandleToolsList,
       HandleResourcesList, HandleResourcesRead, HandlePassThrough
<1>3. CASE msg' = [msg EXCEPT ![c].pc = "list", ![c].chosen = chosen]
  <2> DEFINE r == [msg[c] EXCEPT !.pc = "list", !.chosen = chosen]
  <2>1. msg' = [msg EXCEPT ![c] = r]
      BY ZenonT(30), <1>3 DEF RoutingInv
  <2>2. r \in MessageRecords /\ r.pc = "list" /\ r.body = "good" /\ r.target = msg[c].target
      BY ZenonT(30), <1>1 DEF MessageRecords
  <2> HIDE DEF r
  <2>3. MessageOK(r)
      BY <1>1, <2>2 DEF MessageOK
  <2> QED BY ZenonT(30), <1>1, <2>1, <2>2, <2>3, OneMessage
<1> QED BY ZenonT(30), <1>1, <1>2, <1>3, RespondInv DEF AnswerKinds

\* The server that is found is the one that was chosen, or the first.
LEMMA PassThroughInv == ASSUME RoutingInv, NEW c \in Messages, PassThroughList(c) PROVE RoutingInv'
<1>1. msg[c] \in MessageRecords /\ MessageOK(msg[c]) /\ msg[c].pc = "list" /\ UNCHANGED toolVars
      /\ msg[c].body = "good"
    BY DEF RoutingInv, PassThroughList, MessageOK
<1>2. CASE \E k \in {"method_not_found", "internal_error"} : Respond(c, k)
    BY ZenonT(30), <1>1, <1>2, RespondInv DEF AnswerKinds
<1>3. ASSUME NEW target \in Upstream(msg[c].chosen, ListTools),
             msg' = [msg EXCEPT ![c].pc = "forward", ![c].listed = ListTools, ![c].target = target]
      PROVE  RoutingInv'
  <2> DEFINE l == ListTools
             r == [msg[c] EXCEPT !.pc = "forward", !.listed = l, !.target = target]
  <2>1. msg' = [msg EXCEPT ![c] = r]
      BY ZenonT(30), <1>3 DEF RoutingInv
  <2>2. l \subseteq Tools /\ \A t \in l : DevAutoTools \/ t \notin DevTools
      BY DEF ListTools, Visible
  <2>3. target \in l \cap McpTools
      BY DEF Upstream
  <2>4. /\ msg[c].chosen # None => target = msg[c].chosen
        /\ msg[c].chosen = None => \A t \in l \cap McpTools : target <= t
      BY DEF Upstream
  <2> HIDE DEF l
  <2>5. /\ r \in MessageRecords /\ r.pc = "forward" /\ r.body = "good" /\ r.target = target
        /\ r.listed = l /\ r.chosen = msg[c].chosen
      BY ZenonT(30), <1>1, <2>2, <2>3 DEF MessageRecords
  <2> HIDE DEF r
  <2>6. MessageOK(r)
      BY <2>2, <2>3, <2>4, <2>5 DEF MessageOK
  <2> QED BY ZenonT(30), <1>1, <2>1, <2>5, <2>6, OneMessage
<1> QED BY <1>2, <1>3, ZenonT(30) DEF PassThroughList

LEMMA ForwardInv == ASSUME RoutingInv, NEW c \in Messages, ForwardRequest(c) PROVE RoutingInv'
<1>1. msg[c] \in MessageRecords /\ MessageOK(msg[c]) /\ UNCHANGED toolVars /\ msg[c].body = "good"
    BY DEF RoutingInv, ForwardRequest, MessageOK
<1>2. PICK other \in RequestIDs :
        \/ \E k \in {"forwarded", "internal_error", "upstream_error"} : Respond(c, k)
        \/ msg[c].id # None /\ other = msg[c].id /\ Answer(c, "forwarded", other)
        \/ msg[c].id # None /\ Answer(c, "upstream_error", other)
    BY DEF ForwardRequest, CompareRequestIDs
<1>3. CASE \E k \in {"forwarded", "internal_error", "upstream_error"} : Respond(c, k)
    BY ZenonT(30), <1>1, <1>3, RespondInv DEF AnswerKinds
<1>4. CASE msg[c].id # None /\ other = msg[c].id /\ Answer(c, "forwarded", other)
    BY ZenonT(30), <1>1, <1>4, AnswerInv DEF AnswerKinds
<1>5. CASE msg[c].id # None /\ Answer(c, "upstream_error", other)
    BY ZenonT(30), <1>1, <1>5, AnswerInv DEF AnswerKinds
<1> QED BY <1>2, <1>3, <1>4, <1>5

LEMMA NextRoutingInv == RoutingInv /\ [McpRoutingNext]_mcpRoutingVars => RoutingInv'
<1> SUFFICES ASSUME RoutingInv, [McpRoutingNext]_mcpRoutingVars PROVE RoutingInv'
    OBVIOUS
<1>1. CASE UNCHANGED mcpRoutingVars
    BY <1>1 DEF mcpRoutingVars, RoutingInv
<1>2. CASE AdministerTools
    BY <1>2 DEF AdministerTools, RoutingInv
<1> QED BY <1>1, <1>2, HandleMCPInv, ReadBodyInv, RouteInv, PassThroughInv, ForwardInv
        DEF McpRoutingNext

\* A well-formed message is answered without a body if and only if it is a
\* notification; answers carry the id of the request; and a method is forwarded
\* to a server that was visible, to the one that was chosen if one was
\* (handleMCP, handlePassThrough).
THEOREM AnswersFit == McpRoutingSpec => []AnswersFitRequests
<1>1. RoutingInv => AnswersFitRequests
    BY DEF RoutingInv, MessageOK, AnswersFitRequests, SilentIffNotification,
        ResultCarriesId,
           ForwardedWhereChosen, Answered
<1> QED BY InitRoutingInv, NextRoutingInv, <1>1, PTL DEF McpRoutingSpec

-----------------------------------------------------------------------------
(* A tool call.                                                              *)

Nowhere == {"idle", "answered"}
Allowing == {"allow", "recordresult", "recorderror"}
\* The steps that leave no mark on what the invariant says of a call.
Passing == {"parse", "mode", "override", "files", "policy", "rate", "args",
            "approval", "recordapproval", "unknown"}
Metered == Passing \cup Allowing \cup {"deny", "shadow"}
ToolCallPCs == Nowhere \cup {"lookup", "quota"} \cup Metered

CallRecords ==
    [pc : ToolCallPCs, proto : {"rest", "mcp"}, verdict : Verdicts \cup {Nil},
     mode : {Nil, "enforce", "shadow"}, tool : Upstreams,
     answer : {Nil, "result", "refused", "error"}]

ToolCallTypes ==
    /\ call \in [Calls -> CallRecords]
    /\ mode \in {"enforce", "shadow"}
    /\ tool \in Upstreams
    /\ meter \in Nat
    /\ ran \subseteq Calls

\* What is known of a call from where it is, and of one that was executed.
CallOK(c) ==
    /\ call[c].mode = "shadow" => c \in shadowed
    /\ call[c].pc \in {"deny", "shadow"} => call[c].verdict = "DENY"
    /\ call[c].pc = "shadow" => call[c].mode = "shadow" /\ <<c, "DENY">> \in adr
    /\ call[c].pc \in Allowing =>
         /\ call[c].verdict = "ALLOW"
         /\ c \in MustFail /\ "args" \in Configured => c \in checked
    /\ c \in ran =>
         /\ call[c].pc \in {"recordresult", "recorderror", "answered"}
         /\ \/ call[c].verdict = "ALLOW"
            \/ call[c].verdict = "DENY" /\ <<c, "DENY">> \in adr /\ c \in shadowed
         /\ c \in MustFail /\ "args" \in Configured => c \in shadowed \cup checked
    /\ call[c].answer = "result" => Recorded(c)

\* A call sees the mode and the switch as they are while it is served.
SwitchesSeen ==
    /\ mode = "shadow" => Active \subseteq shadowed
    /\ "args" \notin enabled => Active \subseteq checked

\* The calls that have passed the quota, those that were executed included.
Passed == ran \cup {c \in Calls : call[c].pc \in Metered}
QuotaKept ==
    /\ IsFiniteSet(Passed)
    /\ Cardinality(Passed) <= meter
    /\ Cardinality(Passed) <= MonthlyActionLimit

ToolCallInv ==
    /\ ToolCallTypes
    /\ \A c \in Calls : CallOK(c)
    /\ SwitchesSeen
    /\ QuotaKept

LEMMA InitToolCallInv == ToolCallInit => ToolCallInv
<1> SUFFICES ASSUME ToolCallInit PROVE ToolCallInv
    OBVIOUS
<1>1. PICK p \in [Calls -> {"rest", "mcp"}] :
          call = [c \in Calls |-> [pc |-> "idle", proto |-> p[c], verdict |-> Nil,
                                   mode |-> Nil, tool |-> {"missing"}, answer |-> Nil]]
    BY ZenonT(30) DEF ToolCallInit
<1>2. ToolCallTypes
    BY <1>1
    DEF ToolCallInit, ToolCallTypes, CallRecords, ToolCallPCs, Nowhere, Upstreams,
        Nil
<1>3. \A c \in Calls : CallOK(c)
    BY <1>1 DEF ToolCallInit, CallOK, Allowing, Nil
<1>4. SwitchesSeen
    BY <1>1 DEF SwitchesSeen, Active
<1>5. Passed = {}
    BY <1>1 DEF ToolCallInit, Passed, Metered, Passing, Allowing
<1>6. QuotaKept
    BY <1>5, FS_EmptySet, ToolCallAssumption DEF QuotaKept, ToolCallInit
<1> QED BY <1>2, <1>3, <1>4, <1>6 DEF ToolCallInv

\* The set of calls that passed grows by a call only with the meter.
LEMMA PassedKept ==
    ASSUME QuotaKept, meter \in Nat, NEW c, meter' \in Nat, meter <= meter',
           \/ Passed' \subseteq Passed
           \/ Passed' \subseteq Passed \cup {c} /\ meter' = meter + 1 /\ meter' <= MonthlyActionLimit
    PROVE  QuotaKept'
<1>1. IsFiniteSet(Passed) /\ Cardinality(Passed) \in Nat
    BY FS_CardinalityType DEF QuotaKept
<1>2. CASE Passed' \subseteq Passed
  <2>1. IsFiniteSet(Passed') /\ Cardinality(Passed') <= Cardinality(Passed)
      BY <1>1, <1>2, FS_Subset
  <2>2. Cardinality(Passed') \in Nat
      BY <2>1, FS_CardinalityType
  <2> QED BY <1>1, <2>1, <2>2, ToolCallAssumption DEF QuotaKept
<1>3. CASE Passed' \subseteq Passed \cup {c} /\ meter' = meter + 1 /\ meter' <= MonthlyActionLimit
  <2>1. IsFiniteSet(Passed \cup {c}) /\ Cardinality(Passed \cup {c}) <= Cardinality(Passed) + 1
      BY <1>1, FS_AddElement
  <2>2. IsFiniteSet(Passed') /\ Cardinality(Passed') <= Cardinality(Passed \cup {c})
      BY <1>3, <2>1, FS_Subset
  <2>3. Cardinality(Passed') \in Nat /\ Cardinality(Passed \cup {c}) \in Nat
      BY <2>1, <2>2, FS_CardinalityType
  <2> QED BY <1>1, <1>3, <2>1, <2>2, <2>3, ToolCallAssumption DEF QuotaKept
<1> QED BY <1>2, <1>3

\* A step of one call keeps the invariant if the call itself stays as the
\* invariant wants it; records and ghosts only grow.
LEMMA OneCall ==
    ASSUME ToolCallInv, NEW c \in Calls, NEW r \in CallRecords,
           call' = [call EXCEPT ![c] = r],
           UNCHANGED system,
           adr \subseteq adr', shadowed \subseteq shadowed', checked \subseteq checked',
           ran \subseteq ran', ran' \subseteq ran \cup {c},
           meter' \in Nat, meter <= meter',
           \/ c \notin ran' /\ r.pc \notin Metered
           \/ call[c].pc \in Metered
           \/ meter' = meter + 1 /\ meter' <= MonthlyActionLimit,
           \/ r.pc = "answered"
           \/ call[c].pc # "idle"
           \/ (mode = "shadow" => c \in shadowed') /\ ("args" \notin enabled => c \in checked'),
           call[c].pc # "answered",
           CallOK(c)'
    PROVE  ToolCallInv'
<1> USE DEF ToolCallInv
<1>1. \A d \in Calls : call'[d] = IF d = c THEN r ELSE call[d]
    BY DEF ToolCallTypes
<1>2. ToolCallTypes'
    BY DEF ToolCallTypes, system
<1>3. ASSUME NEW d \in Calls, d # c PROVE CallOK(d)'
  <2>1. call'[d] = call[d] /\ (d \in ran' => d \in ran)
      BY <1>1, <1>3
  <2>2. CallOK(d)
      OBVIOUS
  <2> QED BY <2>1, <2>2, Zenon DEF CallOK, Recorded
<1>4. SwitchesSeen'
  <2>1. Active' \subseteq Active \cup {c}
      BY <1>1 DEF Active
  <2>2. call[c].pc # "idle" => c \in Active
      BY DEF Active
  <2>3. r.pc = "answered" => c \notin Active'
      BY <1>1 DEF Active
  <2> QED BY <2>1, <2>2, <2>3 DEF SwitchesSeen, system
<1>5. QuotaKept'
  <2>1. Passed' \subseteq Passed \cup {c}
      BY <1>1 DEF Passed
  <2>2. call[c].pc \in Metered => c \in Passed
      BY DEF Passed
  <2>3. c \notin ran' /\ r.pc \notin Metered => c \notin Passed'
      BY <1>1 DEF Passed
  <2> QED BY <2>1, <2>2, <2>3, PassedKept DEF ToolCallTypes
<1> QED BY <1>2, <1>3, <1>4, <1>5

\* A call moves, or is answered: what becomes of its record.
LEMMA GoesRecord ==
    ASSUME ToolCallInv, NEW c \in Calls, NEW p \in ToolCallPCs, Goes(c, p)
    PROVE  \E r \in CallRecords :
             /\ call' = [call EXCEPT ![c] = r] /\ call'[c] = r
             /\ r.pc = p /\ r.mode = call[c].mode /\ r.verdict = call[c].verdict
             /\ r.answer = call[c].answer
<1> DEFINE r == [call[c] EXCEPT !.pc = p]
<1>1. call[c] \in CallRecords
    BY DEF ToolCallInv, ToolCallTypes
<1>2. r \in CallRecords /\ r.pc = p /\ r.mode = call[c].mode /\ r.verdict = call[c].verdict
      /\ r.answer = call[c].answer
    BY <1>1 DEF CallRecords
<1>3. call' = [call EXCEPT ![c] = r] /\ call'[c] = r
    BY DEF Goes, ToolCallInv, ToolCallTypes
<1> QED BY ZenonT(30), <1>2, <1>3

LEMMA AnswersRecord ==
    ASSUME ToolCallInv, NEW c \in Calls, NEW a \in {"result", "refused", "error"}, Answers(c, a)
    PROVE  \E r \in CallRecords :
             /\ call' = [call EXCEPT ![c] = r] /\ call'[c] = r
             /\ r.pc = "answered" /\ r.mode = call[c].mode /\ r.verdict = call[c].verdict
             /\ r.answer = a
<1> DEFINE r == [call[c] EXCEPT !.pc = "answered", !.answer = a]
<1>1. call[c] \in CallRecords
    BY DEF ToolCallInv, ToolCallTypes
<1>2. r \in CallRecords /\ r.pc = "answered" /\ r.mode = call[c].mode /\ r.verdict = call[c].verdict
      /\ r.answer = a
    BY ZenonT(30), <1>1 DEF CallRecords, ToolCallPCs, Nowhere
<1>3. call' = [call EXCEPT ![c] = r] /\ call'[c] = r
    BY ZenonT(30) DEF Answers, ToolCallInv, ToolCallTypes
<1> QED BY ZenonT(30), <1>2, <1>3

\* Where a call was executed, and where it has read shadow mode.
LEMMA NotRan ==
    ASSUME ToolCallInv, NEW c \in Calls,
           call[c].pc \notin {"recordresult", "recorderror", "answered"}
    PROVE  c \notin ran
  BY ZenonT(30) DEF ToolCallInv, CallOK

LEMMA ReadsShadow ==
    ASSUME ToolCallInv, NEW c \in Calls, call[c].pc \notin Nowhere, mode = "shadow"
    PROVE  c \in shadowed
  BY DEF ToolCallInv, SwitchesSeen, Active, Nowhere

\* A step that executes nothing and leads to no end but an answer.
LEMMA PlainCall ==
    ASSUME ToolCallInv, NEW c \in Calls, NEW r \in CallRecords,
           call' = [call EXCEPT ![c] = r], call'[c] = r,
           UNCHANGED <<system, meter, ran, ghosts>>, adr \subseteq adr',
           call[c].pc \notin {"recordresult", "recorderror"} \cup Nowhere,
           \/ r.pc \in {"answered", "quota"}
           \/ r.pc \in Passing /\ call[c].pc \in Metered,
           r.mode \in {call[c].mode, mode},
           r.answer = "result" => call[c].answer = "result"
    PROVE  ToolCallInv'
<1>1. c \notin ran /\ c \notin ran'
    BY NotRan DEF Nowhere
<1>2. r.mode = "shadow" => c \in shadowed'
    BY ZenonT(30), ReadsShadow DEF ToolCallInv, CallOK, ghosts
<1>3. r.pc \notin {"deny", "shadow"} \cup Allowing
    BY DEF Passing, Allowing
<1>4. r.answer = "result" => Recorded(c)'
    BY ZenonT(30) DEF ToolCallInv, CallOK, Recorded
<1>5. CallOK(c)'
    BY <1>1, <1>2, <1>3, <1>4 DEF CallOK
<1>6. r.pc \in {"answered", "quota"} => r.pc \notin Metered
    BY DEF Metered, Passing, Allowing
<1>7. meter' \in Nat /\ meter <= meter'
    BY DEF ToolCallInv, ToolCallTypes
<1>8. call[c].pc # "idle" /\ call[c].pc # "answered"
    BY DEF Nowhere
<1>9. ran \subseteq ran' /\ ran' \subseteq ran \cup {c} /\ shadowed \subseteq shadowed' /\ checked \subseteq checked'
    BY DEF ghosts
<1> QED BY ZenonT(30), <1>1, <1>5, <1>6, <1>7, <1>8, <1>9, OneCall

LEMMA PlainGoes ==
    ASSUME ToolCallInv, NEW c \in Calls, NEW p \in Passing, Goes(c, p),
           UNCHANGED <<system, meter, ran, ghosts>>, adr \subseteq adr',
           call[c].pc \in Metered, call[c].pc \notin {"recordresult", "recorderror"}
    PROVE  ToolCallInv'
<1>1. p \in ToolCallPCs /\ call[c].pc \notin Nowhere
    BY DEF ToolCallPCs, Metered, Nowhere, Passing, Allowing
<1> QED BY <1>1, GoesRecord, PlainCall

LEMMA PlainAnswers ==
    ASSUME ToolCallInv, NEW c \in Calls, NEW a \in {"refused", "error"}, Answers(c, a),
           UNCHANGED <<system, meter, ran, ghosts>>, adr \subseteq adr',
           call[c].pc \notin {"recordresult", "recorderror"} \cup Nowhere
    PROVE  ToolCallInv'
<1>1. PICK r \in CallRecords :
             /\ call' = [call EXCEPT ![c] = r] /\ call'[c] = r
             /\ r.pc = "answered" /\ r.mode = call[c].mode /\ r.answer = a
    BY AnswersRecord
<1> QED BY ZenonT(30), <1>1, PlainCall

LEMMA AuthenticateInv == ASSUME ToolCallInv, NEW c \in Calls, Authenticate(c) PROVE ToolCallInv'
<1>1. /\ call[c].pc = "idle" /\ UNCHANGED <<system, meter, stores>>
      /\ shadowed \subseteq shadowed' /\ (mode = "shadow" => c \in shadowed')
      /\ checked \subseteq checked' /\ ("args" \notin enabled => c \in checked')
    BY DEF Authenticate, At
<1>2. \/ \E p \in {"quota", "lookup"} : Goes(c, p)
      \/ Answers(c, "refused")
    BY DEF Authenticate
<1>3. PICK r \in CallRecords :
        /\ call' = [call EXCEPT ![c] = r] /\ call'[c] = r
        /\ r.pc \in {"quota", "lookup", "answered"} /\ r.mode = call[c].mode
        /\ r.answer = "result" => call[c].answer = "result"
    BY <1>2, GoesRecord, AnswersRecord DEF ToolCallPCs
<1>4. c \notin ran
    BY <1>1, NotRan
<1>5. CallOK(c)
    BY DEF ToolCallInv
<1>6. CallOK(c)'
    BY <1>1, <1>3, <1>4, <1>5 DEF CallOK, Recorded, Allowing, stores
<1>7. r.pc \notin Metered
    BY <1>3 DEF Metered, Passing, Allowing
<1>8. meter' \in Nat /\ meter <= meter'
    BY <1>1 DEF ToolCallInv, ToolCallTypes
<1>9. adr \subseteq adr' /\ ran' = ran
    BY <1>1 DEF stores
<1> QED BY ZenonT(30), <1>1, <1>3, <1>4, <1>6, <1>7, <1>8, <1>9, OneCall

LEMMA LookupToolInv == ASSUME ToolCallInv, NEW c \in Calls, LookupTool(c) PROVE ToolCallInv'
<1>1. /\ call[c].pc = "lookup" /\ UNCHANGED <<system, meter, ran, ghosts>> /\ adr \subseteq adr'
      /\ call[c].pc \notin {"recordresult", "recorderror"} \cup Nowhere
    BY ZenonT(30) DEF LookupTool, At, stores, Nowhere
<1>2. CASE \E a \in {"refused", "error"} : Answers(c, a)
    BY <1>1, <1>2, PlainAnswers, Zenon
<1>3. CASE call' = [call EXCEPT ![c].pc = "quota", ![c].tool = tool]
  <2> DEFINE r == [call[c] EXCEPT !.pc = "quota", !.tool = tool]
  <2>1. call[c] \in CallRecords /\ tool \in Upstreams
      BY DEF ToolCallInv, ToolCallTypes
  <2>2. r \in CallRecords /\ r.pc = "quota" /\ r.mode = call[c].mode /\ r.answer = call[c].answer
      BY ZenonT(30), <2>1 DEF CallRecords, ToolCallPCs
  <2>3. call' = [call EXCEPT ![c] = r] /\ call'[c] = r
      BY ZenonT(30), <1>3 DEF ToolCallInv, ToolCallTypes
  <2> HIDE DEF r
  <2> QED BY ZenonT(30), <1>1, <2>2, <2>3, PlainCall
<1> QED BY <1>2, <1>3 DEF LookupTool

\* The meter is raised whatever comes of it, and the call goes on only within
\* the limit.
LEMMA EnforceUsageQuotaInv ==
    ASSUME ToolCallInv, NEW c \in Calls, EnforceUsageQuota(c) PROVE ToolCallInv'
<1>1. /\ call[c].pc = "quota" /\ UNCHANGED <<system, ran, ghosts>> /\ adr' = adr
      /\ meter' \in {meter, meter + 1}
    BY Zenon DEF EnforceUsageQuota, At, stores, IncrementUsageMeter
<1>2. \/ /\ meter' = meter + 1 /\ ~(meter' > MonthlyActionLimit)
         /\ \E p \in {"parse", "mode"} : Goes(c, p)
      \/ \E a \in {"refused", "error"} : Answers(c, a)
    BY DEF EnforceUsageQuota, IncrementUsageMeter
<1>3. meter \in Nat
    BY DEF ToolCallInv, ToolCallTypes
<1>4. PICK r \in CallRecords :
        /\ call' = [call EXCEPT ![c] = r] /\ call'[c] = r
        /\ \/ r.pc \in {"parse", "mode"} /\ meter' = meter + 1 /\ ~(meter' > MonthlyActionLimit)
           \/ r.pc = "answered"
        /\ r.mode = call[c].mode
        /\ r.answer = "result" => call[c].answer = "result"
  <2>1. {"parse", "mode"} \subseteq ToolCallPCs
      BY DEF ToolCallPCs, Metered, Passing
  <2> QED BY <1>2, <2>1, GoesRecord, AnswersRecord
<1>5. CallOK(c) /\ c \notin ran
    BY <1>1, NotRan DEF ToolCallInv
<1>6. CallOK(c)'
    BY <1>1, <1>4, <1>5 DEF CallOK, Recorded, Allowing, ghosts
<1>7. "answered" \notin Metered
    BY DEF Metered, Passing, Allowing
<1>8. /\ meter' \in Nat /\ meter <= meter' /\ shadowed' = shadowed /\ checked' = checked
      /\ r.pc = "answered" \/ (meter' = meter + 1 /\ meter' <= MonthlyActionLimit)
  <2>1. shadowed' = shadowed /\ checked' = checked
      BY ZenonT(30), <1>1 DEF ghosts
  <2>2. meter' \in Nat /\ meter <= meter'
      BY <1>1, <1>3
  <2>3. r.pc = "answered" \/ (meter' = meter + 1 /\ ~(meter' > MonthlyActionLimit))
      BY ZenonT(30), <1>4
  <2>4. ~(meter' > MonthlyActionLimit) => meter' <= MonthlyActionLimit
      BY <2>2, ToolCallAssumption
  <2> QED BY ZenonT(30), <2>1, <2>2, <2>3, <2>4
<1> QED BY ZenonT(30), <1>1, <1>4, <1>5, <1>6, <1>7, <1>8, OneCall

\* Steps that move the call on, or answer it.
LEMMA PassingInv ==
    ASSUME ToolCallInv, NEW c \in Calls,
           ParseRequest(c) \/ RiskOverride(c) \/ CheckFileAccess(c)
             \/ RequireApproval(c) \/ RecordApproval(c) \/ UnknownDecision(c)
    PROVE  ToolCallInv'
<1>1. /\ UNCHANGED <<system, meter, ran, ghosts>> /\ adr \subseteq adr'
      /\ call[c].pc \in {"parse", "override", "files", "approval", "recordapproval", "unknown"}
    BY ZenonT(30)
    DEF ParseRequest, RiskOverride, CheckFileAccess, RequireApproval,
        RecordApproval,
           UnknownDecision, At, stores, InsertADR
<1>2. \/ \E p \in {"override", "files", "policy", "recordapproval"} : Goes(c, p)
      \/ \E a \in {"refused", "error"} : Answers(c, a)
    BY ZenonT(30)
    DEF ParseRequest, RiskOverride, CheckFileAccess, RequireApproval,
        RecordApproval,
           UnknownDecision
<1>3. /\ call[c].pc \in Metered /\ call[c].pc \notin {"recordresult", "recorderror"} \cup Nowhere
      /\ {"override", "files", "policy", "recordapproval"} \subseteq Passing
    BY <1>1, Zenon DEF Metered, Passing, Nowhere
<1> QED BY ZenonT(30), <1>1, <1>2, <1>3, PlainGoes, PlainAnswers

LEMMA EvaluateInv == ASSUME ToolCallInv, NEW c \in Calls, Evaluate(c) PROVE ToolCallInv'
<1>1. /\ UNCHANGED <<system, meter, ran, ghosts>> /\ adr \subseteq adr' /\ call[c].pc = "policy"
    BY ZenonT(30) DEF Evaluate, At, stores
<1>2. /\ call[c].pc \in Metered /\ call[c].pc \notin {"recordresult", "recorderror"} \cup Nowhere
      /\ AfterPolicy(c) \in Passing
    BY <1>1, Zenon DEF Metered, Passing, Nowhere, AfterPolicy
<1>3. \/ \E v \in Verdicts : call' = [call EXCEPT ![c].pc = AfterPolicy(c), ![c].verdict = v]
      \/ \E a \in {"refused", "error"} : Answers(c, a)
    BY ZenonT(30) DEF Evaluate, Verdicts
<1>4. ASSUME NEW v \in Verdicts,
             call' = [call EXCEPT ![c].pc = AfterPolicy(c), ![c].verdict = v]
      PROVE  ToolCallInv'
  <2> DEFINE p == AfterPolicy(c)
             r == [call[c] EXCEPT !.pc = p, !.verdict = v]
  <2>1. call[c] \in CallRecords /\ p \in ToolCallPCs
      BY <1>2 DEF ToolCallInv, ToolCallTypes, ToolCallPCs, Metered
  <2>2. call' = [call EXCEPT ![c] = r] /\ call'[c] = r
      BY ZenonT(30), <1>4 DEF ToolCallInv, ToolCallTypes
  <2> HIDE DEF p
  <2>3. r \in CallRecords /\ r.pc = p /\ r.mode = call[c].mode /\ r.answer = call[c].answer
      BY ZenonT(30), <2>1 DEF CallRecords
  <2> HIDE DEF r
  <2> QED BY ZenonT(30), <1>1, <1>2, <2>2, <2>3, PlainCall DEF p
<1> QED BY <1>1, <1>2, <1>3, <1>4, PlainAnswers

LEMMA EnforcementModeInv ==
    ASSUME ToolCallInv, NEW c \in Calls, TenantEnforcementMode(c) PROVE ToolCallInv'
<1>1. /\ UNCHANGED <<system, meter, ran, ghosts>> /\ adr \subseteq adr' /\ call[c].pc = "mode"
    BY DEF TenantEnforcementMode, At, stores
<1>2. /\ call[c].pc \in Metered /\ call[c].pc \notin {"recordresult", "recorderror"} \cup Nowhere
      /\ {"rate", "override"} \subseteq Passing
    BY <1>1 DEF Metered, Passing, Nowhere
<1>3. \/ \E p \in {"rate", "override"} : call' = [call EXCEPT ![c].mode = mode, ![c].pc = p]
      \/ Answers(c, "error")
    BY DEF TenantEnforcementMode
<1>4. ASSUME NEW p \in {"rate", "override"},
             call' = [call EXCEPT ![c].mode = mode, ![c].pc = p]
      PROVE  ToolCallInv'
  <2> DEFINE r == [call[c] EXCEPT !.mode = mode, !.pc = p]
  <2>1. call[c] \in CallRecords /\ p \in ToolCallPCs /\ mode \in {"enforce", "shadow"}
      BY <1>2 DEF ToolCallInv, ToolCallTypes, ToolCallPCs, Metered
  <2>2. call' = [call EXCEPT ![c] = r] /\ call'[c] = r
      BY ZenonT(30), <1>4 DEF ToolCallInv, ToolCallTypes
  <2>3. r \in CallRecords /\ r.pc = p /\ r.mode = mode /\ r.answer = call[c].answer
      BY ZenonT(30), <2>1 DEF CallRecords
  <2> HIDE DEF r
  <2> QED BY ZenonT(30), <1>1, <1>2, <2>2, <2>3, PlainCall
<1> QED BY <1>1, <1>2, <1>3, <1>4, PlainAnswers

\* A step that neither executes the tool nor records anything, to an end.
LEMMA EndGoes ==
    ASSUME ToolCallInv, NEW c \in Calls, NEW r \in CallRecords,
           call' = [call EXCEPT ![c] = r], call'[c] = r,
           UNCHANGED <<system, meter, ran, adr, ghosts>>,
           call[c].pc \in Passing,
           r.mode = call[c].mode, r.answer = call[c].answer,
           \/ r.pc = "deny" /\ r.verdict = "DENY"
           \/ /\ r.pc = "allow" /\ r.verdict = "ALLOW"
              /\ c \in MustFail /\ "args" \in Configured => c \in checked
    PROVE  ToolCallInv'
<1>1. c \notin ran /\ CallOK(c) /\ call[c].pc \in Metered /\ call[c].pc \notin Nowhere
    BY NotRan DEF ToolCallInv, Passing, Metered, Nowhere
<1>2. CallOK(c)'
    BY <1>1, Zenon DEF CallOK, Recorded, ghosts, Allowing
<1>3. meter' \in Nat /\ meter <= meter'
    BY DEF ToolCallInv, ToolCallTypes
<1>4. shadowed' = shadowed /\ checked' = checked /\ call[c].pc # "idle" /\ call[c].pc # "answered"
    BY <1>1 DEF ghosts, Nowhere
<1> QED BY ZenonT(30), <1>1, <1>2, <1>3, <1>4, OneCall

LEMMA ViolationInv ==
    ASSUME ToolCallInv, NEW c \in Calls, Violation(c), call[c].pc \in Passing,
           UNCHANGED <<system, meter, ran, adr, ghosts>>
    PROVE  ToolCallInv'
<1> DEFINE r == [call[c] EXCEPT !.verdict = "DENY", !.pc = "deny"]
<1>1. call[c] \in CallRecords
    BY DEF ToolCallInv, ToolCallTypes
<1>2. /\ r \in CallRecords /\ r.pc = "deny" /\ r.verdict = "DENY"
      /\ r.mode = call[c].mode /\ r.answer = call[c].answer
    BY ZenonT(30), <1>1 DEF CallRecords, ToolCallPCs, Metered, Verdicts
<1>3. call' = [call EXCEPT ![c] = r] /\ call'[c] = r
    BY ZenonT(30) DEF Violation, ToolCallInv, ToolCallTypes
<1> HIDE DEF r
<1> QED BY ZenonT(30), <1>2, <1>3, EndGoes

LEMMA EnforceRateLimitInv ==
    ASSUME ToolCallInv, NEW c \in Calls, EnforceRateLimit(c) PROVE ToolCallInv'
<1>1. UNCHANGED <<system, meter, ran, adr, ghosts>> /\ call[c].pc = "rate"
    BY DEF EnforceRateLimit, At, stores
<1>2. /\ call[c].pc \in Metered /\ call[c].pc \notin {"recordresult", "recorderror"} \cup Nowhere
      /\ call[c].pc \in Passing /\ "args" \in Passing
    BY <1>1 DEF Metered, Passing, Nowhere
<1>3. Goes(c, "args") \/ Violation(c) \/ Answers(c, "error")
    BY ZenonT(30) DEF EnforceRateLimit
<1> QED BY ZenonT(30), <1>1, <1>2, <1>3, PlainGoes, PlainAnswers, ViolationInv

\* A violation is overlooked only if constraints are switched off: in the
\* settings while the call is served, or in the environment.
LEMMA EnforceArgumentsInv ==
    ASSUME ToolCallInv, NEW c \in Calls, EnforceArgumentConstraints(c) PROVE ToolCallInv'
<1>1. UNCHANGED <<system, meter, ran, adr, ghosts>> /\ call[c].pc = "args"
    BY DEF EnforceArgumentConstraints, At, stores
<1>2. /\ call[c].pc \in Metered /\ call[c].pc \notin {"recordresult", "recorderror"} \cup Nowhere
      /\ call[c].pc \in Passing /\ {"approval", "unknown"} \subseteq Passing
      /\ {"allow", "deny"} \subseteq ToolCallPCs
    BY <1>1 DEF Metered, Passing, Nowhere, Allowing, ToolCallPCs
<1>3. PICK on \in FeatureEnabled("args") :
          IF on /\ c \in MustFail THEN Violation(c) ELSE Goes(c, Outcome(c))
    BY ZenonT(30) DEF EnforceArgumentConstraints
<1>4. on \/ "args" \notin enabled \/ "args" \notin Configured
  <2>1. on = ("args" \in enabled) \/ on = ("args" \in Configured)
      BY ZenonT(30) DEF FeatureEnabled
  <2> QED BY ZenonT(30), <2>1
<1>5. Violation(c) \/ (Goes(c, Outcome(c)) /\ (c \in MustFail => ~on))
    BY <1>3, ZenonT(30)
<1>6. c \in MustFail /\ "args" \in Configured /\ ~on => c \in checked
  <2>1. c \in Active
      BY <1>1 DEF Active
  <2> QED BY <1>4, <2>1 DEF ToolCallInv, SwitchesSeen
<1>7. ASSUME Goes(c, Outcome(c)), c \in MustFail => ~on PROVE ToolCallInv'
  <2>1. CASE Outcome(c) \in {"approval", "unknown"}
      BY <1>1, <1>2, <1>7, <2>1, PlainGoes, Zenon
  <2>2. CASE Outcome(c) \in {"allow", "deny"}
    <3>1. PICK r \in CallRecords :
             /\ call' = [call EXCEPT ![c] = r] /\ call'[c] = r
             /\ r.pc = Outcome(c) /\ r.mode = call[c].mode /\ r.verdict = call[c].verdict
             /\ r.answer = call[c].answer
        BY <1>2, <1>7, <2>2, GoesRecord
    <3>2. \/ r.pc = "deny" /\ r.verdict = "DENY"
          \/ r.pc = "allow" /\ r.verdict = "ALLOW"
        BY <2>2, <3>1 DEF Outcome
    <3>3. c \in MustFail /\ "args" \in Configured => c \in checked
        BY <1>6, <1>7
    <3> QED BY ZenonT(30), <1>1, <1>2, <3>1, <3>2, <3>3, EndGoes
  <2> QED BY <2>1, <2>2 DEF Outcome
<1> QED BY <1>1, <1>2, <1>5, <1>7, ViolationInv

\* A denial is recorded before the tool may be executed in shadow mode.
LEMMA DenyInv == ASSUME ToolCallInv, NEW c \in Calls, Deny(c) PROVE ToolCallInv'
<1>1. /\ UNCHANGED <<system, meter, ran, ghosts>> /\ adr \subseteq adr' /\ call[c].pc = "deny"
    BY DEF Deny, At, InsertADR
<1>2. /\ call[c].pc \in Metered /\ call[c].pc \notin {"recordresult", "recorderror"} \cup Nowhere
      /\ "shadow" \in ToolCallPCs
    BY ZenonT(30), <1>1 DEF Metered, Passing, Nowhere, ToolCallPCs
<1>3. \/ call[c].mode = "shadow" /\ Goes(c, "shadow") /\ <<c, "DENY">> \in adr'
      \/ \E a \in {"refused", "error"} : Answers(c, a)
    BY DEF Deny, InsertADR
<1>4. CASE call[c].mode = "shadow" /\ Goes(c, "shadow") /\ <<c, "DENY">> \in adr'
  <2>1. PICK r \in CallRecords :
             /\ call' = [call EXCEPT ![c] = r] /\ call'[c] = r
             /\ r.pc = "shadow" /\ r.mode = call[c].mode /\ r.verdict = call[c].verdict
             /\ r.answer = call[c].answer
      BY <1>2, <1>4, GoesRecord
  <2>2. CallOK(c) /\ c \notin ran
      BY ZenonT(30), <1>1, NotRan DEF ToolCallInv
  <2>3. CallOK(c)'
      BY <1>1, <1>4, <2>1, <2>2, Zenon DEF CallOK, Recorded, ghosts, Allowing
  <2>4. meter' \in Nat /\ meter <= meter' /\ shadowed' = shadowed /\ checked' = checked
      BY <1>1 DEF ToolCallInv, ToolCallTypes, ghosts
  <2> QED BY ZenonT(30), <1>1, <1>2, <2>1, <2>2, <2>3, <2>4, OneCall
<1> QED BY ZenonT(30), <1>1, <1>2, <1>3, <1>4, PlainAnswers

\* A step that may execute the tool: the call is at an end that permits it.
LEMMA Executes ==
    ASSUME ToolCallInv, NEW c \in Calls, NEW r \in CallRecords,
           call' = [call EXCEPT ![c] = r], call'[c] = r,
           UNCHANGED <<system, meter, adr, ghosts>>,
           ran' = ran \/ ran' = ran \cup {c},
           r.mode = call[c].mode, r.verdict = call[c].verdict,
           \/ call[c].pc = "shadow" /\ r.pc = "answered"
           \/ call[c].pc = "allow" /\ r.pc \in {"recordresult", "recorderror", "answered"},
           r.answer = "result" => call[c].answer = "result" \/ call[c].pc = "shadow"
    PROVE  ToolCallInv'
<1>1. CallOK(c) /\ c \notin ran /\ call[c].pc \in Metered
    BY NotRan DEF ToolCallInv, Metered, Allowing
<1>2. r.answer = "result" => Recorded(c)'
    BY ZenonT(30), <1>1 DEF CallOK, Recorded
<1>3. CallOK(c)'
    BY <1>1, <1>2, Zenon DEF CallOK, ghosts, Allowing
<1>4. meter' \in Nat /\ meter <= meter' /\ shadowed' = shadowed /\ checked' = checked
    BY DEF ToolCallInv, ToolCallTypes, ghosts
<1> QED BY ZenonT(30), <1>1, <1>3, <1>4, OneCall

LEMMA ShadowDenyInv == ASSUME ToolCallInv, NEW c \in Calls, ShadowDeny(c) PROVE ToolCallInv'
<1>1. /\ UNCHANGED <<system, meter, adr, ghosts>> /\ call[c].pc = "shadow"
      /\ ran' = ran \/ ran' = ran \cup {c}
      /\ \E a \in {"result", "error"} : Answers(c, a)
    BY DEF ShadowDeny, At
<1>2. PICK r \in CallRecords :
             /\ call' = [call EXCEPT ![c] = r] /\ call'[c] = r
             /\ r.pc = "answered" /\ r.mode = call[c].mode /\ r.verdict = call[c].verdict
    BY <1>1, AnswersRecord
<1> QED BY ZenonT(30), <1>1, <1>2, Executes

LEMMA AllowInv ==
    ASSUME ToolCallInv, NEW c \in Calls, AllowREST(c) \/ AllowMCP(c) PROVE ToolCallInv'
<1>1. /\ UNCHANGED <<system, meter, adr, ghosts>> /\ call[c].pc = "allow"
      /\ ran' = ran \/ ran' = ran \cup {c}
      /\ \/ \E p \in {"recordresult", "recorderror"} : Goes(c, p)
         \/ Answers(c, "error")
    BY Zenon DEF AllowREST, AllowMCP, At
<1>2. {"recordresult", "recorderror"} \subseteq ToolCallPCs
    BY DEF ToolCallPCs, Metered, Allowing
<1>3. PICK r \in CallRecords :
             /\ call' = [call EXCEPT ![c] = r] /\ call'[c] = r
             /\ r.pc \in {"recordresult", "recorderror", "answered"}
             /\ r.mode = call[c].mode /\ r.verdict = call[c].verdict
             /\ r.answer = "result" => call[c].answer = "result"
  <2>1. CASE \E p \in {"recordresult", "recorderror"} : Goes(c, p)
    <3>1. PICK p \in {"recordresult", "recorderror"} : Goes(c, p)
        BY <2>1, Zenon
    <3>2. p \in ToolCallPCs
        BY <1>2, <3>1, Zenon
    <3>3. PICK r \in CallRecords :
             /\ call' = [call EXCEPT ![c] = r] /\ call'[c] = r
             /\ r.pc = p /\ r.mode = call[c].mode /\ r.verdict = call[c].verdict
             /\ r.answer = call[c].answer
        BY <3>1, <3>2, GoesRecord, Zenon
    <3>4. r.pc \in {"recordresult", "recorderror", "answered"}
        BY <3>1, <3>3, Zenon
    <3> QED BY <3>3, <3>4, Zenon
  <2>2. CASE Answers(c, "error")
    <3>1. "error" # "result"
        BY Zenon
    <3> QED BY <2>2, <3>1, AnswersRecord, ZenonT(30)
  <2> QED BY <1>1, <2>1, <2>2, Zenon
<1> QED BY ZenonT(30), <1>1, <1>3, Executes

LEMMA RecordsInv ==
    ASSUME ToolCallInv, NEW c \in Calls, RecordError(c) \/ RecordResult(c) PROVE ToolCallInv'
<1>1. /\ UNCHANGED <<system, meter, ran, ghosts>> /\ adr \subseteq adr'
      /\ call[c].pc \in {"recordresult", "recorderror"}
      /\ \/ Answers(c, "error")
         \/ Answers(c, "result") /\ <<c, "ALLOW">> \in adr'
    BY ZenonT(30) DEF RecordError, RecordResult, At, InsertADR
<1>2. PICK r \in CallRecords :
             /\ call' = [call EXCEPT ![c] = r] /\ call'[c] = r
             /\ r.pc = "answered" /\ r.mode = call[c].mode /\ r.verdict = call[c].verdict
             /\ r.answer = "result" => <<c, "ALLOW">> \in adr'
    BY ZenonT(30), <1>1, AnswersRecord
<1>3. CallOK(c) /\ call[c].pc \in Metered
    BY <1>1 DEF ToolCallInv, Metered, Allowing
<1>4. r.answer = "result" => Recorded(c)'
    BY ZenonT(30), <1>2 DEF Recorded
<1>5. CallOK(c)'
    BY <1>1, <1>2, <1>3, <1>4, Zenon DEF CallOK, ghosts, Allowing
<1>6. meter' \in Nat /\ meter <= meter' /\ shadowed' = shadowed /\ checked' = checked
    BY <1>1 DEF ToolCallInv, ToolCallTypes, ghosts
<1> QED BY ZenonT(30), <1>1, <1>2, <1>3, <1>5, <1>6, OneCall

\* A change by the administrator is noted in the ghosts for every call that
\* is being served.
LEMMA SwitchInv ==
    ASSUME ToolCallInv, Switch, mode' \in {"enforce", "shadow"}, tool' \in Upstreams,
           shadowed \subseteq shadowed', checked \subseteq checked',
           mode' = "shadow" => mode = "shadow" \/ Active \subseteq shadowed',
           "args" \notin enabled' => "args" \notin enabled \/ Active \subseteq checked'
    PROVE  ToolCallInv'
<1>1. UNCHANGED <<call, meter, adr, ran>>
    BY DEF Switch, stores
<1>2. ToolCallTypes'
    BY <1>1 DEF ToolCallInv, ToolCallTypes
<1>3. \A c \in Calls : CallOK(c)'
    BY ZenonT(30), <1>1 DEF ToolCallInv, CallOK, Recorded
<1>4. SwitchesSeen'
    BY <1>1 DEF ToolCallInv, SwitchesSeen, Active
<1>5. QuotaKept'
    BY <1>1 DEF ToolCallInv, QuotaKept, Passed
<1> QED BY <1>2, <1>3, <1>4, <1>5 DEF ToolCallInv

LEMMA NextToolCallInv == ToolCallInv /\ [ToolCallNext]_toolCallVars => ToolCallInv'
<1> SUFFICES ASSUME ToolCallInv, [ToolCallNext]_toolCallVars PROVE ToolCallInv'
    OBVIOUS
<1>1. CASE UNCHANGED toolCallVars
    BY <1>1, Zenon
    DEF toolCallVars, ToolCallInv, ToolCallTypes, CallOK, Recorded, SwitchesSeen,
        Active,
                QuotaKept, Passed
<1>2. ASSUME NEW c \in Calls, Authenticate(c) \/ Step(c) PROVE ToolCallInv'
    BY ZenonT(30), <1>2, AuthenticateInv, LookupToolInv, EnforceUsageQuotaInv,
       PassingInv, EvaluateInv,
       EnforcementModeInv, EnforceRateLimitInv, EnforceArgumentsInv, DenyInv, ShadowDenyInv,
       AllowInv, RecordsInv DEF Step
<1>3. mode \in {"enforce", "shadow"} /\ tool \in Upstreams
    BY DEF ToolCallInv, ToolCallTypes
<1>4. CASE SetEnforcementMode
    BY ZenonT(30), <1>3, <1>4, SwitchInv DEF SetEnforcementMode
<1>5. ASSUME NEW f \in Features, SetFeature(f) PROVE ToolCallInv'
    BY <1>3, <1>5, SwitchInv DEF SetFeature
<1>6. ASSUME NEW t \in Upstreams, UpdateTool(t) PROVE ToolCallInv'
    BY <1>3, <1>6, SwitchInv DEF UpdateTool, ghosts
<1> QED BY ZenonT(30), <1>1, <1>2, <1>4, <1>5, <1>6 DEF ToolCallNext

\* A tool is executed only for a call that is allowed, or denied on record in
\* shadow mode; not against constraints that were enforced all along; and no
\* more often than the plan allows.  Whoever gets a result leaves a decision
\* record behind (handleToolCall, handleToolsCall).
THEOREM CallsGoverned == ToolCallSpec => []CallsAreGoverned
<1>1. ToolCallInv => CallsAreGoverned
  <2> SUFFICES ASSUME ToolCallInv PROVE CallsAreGoverned
      OBVIOUS
  <2>1. ran \subseteq Calls /\ meter \in Nat
      BY DEF ToolCallInv, ToolCallTypes
  <2>2. ExecutedIsLetThrough /\ ConstraintsHold
      BY ZenonT(30), <2>1 DEF ToolCallInv, CallOK, ExecutedIsLetThrough, ConstraintsHold
  <2>3. ResultIsRecorded
      BY ZenonT(30) DEF ToolCallInv, CallOK, ResultIsRecorded
  <2>4. IsFiniteSet(Passed) /\ ran \subseteq Passed
      BY DEF ToolCallInv, QuotaKept, Passed
  <2>5. Cardinality(ran) <= Cardinality(Passed) /\ IsFiniteSet(ran)
      BY <2>4, FS_Subset
  <2>6. Cardinality(ran) \in Nat /\ Cardinality(Passed) \in Nat
      BY <2>4, <2>5, FS_CardinalityType
  <2>7. ExecutedWithinQuota
      BY <2>1, <2>5, <2>6, ToolCallAssumption
      DEF ToolCallInv, QuotaKept, ExecutedWithinQuota
  <2> QED BY <2>2, <2>3, <2>7 DEF CallsAreGoverned
<1> QED BY <1>1, InitToolCallInv, NextToolCallInv, PTL DEF ToolCallSpec
==============================================================================
