-------------------------------- MODULE ToolCall -------------------------------
(***************************************************************************)
(* A tool call of an agent, over REST (handleToolCall) or over MCP         *)
(* (handleToolsCall): the same checks, in two orders and with different    *)
(* ends.  Calls are concurrent with each other and with an administrator   *)
(* who switches the enforcement mode and the features, and changes the     *)
(* tool.                                                                   *)
(*                                                                         *)
(* What policies, limits and constraints say is chosen freely here; they   *)
(* have modules of their own.  Calls that carry an approval are those of   *)
(* ApprovedCall.                                                           *)
(***************************************************************************)
EXTENDS Integers, FiniteSets

CONSTANTS
    Calls,
    MustFail,       \* calls whose arguments violate the constraints
    Features,       \* of "rate", "args" and "files", those of the run
    Configured,     \* features that the environment switches on
    MonthlyActionLimit,\* of the tenant's plan
    Licensed,       \* whether the plan has approval workflows
    Switches,       \* bound on the administrator's changes
    CallFaults      \* whether statements and upstream calls may fail

ASSUME ToolCallAssumption ==
    /\ MustFail \subseteq Calls
    /\ Features \subseteq {"rate", "args", "files"}
    /\ Configured \subseteq Features
    /\ MonthlyActionLimit \in Nat
    /\ Licensed \in BOOLEAN /\ CallFaults \in BOOLEAN
    /\ Switches \in Nat

VARIABLES
    call,           \* the state of each call
    mode,           \* tenant_config.enforcement_mode
    enabled,        \* the features that are switched on
    tool,           \* the upstreams of the tool, or {"missing"}
    meter,          \* the tenant's usage meter of this month
    adr,            \* action decision records, as pairs of call and decision
    approvals,      \* calls with an approval request
    ran,            \* calls the upstream has executed
    switched,       \* how often the administrator has changed something
    shadowed,       \* calls during which the mode was shadow
    checked         \* calls during which argument constraints were switched off

toolCallVars == <<call, mode, enabled, tool, meter, adr, approvals, ran, switched,
          shadowed, checked>>
ghosts == <<shadowed, checked>>
system == <<mode, enabled, tool, switched>>
stores == <<adr, approvals, ran>>

Upstreams == {{"mcp"}, {"http"}, {"mcp", "http"}, {}, {"missing"}}
Verdicts == {"ALLOW", "DENY", "REQUIRE_APPROVAL", "", "unknown"}
Nil == "none"

At(c, pc) == call[c].pc = pc
Goes(c, pc) == call' = [call EXCEPT ![c].pc = pc]
\* The call is answered: with the result of the tool, with a refusal, or with
\* an error.
Answers(c, what) == call' = [call EXCEPT ![c].pc = "answered",
                                         ![c].answer = what]
Recorded(c) == \E x \in adr : x[1] = c

ToolCallInit ==
    /\ \E p \in [Calls -> {"rest", "mcp"}] :
         call = [c \in Calls |->
                   [pc |-> "idle", proto |-> p[c], verdict |-> Nil,
                    mode |-> Nil, tool |-> {"missing"}, answer |-> Nil]]
    /\ mode \in {"enforce", "shadow"}
    /\ enabled \in {{}, Features}
    /\ tool \in Upstreams
    /\ meter = 0
    /\ adr = {}
    /\ approvals = {}
    /\ ran = {}
    /\ switched = 0
    /\ shadowed = {}
    /\ checked = {}

-----------------------------------------------------------------------------
(* The checks, in the order of REST.  MCP looks the tool up first, and reads *)
(* the mode before everything that may refuse.                               *)

\* What a check may find its switch to be: one that cannot be read is as the
\* environment has it.
FeatureEnabled(f) == {f \in enabled} \cup (IF CallFaults THEN {f \in Configured} ELSE {})

Active == {c \in Calls : call[c].pc \notin {"idle", "answered"}}

\* Unauthorized requests end before any effect.
Authenticate(c) ==
    /\ At(c, "idle")
    /\ \/ Goes(c, IF call[c].proto = "rest" THEN "quota" ELSE "lookup")
       \/ Answers(c, "refused")
    /\ shadowed' = IF mode = "shadow" THEN shadowed \cup {c} ELSE shadowed
    /\ checked' = IF "args" \in enabled THEN checked ELSE checked \cup {c}
    /\ UNCHANGED <<system, meter, stores>>

LookupTool(c) ==
    /\ At(c, "lookup")
    /\ \/ /\ tool # {"missing"}
          /\ call' = [call EXCEPT ![c].pc = "quota", ![c].tool = tool]
       \/ tool = {"missing"} /\ Answers(c, "refused")
       \/ CallFaults /\ Answers(c, "error")
    /\ UNCHANGED <<system, meter, stores, ghosts>>

IncrementUsageMeter == meter' = meter + 1

EnforceUsageQuotaChecked(c) ==
    /\ At(c, "quota")
    /\ IF meter < MonthlyActionLimit
       THEN Goes(c, IF call[c].proto = "rest" THEN "parse" ELSE "mode")
       ELSE Answers(c, "refused")
    /\ meter' = meter
    /\ UNCHANGED <<system, stores, ghosts>>
\* The meter is raised first and compared afterwards, in one statement; an
\* error may come before it or after it.
EnforceUsageQuota(c) ==
    /\ At(c, "quota")
    /\ \/ /\ IncrementUsageMeter
          /\ IF meter' > MonthlyActionLimit THEN Answers(c, "refused")
             ELSE Goes(c, IF call[c].proto = "rest" THEN "parse" ELSE "mode")
       \/ /\ CallFaults
          /\ IncrementUsageMeter \/ UNCHANGED meter
          /\ Answers(c, "error")
    /\ UNCHANGED <<system, stores, ghosts>>

\* REST reads the request when it is already metered.
ParseRequest(c) ==
    /\ At(c, "parse")
    /\ Goes(c, "override") \/ Answers(c, "refused")
    /\ UNCHANGED <<system, meter, stores, ghosts>>

RiskOverride(c) ==
    /\ At(c, "override")
    /\ Goes(c, "files") \/ (CallFaults /\ Answers(c, "error"))
    /\ UNCHANGED <<system, meter, stores, ghosts>>

\* A path outside the tenant's directory is refused and not recorded.
CheckFileAccess(c) ==
    /\ At(c, "files")
    /\ \/ Goes(c, "policy")
       \/ TRUE \in FeatureEnabled("files") /\ Answers(c, "refused")
    /\ UNCHANGED <<system, meter, stores, ghosts>>

AfterPolicy(c) == IF call[c].proto = "rest" THEN "mode" ELSE "rate"

\* No decision is a denial.  An invalid one is a denial over REST, and the
\* end of the call over MCP.
Evaluate(c) ==
    /\ At(c, "policy")
    /\ \/ \E v \in Verdicts :
            call' = [call EXCEPT ![c].pc = AfterPolicy(c),
                                 ![c].verdict = IF v = "" THEN "DENY" ELSE v]
       \/ IF call[c].proto = "rest"
          THEN call' = [call EXCEPT ![c].pc = AfterPolicy(c),
                                    ![c].verdict = "DENY"]
          ELSE Answers(c, "refused")
       \/ CallFaults /\ Answers(c, "error")
    /\ UNCHANGED <<system, meter, stores, ghosts>>

TenantEnforcementMode(c) ==
    /\ At(c, "mode")
    /\ \/ call' = [call EXCEPT ![c].mode = mode,
                    ![c].pc = IF call[c].proto = "rest" THEN "rate"
                              ELSE "override"]
       \/ CallFaults /\ Answers(c, "error")
    /\ UNCHANGED <<system, meter, stores, ghosts>>

\* A limit, or a constraint, turns any verdict into a denial.
Violation(c) == call' = [call EXCEPT ![c].verdict = "DENY", ![c].pc = "deny"]

EnforceRateLimit(c) ==
    /\ At(c, "rate")
    /\ \/ Goes(c, "args")
       \/ TRUE \in FeatureEnabled("rate") /\ Violation(c)
       \/ CallFaults /\ Answers(c, "error")
    /\ UNCHANGED <<system, meter, stores, ghosts>>

OutcomeUnhandled(c) == CASE call[c].verdict = "DENY" -> "deny"
                         [] call[c].verdict = "REQUIRE_APPROVAL" -> "approval"
                         [] call[c].verdict = "ALLOW" -> "allow"
                         [] OTHER -> "nowhere"
Outcome(c) == CASE call[c].verdict = "DENY" -> "deny"
                [] call[c].verdict = "REQUIRE_APPROVAL" -> "approval"
                [] call[c].verdict = "ALLOW" -> "allow"
                [] OTHER -> "unknown"

EnforceArgumentsNever(c) ==
    /\ At(c, "args")
    /\ Goes(c, Outcome(c))
    /\ UNCHANGED <<system, meter, stores, ghosts>>
EnforceArgumentConstraints(c) ==
    /\ At(c, "args")
    /\ \E on \in FeatureEnabled("args") :
         IF on /\ c \in MustFail THEN Violation(c) ELSE Goes(c, Outcome(c))
    /\ UNCHANGED <<system, meter, stores, ghosts>>

-----------------------------------------------------------------------------
(* The ends. *)

InsertADR(c, d) == adr' = adr \cup {<<c, d>>}

DenyFirstRuns(c) ==
    /\ At(c, "deny")
    /\ IF call[c].mode = "shadow" THEN Goes(c, "shadow")
       ELSE Answers(c, "refused")
    /\ UNCHANGED <<system, meter, stores, ghosts>>
\* A denial is recorded, and then refused, or executed in shadow mode.
Deny(c) ==
    /\ At(c, "deny")
    /\ \/ /\ InsertADR(c, "DENY")
          /\ IF call[c].mode = "shadow" THEN Goes(c, "shadow")
             ELSE Answers(c, "refused")
       \/ CallFaults /\ adr' = adr /\ Answers(c, "error")
    /\ UNCHANGED <<system, meter, approvals, ran, ghosts>>

\* MCP uses the tool it looked up, and only its MCP upstream; REST looks the
\* tool up now, and puts its base URL, if there is one, before the path.
ShadowDeny(c) ==
    LET t == IF call[c].proto = "rest" THEN tool ELSE call[c].tool
    IN  /\ At(c, "shadow")
        /\ \/ /\ IF call[c].proto = "rest" THEN t # {"missing"}
                 ELSE "mcp" \in t
              /\ ran' = ran \cup {c}
              /\ Answers(c, "result")
           \/ /\ (IF call[c].proto = "rest" THEN "http" ELSE "mcp") \notin t
              /\ Answers(c, "error")
              /\ UNCHANGED ran
           \/ /\ CallFaults
              /\ Answers(c, "error")
              /\ ran' = ran \/ ran' = ran \cup {c}
        /\ UNCHANGED <<system, meter, adr, approvals, ghosts>>

RequireApproval(c) ==
    /\ At(c, "approval")
    /\ \/ ~Licensed /\ Answers(c, "refused") /\ UNCHANGED approvals
       \/ /\ Licensed
          /\ approvals' = approvals \cup {c}
          /\ Goes(c, "recordapproval")
       \/ Licensed /\ CallFaults /\ Answers(c, "error") /\ UNCHANGED approvals
    /\ UNCHANGED <<system, meter, adr, ran, ghosts>>

RecordApproval(c) ==
    /\ At(c, "recordapproval")
    /\ \/ InsertADR(c, "REQUIRE_APPROVAL") /\ Answers(c, "refused")
       \/ CallFaults /\ adr' = adr /\ Answers(c, "error")
    /\ UNCHANGED <<system, meter, approvals, ran, ghosts>>

UnknownDecision(c) ==
    /\ At(c, "unknown")
    /\ Answers(c, "refused")
    /\ UNCHANGED <<system, meter, stores, ghosts>>

\* The tool is executed first and the decision recorded after it.  When the
\* upstream fails, MCP records the decision and REST does not.
AllowREST(c) ==
    /\ At(c, "allow") /\ call[c].proto = "rest"
    /\ \/ tool # {"missing"} /\ ran' = ran \cup {c} /\ Goes(c, "recordresult")
       \/ "http" \notin tool /\ UNCHANGED ran /\ Answers(c, "error")
       \/ /\ CallFaults
          /\ ran' = ran \/ ran' = ran \cup {c}
          /\ Answers(c, "error")
    /\ UNCHANGED <<system, meter, adr, approvals, ghosts>>

AllowMCP(c) ==
    /\ At(c, "allow") /\ call[c].proto = "mcp"
    /\ \/ call[c].tool # {} /\ ran' = ran \cup {c} /\ Goes(c, "recordresult")
       \/ call[c].tool = {} /\ UNCHANGED ran /\ Answers(c, "error")
       \/ /\ CallFaults /\ call[c].tool # {}
          /\ ran' = ran \/ ran' = ran \cup {c}
          /\ Goes(c, "recorderror")
    /\ UNCHANGED <<system, meter, adr, approvals, ghosts>>

RecordError(c) ==
    /\ At(c, "recorderror")
    /\ InsertADR(c, "ALLOW") \/ adr' = adr
    /\ Answers(c, "error")
    /\ UNCHANGED <<system, meter, approvals, ran, ghosts>>

RecordResultLate(c) ==
    /\ At(c, "recordresult")
    /\ InsertADR(c, "ALLOW") \/ (CallFaults /\ adr' = adr)
    /\ Answers(c, "result")
    /\ UNCHANGED <<system, meter, approvals, ran, ghosts>>
RecordResult(c) ==
    /\ At(c, "recordresult")
    /\ \/ InsertADR(c, "ALLOW") /\ Answers(c, "result")
       \/ CallFaults /\ adr' = adr /\ Answers(c, "error")
    /\ UNCHANGED <<system, meter, approvals, ran, ghosts>>

-----------------------------------------------------------------------------
(* The administrator. *)

Switch == /\ switched < Switches
          /\ switched' = switched + 1
          /\ UNCHANGED <<call, meter, stores>>

SetEnforcementMode ==
    /\ Switch
    /\ mode' = IF mode = "shadow" THEN "enforce" ELSE "shadow"
    /\ shadowed' = IF mode' = "shadow" THEN shadowed \cup Active ELSE shadowed
    /\ UNCHANGED <<enabled, tool, checked>>

SetFeature(f) ==
    /\ Switch
    /\ enabled' = IF f \in enabled THEN enabled \ {f} ELSE enabled \cup {f}
    /\ checked' = IF "args" \notin enabled' THEN checked \cup Active
                  ELSE checked
    /\ UNCHANGED <<mode, tool, shadowed>>

UpdateTool(t) ==
    /\ Switch
    /\ tool' = t
    /\ UNCHANGED <<mode, enabled, ghosts>>

-----------------------------------------------------------------------------
Step(c) ==
    \/ LookupTool(c) \/ EnforceUsageQuota(c) \/ ParseRequest(c)
    \/ RiskOverride(c) \/ CheckFileAccess(c) \/ Evaluate(c)
    \/ TenantEnforcementMode(c) \/ EnforceRateLimit(c)
    \/ EnforceArgumentConstraints(c) \/ Deny(c) \/ ShadowDeny(c)
    \/ RequireApproval(c) \/ RecordApproval(c) \/ UnknownDecision(c)
    \/ AllowREST(c) \/ AllowMCP(c) \/ RecordError(c) \/ RecordResult(c)

ToolCallNext ==
    \/ \E c \in Calls : Authenticate(c) \/ Step(c)
    \/ SetEnforcementMode
    \/ \E f \in Features : SetFeature(f)
    \/ \E t \in Upstreams \ {tool} : UpdateTool(t)

ToolCallSpec == ToolCallInit /\ [][ToolCallNext]_toolCallVars

\* A request that was accepted is served; nothing is assumed of clients and
\* administrators.
ToolCallFairSpec == ToolCallSpec /\ \A c \in Calls : WF_toolCallVars(Step(c))

-----------------------------------------------------------------------------
(* Properties. *)

\* A tool is executed for a call only if the verdict is ALLOW, or the call
\* has read shadow mode and the denial is on record already; and a call that
\* began in enforce mode, with no shadow mode since, is never executed
\* against its verdict.
ExecutedIsLetThrough ==
    \A c \in ran :
      \/ call[c].verdict = "ALLOW"
      \/ /\ call[c].verdict = "DENY"
         /\ <<c, "DENY">> \in adr
         /\ c \in shadowed

\* A call whose arguments violate the constraints, made while constraints
\* were enforced all along, is not executed unless in shadow mode.  The
\* environment must switch them on as well: it decides when the stored
\* setting cannot be read.
ConstraintsHold ==
    \A c \in ran \cap MustFail :
      "args" \in Configured => c \in shadowed \cup checked

\* Whoever gets the result of a tool leaves a decision record behind.
ResultIsRecorded ==
    \A c \in Calls : call[c].answer = "result" => Recorded(c)

\* However calls interleave, no more of them than the plan allows are
\* executed in the month, and those that were are all on the meter.
ExecutedWithinQuota ==
    /\ Cardinality(ran) <= MonthlyActionLimit
    /\ Cardinality(ran) <= meter

\* A tool is executed for a call only if the verdict is ALLOW, or the call
\* has read shadow mode and its denial is on record; not against argument
\* constraints that were enforced all along; and no more often in the month
\* than the plan allows, however calls interleave.  Whoever gets a result
\* leaves a decision record behind (handleToolCall, handleToolsCall).
CallsAreGoverned ==
    /\ ExecutedIsLetThrough
    /\ ConstraintsHold
    /\ ExecutedWithinQuota
    /\ ResultIsRecorded

\* Every request that is accepted is answered.
EveryCallAnswered ==
    \A c \in Calls : []<>(call[c].pc \in {"idle", "answered"})

-----------------------------------------------------------------------------
(* Claims of the documentation. *)

\* README.md: in shadow mode "all decisions are recorded but not enforced
\* (tool calls always proceed)".
ShadowProceeds ==
    \A c \in Calls :
      (/\ call[c].pc = "answered"
       /\ call[c].mode = "shadow"
       /\ call[c].verdict \in {"ALLOW", "DENY", "REQUIRE_APPROVAL"}
       /\ tool = {"mcp", "http"}) => c \in ran
=============================================================================
