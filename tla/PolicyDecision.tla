---------------------------- MODULE PolicyDecision ----------------------------
(***************************************************************************)
(* How a policy decides a call.  A structured policy is validated, sorted  *)
(* and rendered into an else-chain; a policy written in Rego answers with  *)
(* an object of its own making, which the engine checks and resolves.  The *)
(* base policy is evaluated first and merged into the answer, decisions    *)
(* are recorded, and the coverage report tells which of them no rule of    *)
(* the author's was made for.                                              *)
(*                                                                         *)
(* An action type is a pair <<family, name>>, and <<family, "*">> is the   *)
(* prefix form that a matcher may hold.                                    *)
(***************************************************************************)
EXTENDS Integers, Sequences, FiniteSets, SequencesExt

CONSTANTS
    RuleIDs,        \* rule ids, in the order of their text
    ActionTypes,    \* the known action types
    Tools,          \* registered tools
    Policies,       \* structured policies that authors write
    Outputs,        \* what policies in Rego may answer
    Requests,       \* [tool, action, risk]
    Ops,            \* of "simulate" and "report", those that are used
    MaxPolicies,    \* bound on the policies published
    MaxDecisions,   \* bound on the decisions recorded
    Limit,          \* rows of a coverage report
    BaseMayFail     \* whether the evaluation of the base policy may fail

Decisions == {"ALLOW", "DENY", "REQUIRE_APPROVAL"}
Risks == {"LOW", "MEDIUM", "HIGH", "CRITICAL"}
Missing == ""       \* a field that is not there
NoApproval == -1    \* a rule without an approval constraint

VARIABLES
    active,         \* the tenant's policy, or none
    published,      \* number of policies published so far
    rows,           \* action_decisions: a sequence, oldest first
    sim,            \* last simulation: the request and the decision
    report          \* last coverage report

vars == <<active, published, rows, sim, report>>

Nil == [kind |-> "none"]

-----------------------------------------------------------------------------
(* The compiler. *)

RuleDefault(effect) ==
    CASE effect = "ALLOW" -> "rule_default_allow"
      [] effect = "REQUIRE_APPROVAL" -> "rule_default_require_approval"
      [] OTHER -> "rule_default_deny"

ReservedRuleIDs ==
    {RuleDefault(e) : e \in Decisions} \cup
      {"rule_high_risk_unknown", "rule_critical_risk_unknown"}

FallbackRuleIDs ==
    {"rule_default_deny", "rule_high_risk_unknown", "rule_critical_risk_unknown"}

ValidAnyRuleID(rules, i) == \A j \in 1..(i - 1) : rules[j].id # rules[i].id
ValidateRuleID(rules, i) ==
    /\ rules[i].id \notin ReservedRuleIDs
    /\ \A j \in 1..(i - 1) : rules[j].id # rules[i].id

ValidateActionTypes(rule) ==
    \A at \in rule.types : at \in ActionTypes \/ at[2] = "*"

ValidateApproval(rule) ==
    rule.ttl # NoApproval =>
      /\ rule.effect = "REQUIRE_APPROVAL"
      /\ rule.ttl = 0 \/ rule.ttl \in 60..86400

Validate(p) ==
    /\ p.default \in Decisions
    /\ \A i \in DOMAIN p.rules :
         /\ ValidateRuleID(p.rules, i)
         /\ p.rules[i].effect \in Decisions
         /\ p.rules[i].priority \in 0..999
         /\ ValidateActionTypes(p.rules[i])
         /\ p.rules[i].risks \subseteq Risks
         /\ ValidateApproval(p.rules[i])

\* A stable sort: elements that neither go before the other stay in order.
StableSort(s, Less(_, _)) ==
    LET before(i, j) == Less(s[i], s[j]) \/ (~Less(s[j], s[i]) /\ i < j)
        order == SetToSortSeq(DOMAIN s, before)
    IN  [k \in DOMAIN s |-> s[order[k]]]

KeepOrder(rules) == rules
SortRules(rules) == StableSort(rules, LAMBDA a, b : a.priority > b.priority)

SplitActionTypes(types) ==
    [exact |-> {t \in types : t[2] # "*"},
     prefixes |-> {t[1] : t \in {u \in types : u[2] = "*"}}]

\* One link of the chain: what it asks of the input, and what it answers.
RuleClause(rule) ==
    LET split == SplitActionTypes(rule.types)
    IN  [tools |-> rule.tools, exact |-> split.exact, prefixes |-> split.prefixes,
         risks |-> rule.risks, decision |-> rule.effect, id |-> rule.id,
         priority |-> rule.priority, asked |-> TRUE]

RiskFallback(id, risk) ==
    [tools |-> {}, exact |-> {}, prefixes |-> {}, risks |-> {risk},
     decision |-> "REQUIRE_APPROVAL", id |-> id, priority |-> 80, asked |-> TRUE]

DefaultClause(effect) ==
    [tools |-> {}, exact |-> {}, prefixes |-> {}, risks |-> {},
     decision |-> effect, id |-> RuleDefault(effect), priority |-> 0,
     asked |-> FALSE]

Render(p) ==
    LET rules == SortRules(p.rules)
    IN  [i \in DOMAIN rules |-> RuleClause(rules[i])]
        \o (IF p.fallbacks
            THEN <<RiskFallback("rule_high_risk_unknown", "HIGH"),
                   RiskFallback("rule_critical_risk_unknown", "CRITICAL")>>
            ELSE <<>>)
        \o <<DefaultClause(p.default)>>

\* The conditions of a link; an empty list in a matcher asks for nothing.
RuleConditions(c, q) ==
    /\ c.tools = {} \/ q.tool \in c.tools
    /\ \/ c.exact = {} /\ c.prefixes = {}
       \/ q.action \in c.exact
       \/ q.action[1] \in c.prefixes
    /\ c.risks = {} \/ q.risk \in c.risks

InputRisk(q) == IF q.risk = Missing THEN "MEDIUM" ELSE q.risk

\* OPA evaluates the chain: the first link whose body holds.  The default
\* answers with a risk of its own.
DecisionChain(chain, q) ==
    LET c == chain[CHOOSE k \in DOMAIN chain :
                     /\ RuleConditions(chain[k], q)
                     /\ \A j \in 1..(k - 1) : ~RuleConditions(chain[j], q)]
    IN  [shape |-> "object", version |-> "v", decision |-> c.decision,
         risk |-> IF c.asked THEN InputRisk(q) ELSE "MEDIUM",
         rule |-> [id |-> c.id, priority |-> c.priority],
         reasons |-> "ok", constraints |-> "ok", matched |-> <<>>, listed |-> TRUE]

-----------------------------------------------------------------------------
(* The engine. *)

DecisionRank(d) ==
    CASE d = "DENY" -> 3
      [] d = "REQUIRE_APPROVAL" -> 2
      [] d = "ALLOW" -> 1
      [] OTHER -> 0

TextRank(id) == CHOOSE k \in DOMAIN RuleIDs : RuleIDs[k] = id

ByPriorityOnly(l, r) == l.priority > r.priority
MatchedRuleLess(l, r) ==
    \/ l.priority > r.priority
    \/ /\ l.priority = r.priority
       /\ \/ DecisionRank(l.effect) > DecisionRank(r.effect)
          \/ /\ DecisionRank(l.effect) = DecisionRank(r.effect)
             /\ TextRank(l.rule_id) < TextRank(r.rule_id)

ParseMatchedRules(matched) == StableSort(matched, MatchedRuleLess)

ResolveDecision(decision, rule, matched) ==
    IF matched = <<>>
    THEN [decision |-> decision, rule |-> rule]
    ELSE [decision |-> matched[1].effect,
          rule |-> [id |-> matched[1].rule_id, priority |-> matched[1].priority]]

Invalid(reason) == [err |-> reason]

\* The checks of the engine, in its order.  A priority that is not a number
\* is written as -1; "listed" tells whether the matched rules are a list of
\* rules.
ParseResult(out) ==
    IF out.shape = "empty" THEN Invalid("opa_result_empty")
    ELSE IF out.shape # "object" THEN Invalid("decode_error")
    ELSE IF Missing \in {out.version, out.decision} THEN Invalid("missing_required_field")
    ELSE IF out.decision \notin Decisions THEN Invalid("bad_enum")
    ELSE IF out.risk = Missing THEN Invalid("missing_required_field")
    ELSE IF out.risk \notin Risks THEN Invalid("bad_enum")
    ELSE IF out.rule = Nil THEN Invalid("schema_violation")
    ELSE IF out.rule.id = Missing THEN Invalid("missing_required_field")
    ELSE IF out.rule.priority = -1 THEN Invalid("schema_violation")
    ELSE IF out.reasons = Missing THEN Invalid("missing_required_field")
    ELSE IF out.constraints = Missing \/ ~out.listed THEN Invalid("schema_violation")
    ELSE LET matched == ParseMatchedRules(out.matched)
             won == ResolveDecision(out.decision, out.rule, matched)
         IN  [err |-> Missing, decision |-> won.decision, risk |-> out.risk,
              rule |-> won.rule, matched |-> matched]

-----------------------------------------------------------------------------
(* The base policy and the evaluator. *)

CriticalRiskActions ==
    {<<"DATA", "DELETE">>, <<"CRM", "DELETE">>, <<"DATA", "BULK_EXPORT">>,
     <<"DATA", "EXPORT">>, <<"ACCESS", "GRANT">>, <<"ACCESS", "ROLE_CHANGE">>}

BaseRequireApproval(q) ==
    \/ q.risk = "CRITICAL"
    \/ q.action \in CriticalRiskActions /\ q.risk \in {"HIGH", "CRITICAL"}
    \/ q.action \in {<<"ACCESS", "GRANT">>, <<"ACCESS", "ROLE_CHANGE">>}

\* The effect of the base policy; it never denies.  A failed evaluation
\* counts as ALLOW.
EvaluateBasePolicy(q) ==
    {IF BaseRequireApproval(q) THEN "REQUIRE_APPROVAL" ELSE "ALLOW"}
      \cup (IF BaseMayFail THEN {"ALLOW"} ELSE {})

MergeTenantWins(base, decision) == decision
MergeBaseWins(base, decision) ==
    IF base = "REQUIRE_APPROVAL" THEN "REQUIRE_APPROVAL" ELSE decision
MergeBasePolicyDecision(base, decision) ==
    IF base = "REQUIRE_APPROVAL" /\ decision = "ALLOW"
    THEN "REQUIRE_APPROVAL" ELSE decision

\* What the engine makes of the tenant's policy for a request.
EvaluateTenantPolicy(policy, q) ==
    IF policy.kind = "structured"
    THEN {ParseResult(DecisionChain(policy.chain, q))}
    ELSE {ParseResult(out) : out \in Outputs}

-----------------------------------------------------------------------------
(* Operations. *)

Init ==
    /\ active = Nil /\ published = 0 /\ rows = <<>> /\ sim = Nil
    /\ report = Nil

HandlePolicyStructuredCreate(p) ==
    /\ Validate(p)
    /\ published < MaxPolicies
    /\ published' = published + 1
    /\ active' = [kind |-> "structured", policy |-> p, chain |-> Render(p)]
    /\ UNCHANGED <<rows, sim, report>>

HandlePolicyCreate ==
    /\ published < MaxPolicies
    /\ published' = published + 1
    /\ active' = [kind |-> "rego"]
    /\ UNCHANGED <<rows, sim, report>>

\* A call is decided and recorded.  "by" and "matched" are histories: the
\* policy that was active, and the matched rules before they were sorted.
Evaluate(q) ==
    /\ active # Nil
    /\ Len(rows) < MaxDecisions
    /\ \E base \in EvaluateBasePolicy(q), t \in EvaluateTenantPolicy(active, q) :
         /\ t.err = Missing
         /\ rows' = Append(rows,
              [req |-> q, decision |-> MergeBasePolicyDecision(base, t.decision),
               rule |-> t.rule, matched |-> t.matched, by |-> active])
    /\ UNCHANGED <<active, published, sim, report>>

\* A simulation evaluates the tenant's policy alone.
HandlePolicySimulate(q) ==
    /\ "simulate" \in Ops
    /\ active # Nil
    /\ \E t \in EvaluateTenantPolicy(active, q) :
         sim' = [kind |-> "sim", req |-> q, by |-> active,
                 decision |-> IF t.err = Missing THEN t.decision ELSE Missing]
    /\ UNCHANGED <<active, published, rows, report>>

Pair(row) == [req |-> row.req, decision |-> row.decision, rule |-> row.rule.id]
Hits(p) == {k \in DOMAIN rows : Pair(rows[k]) = p}

\* The pairs with the most hits, and of those with as many the last seen.
ListFallbackHitPairs(since) ==
    LET recent(p) == {k \in Hits(p) : k > since}
        pairs == {p \in {Pair(rows[k]) : k \in DOMAIN rows} :
                    p.rule \in FallbackRuleIDs /\ recent(p) # {}}
        last(p) == CHOOSE k \in recent(p) : \A j \in recent(p) : j <= k
        more(p, o) ==
          \/ Cardinality(recent(p)) > Cardinality(recent(o))
          \/ /\ Cardinality(recent(p)) = Cardinality(recent(o))
             /\ last(p) > last(o)
    IN  {p \in pairs : Cardinality({o \in pairs : more(o, p)}) < Limit}

ListUnusedActiveTools ==
    {t \in Tools : \A k \in DOMAIN rows : rows[k].req.tool # t}

BuildReport(since) ==
    /\ "report" \in Ops
    /\ report' = [kind |-> "report", since |-> since, rows |-> rows,
                  gaps |-> ListFallbackHitPairs(since),
                  unused |-> ListUnusedActiveTools]
    /\ UNCHANGED <<active, published, rows, sim>>

Next ==
    \/ \E p \in Policies : HandlePolicyStructuredCreate(p)
    \/ HandlePolicyCreate
    \/ \E q \in Requests : Evaluate(q) \/ HandlePolicySimulate(q)
    \/ \E since \in 0..MaxDecisions : BuildReport(since)

Spec == Init /\ [][Next]_vars

-----------------------------------------------------------------------------
(* Properties. *)

\* The rules of a structured policy that a request matches, read off the
\* matchers themselves.
MatchingRules(p, q) ==
    {i \in DOMAIN p.rules :
       LET r == p.rules[i]
       IN  /\ r.tools = {} \/ q.tool \in r.tools
           /\ r.types = {} \/ \E t \in r.types : t = q.action \/ t = <<q.action[1], "*">>
           /\ r.risks = {} \/ q.risk \in r.risks}

\* "Higher-priority rules win; the first match applies": a decision under a
\* structured policy names the matching rule of the highest priority, the
\* first one written if there are several, and one of the reserved rules
\* only if no rule matches.
HigherPriorityWins ==
    \A k \in DOMAIN rows : rows[k].by.kind = "structured" =>
      LET p == rows[k].by.policy
          m == MatchingRules(p, rows[k].req)
      IN  IF m = {} THEN rows[k].rule.id \in ReservedRuleIDs
          ELSE \E i \in m :
                 /\ rows[k].rule.id = p.rules[i].id
                 /\ \A j \in m \ {i} :
                      \/ p.rules[j].priority < p.rules[i].priority
                      \/ p.rules[j].priority = p.rules[i].priority /\ i < j

\* Whatever a policy in Rego says of the rules it matched, no rule of the
\* highest priority among them is stricter than the decision.
StrictestOfHighest ==
    \A k \in DOMAIN rows : \A i \in DOMAIN rows[k].matched :
      LET x == rows[k].matched[i]
      IN  (\A j \in DOMAIN rows[k].matched : rows[k].matched[j].priority <= x.priority)
            => DecisionRank(rows[k].decision) >= DecisionRank(x.effect)

\* No tenant's policy, however written, lets a call through that the base
\* policy wants approved.
BaseHolds ==
    \A k \in DOMAIN rows :
      BaseRequireApproval(rows[k].req) => rows[k].decision # "ALLOW"

\* A structured policy is never found stricter by a simulation than it is
\* enforced.
SimulationNotStricter ==
    \A k \in DOMAIN rows :
      (sim # Nil /\ active.kind = "structured" /\ sim.by = rows[k].by
         /\ sim.by.kind = "structured" /\ sim.req = rows[k].req)
        => DecisionRank(sim.decision) <= DecisionRank(rows[k].decision)

Unmatched(row) ==
    row.by.kind = "structured" /\ MatchingRules(row.by.policy, row.req) = {}

\* The report names no endpoint as unconfigured that was decided only by
\* rules an author wrote for it.
CoverageSound ==
    report # Nil =>
      \A g \in report.gaps : \E k \in DOMAIN report.rows :
        /\ Pair(report.rows[k]) = g
        /\ k > report.since
        /\ report.rows[k].by.kind = "structured" => Unmatched(report.rows[k])

\* The report lists every endpoint of the window that was governed by no
\* rule of the author's, up to the number of rows asked for.
CoverageComplete ==
    report # Nil /\ Cardinality(report.gaps) < Limit =>
      \A k \in DOMAIN report.rows :
        k > report.since /\ Unmatched(report.rows[k]) =>
          Pair(report.rows[k]) \in report.gaps
=============================================================================
