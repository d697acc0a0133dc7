-------------------------------- MODULE RateLimit ------------------------------
(***************************************************************************)
(* enforceRateLimit: a call reads the tenant's effective limits, looks at  *)
(* the clock once, and takes a place in the bucket of its minute and then  *)
(* in the bucket of its day, each with one statement.  Gateways run        *)
(* concurrently on the same counters; an administrator changes the         *)
(* defaults; policies override them call by call.                          *)
(*                                                                         *)
(* Time is counted in ticks, SecondTicks to a second.  Minutes and days    *)
(* are shortened to MinuteSeconds and DayMinutes.                          *)
(***************************************************************************)
EXTENDS Integers, FiniteSets

CONSTANTS
    Checks,
    Agents, RateTools,
    DefaultConfig,  \* limits of the code
    TenantConfig,   \* tenant_config: what the tenant's row sets, else Unset
    LimitConfigs,   \* limits that administrators set
    Overrides,      \* overrides by policies: records, 0 for "switched off"
    SecondTicks, MinuteSeconds, DayMinutes,
    MaxRateTime,    \* bound on the clock
    MaxSets,        \* bound on the administrator's changes
    Unset

Scopes == {"tenant", "tenant_agent", "tenant_tool", "tenant_agent_tool"}
Minute == SecondTicks * MinuteSeconds
Day == Minute * DayMinutes

ASSUME RateLimitAssumption ==
    /\ SecondTicks \in Nat \ {0}
    /\ MinuteSeconds \in Nat \ {0}
    /\ DayMinutes \in Nat \ {0}
    /\ MaxRateTime \in Nat /\ MaxSets \in Nat
    /\ LimitConfigs \cup {DefaultConfig} \subseteq
         [perMinute : Nat \ {0}, perDay : Nat \ {0}, scope : Scopes]
    /\ Overrides \cup {TenantConfig} \subseteq
         [perMinute : Nat \cup {Unset}, perDay : Nat \cup {Unset}, scope : Scopes \cup {Unset}]
    /\ Unset \notin Nat \cup Scopes

VARIABLES
    rateClock,      \* the clock
    settings,       \* system_settings: the limits set, or Unset
    count,          \* rate_limit_counters: from <<key, window, bucket>>
    check,          \* the calls
    sets            \* how often the limits were changed

rateLimitVars == <<rateClock, settings, count, check, sets>>

\* Which columns of the key a scope leaves in place.
ApplyRateLimitScope(scope, agent, tool) ==
    CASE scope = "tenant" -> <<"", "">>
      [] scope = "tenant_agent" -> <<agent, "">>
      [] scope = "tenant_tool" -> <<"", tool>>
      [] OTHER -> <<agent, tool>>

MinuteBucketStart(t) == t - (t % Minute)
DayBucketStart(t) == t - (t % Day)
BucketStart(window, t) == IF window = "minute" THEN MinuteBucketStart(t)
                          ELSE DayBucketStart(t)
Length(window) == IF window = "minute" THEN Minute ELSE Day

SecondsRoundedDown(window, t) ==
    (BucketStart(window, t) + Length(window) - t) \div SecondTicks
\* Rounded up to whole seconds.
SecondsUntilNext(window, t) ==
    (BucketStart(window, t) + Length(window) - t + SecondTicks - 1)
      \div SecondTicks

RateKeys == {ApplyRateLimitScope(s, a, t) : s \in Scopes, a \in Agents, t \in RateTools}
Buckets(window) == {BucketStart(window, t) : t \in 0 .. MaxRateTime}
Counters == {<<k, w, b>> : k \in RateKeys, w \in {"minute", "day"},
                       b \in Buckets("minute") \cup Buckets("day")}

\* A call that has read nothing yet.
Unchecked == [pc |-> "idle", agent |-> "", tool |-> "", cfg |-> DefaultConfig, at |-> 0,
              key |-> <<"", "">>, window |-> "minute", retry |-> 0]

RateLimitInit ==
    /\ rateClock = 0
    /\ settings = [perMinute |-> Unset, perDay |-> Unset, scope |-> Unset]
    /\ count = [r \in Counters |-> 0]
    /\ check = [c \in Checks |-> Unchecked]
    /\ sets = 0

-----------------------------------------------------------------------------
\* What o sets replaces that part of cfg.  A policy may set 0, which switches
\* a window off; the settings and the tenant's row cannot.
ApplyPolicyRateLimitOverrides(cfg, o) ==
    LET Over(new, old) == IF new = Unset THEN old ELSE new
    IN  [perMinute |-> Over(o.perMinute, cfg.perMinute),
         perDay |-> Over(o.perDay, cfg.perDay),
         scope |-> Over(o.scope, cfg.scope)]

\* The limits are read with one statement; the clock is read after it.
GetEffectiveRateLimitConfig ==
    ApplyPolicyRateLimitOverrides(
      ApplyPolicyRateLimitOverrides(DefaultConfig, settings), TenantConfig)

ReadLimits(c, agent, tool, o) ==
    /\ check[c].pc = "idle"
    /\ check' = [check EXCEPT ![c].pc = "clock", ![c].agent = agent, ![c].tool = tool,
         ![c].cfg = ApplyPolicyRateLimitOverrides(GetEffectiveRateLimitConfig, o)]
    /\ UNCHANGED <<rateClock, settings, count, sets>>

ReadClock(c) ==
    LET x == check[c]
    IN  /\ x.pc = "clock"
        /\ check' = [check EXCEPT ![c] =
             [Unchecked EXCEPT !.pc = "minute", !.cfg = x.cfg, !.at = rateClock,
                !.key = ApplyRateLimitScope(x.cfg.scope, x.agent, x.tool)]]
        /\ UNCHANGED <<rateClock, settings, count, sets>>

Row(c, window) == <<check[c].key, window, BucketStart(window, check[c].at)>>

IncrementUnlessOver(c, window, limit) ==
    /\ count[Row(c, window)] <= limit
    /\ count' = [count EXCEPT ![Row(c, window)] = @ + 1]
\* The INSERT ... ON CONFLICT DO UPDATE ... WHERE count < limit.
IncrementRateLimitCounter(c, window, limit) ==
    /\ count[Row(c, window)] < limit
    /\ count' = [count EXCEPT ![Row(c, window)] = @ + 1]

OverLimit(c, window, limit) ==
    /\ ~(count[Row(c, window)] < limit)
    /\ check' = [check EXCEPT ![c] =
         [Unchecked EXCEPT !.pc = "refused", !.at = check[c].at, !.key = check[c].key,
            !.window = window, !.retry = SecondsUntilNext(window, check[c].at)]]
    /\ UNCHANGED count

EnforceMinute(c) ==
    LET limit == check[c].cfg.perMinute
        on == [check EXCEPT ![c].pc = "day"]
    IN  /\ check[c].pc = "minute"
        /\ \/ limit = 0 /\ check' = on /\ UNCHANGED count
           \/ /\ limit > 0
              /\ IncrementRateLimitCounter(c, "minute", limit)
              /\ check' = on
           \/ limit > 0 /\ OverLimit(c, "minute", limit)
        /\ UNCHANGED <<rateClock, settings, sets>>

EnforceDay(c) ==
    LET limit == check[c].cfg.perDay
        on == [check EXCEPT ![c].pc = "allowed"]
    IN  /\ check[c].pc = "day"
        /\ \/ limit = 0 /\ check' = on /\ UNCHANGED count
           \/ /\ limit > 0
              /\ IncrementRateLimitCounter(c, "day", limit)
              /\ check' = on
           \/ limit > 0 /\ OverLimit(c, "day", limit)
        /\ UNCHANGED <<rateClock, settings, sets>>

LimitOf(c, window) == IF window = "minute" THEN check[c].cfg.perMinute
                      ELSE check[c].cfg.perDay

\* A statement that fails ends the call with an error; the place that it may
\* have taken, and an earlier one, stay taken.
EnforceError(c) ==
    /\ \/ check[c].pc = "idle" /\ UNCHANGED count
       \/ /\ check[c].pc \in {"minute", "day"}
          /\ LimitOf(c, check[c].pc) > 0
          /\ \/ UNCHANGED count
             \/ IncrementRateLimitCounter(c, check[c].pc, LimitOf(c, check[c].pc))
    /\ check' = [check EXCEPT ![c] = [Unchecked EXCEPT !.pc = "failed"]]
    /\ UNCHANGED <<rateClock, settings, sets>>

SetDefaultRateLimitConfig(cfg) ==
    /\ sets < MaxSets
    /\ settings' = cfg
    /\ sets' = sets + 1
    /\ UNCHANGED <<rateClock, count, check>>

RateTick ==
    /\ rateClock < MaxRateTime
    /\ rateClock' = rateClock + 1
    /\ UNCHANGED <<settings, count, check, sets>>

RateLimitNext ==
    \/ RateTick
    \/ \E cfg \in LimitConfigs : SetDefaultRateLimitConfig(cfg)
    \/ \E c \in Checks :
         \/ \E a \in Agents, t \in RateTools, o \in Overrides :
              ReadLimits(c, a, t, o)
         \/ ReadClock(c) \/ EnforceMinute(c) \/ EnforceDay(c)
         \/ EnforceError(c)

RateLimitSpec == RateLimitInit /\ [][RateLimitNext]_rateLimitVars

-----------------------------------------------------------------------------
(* Properties. *)

Placed(r) == {c \in Checks :
    /\ check[c].pc \in (IF r[2] = "minute" THEN {"day", "allowed"}
                       ELSE {"allowed"})
    /\ LimitOf(c, r[2]) > 0
    /\ Row(c, r[2]) = r}

\* However calls and changes of the limits interleave, the calls that were
\* let through in one bucket are at most as many as the largest limit that
\* any of them was under, and all of them are counted.
NoMoreThanLimit ==
    \A r \in Counters : Placed(r) # {} =>
      /\ Cardinality(Placed(r)) <= count[r]
      /\ \E c \in Placed(r) : Cardinality(Placed(r)) <= LimitOf(c, r[2])

\* A caller that waits as long as it is told finds a new bucket, and is told
\* to wait less than a second too long.
RetryFindsNewBucket ==
    \A c \in Checks : check[c].pc = "refused" =>
      LET again == check[c].at + check[c].retry * SecondTicks
          next == BucketStart(check[c].window, check[c].at)
                    + Length(check[c].window)
      IN  next <= again /\ again < next + SecondTicks

\* However calls and changes of the limits interleave, the calls let through
\* in one bucket are at most as many as the largest limit any of them was
\* under, and all are counted; a caller that waits as long as it is told
\* finds a new bucket, less than a second after it began (enforceRateLimit,
\* IncrementRateLimitCounter).
LimitsHold == NoMoreThanLimit /\ RetryFindsNewBucket
=============================================================================
