-------------------------- MODULE ApprovalLifecycle --------------------------
(***************************************************************************)
(* What the approval workflow promises of one approval, without requests,  *)
(* clocks or stores: it is decided once, expires or is claimed once, the   *)
(* tool runs only under a claim, and a claim ends in EXECUTED only if the  *)
(* tool has answered.  The tool may run more than once under one claim.    *)
(***************************************************************************)
CONSTANT Approvals

VARIABLES
    state,          \* the status of each approval
    ran,            \* approvals under which the tool has been called
    answered        \* approvals under which the tool has answered

lifecycleVars == <<state, ran, answered>>

Init ==
    /\ state = [a \in Approvals |-> "NONE"]
    /\ ran = {}
    /\ answered = {}

Move(a, from, to) ==
    /\ state[a] \in from
    /\ state' = [state EXCEPT ![a] = to]
    /\ UNCHANGED <<ran, answered>>

Create(a) == Move(a, {"NONE"}, "PENDING")

Decide(a, d) == Move(a, {"PENDING"}, d)

Expire(a) == Move(a, {"PENDING", "APPROVED"}, "EXPIRED")

Claim(a) == Move(a, {"APPROVED"}, "EXECUTING")

Run(a) ==
    /\ state[a] \in {"EXECUTING", "EXECUTED", "FAILED"}
    /\ ran' = ran \cup {a}
    /\ UNCHANGED <<state, answered>>

ToolAnswers(a) ==
    /\ a \in ran
    /\ answered' = answered \cup {a}
    /\ UNCHANGED <<state, ran>>

Complete(a) == a \in answered /\ Move(a, {"EXECUTING"}, "EXECUTED")

Fail(a) == Move(a, {"EXECUTING"}, "FAILED")

Next ==
    \E a \in Approvals :
        \/ Create(a)
        \/ \E d \in {"APPROVED", "DENIED", "REVOKED"} : Decide(a, d)
        \/ Expire(a) \/ Claim(a) \/ Run(a) \/ ToolAnswers(a)
        \/ Complete(a) \/ Fail(a)

Spec == Init /\ [][Next]_lifecycleVars
=============================================================================
