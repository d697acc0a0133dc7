------------------------------ MODULE Provenance ------------------------------
(***************************************************************************)
(* The provenance chain of a call that crosses tenants: a gateway reads    *)
(* the token of a request, takes its depth, and issues the token for the   *)
(* next hop with a depth one greater, unless that exceeds the maximum.     *)
(* Tokens are signed by a key of the process and expire.  A request whose  *)
(* token does not hold is handled as one that has none.                    *)
(*                                                                         *)
(* The gateway itself calls ValidateToken only; IssueToken is what the     *)
(* manager offers to the hop that goes on.                                 *)
(***************************************************************************)
EXTENDS Integers, FiniteSets

CONSTANTS
    ChainGateways,
    Chains,         \* chains of calls under way
    MaxChainDepth,
    ChainTTL,       \* lifetime of a token
    MaxChainTime, MaxChainBoot, MaxHops

ASSUME ProvenanceAssumption ==
    {MaxChainDepth, ChainTTL, MaxChainTime, MaxChainBoot, MaxHops} \subseteq Nat

VARIABLES
    chainClock,
    chainBoot,
    chain           \* per chain: its hops, its token, and whether it is clean

provenanceVars == <<chainClock, chainBoot, chain>>

NoChainToken == [depth |-> 0, exp |-> 0, key |-> <<>>]

ProvenanceInit ==
    /\ chainClock = 0
    /\ chainBoot = [g \in ChainGateways |-> 1]
    /\ chain = [c \in Chains |-> [hops |-> 0, token |-> NoChainToken, clean |-> TRUE,
                                  seen |-> 0, over |-> FALSE]]

ChainKey(g) == <<g, chainBoot[g]>>

IssueTokenAsIs(g, currentDepth) ==
    {[depth |-> currentDepth, exp |-> chainClock + ChainTTL, key |-> ChainKey(g)]}
\* The token for the next hop, or none.
IssueToken(g, currentDepth) ==
    IF currentDepth + 1 > MaxChainDepth THEN {}
    ELSE {[depth |-> currentDepth + 1, exp |-> chainClock + ChainTTL, key |-> ChainKey(g)]}

ValidateToken(g, token) ==
    /\ token.key = ChainKey(g)
    /\ chainClock <= token.exp
    /\ token.depth <= MaxChainDepth

ExtractProvenanceOnce(g, token) == 0
\* The depth that is put into the policy's input.
ExtractProvenance(g, token) == IF ValidateToken(g, token) THEN token.depth ELSE 0

\* A hop: a request of the chain is handled by a gateway, and goes on.  A
\* chain is clean as long as no token of it was refused.
Hop(c, g) ==
    LET k == chain[c].token
        depth == ExtractProvenance(g, k)
        next == IssueToken(g, depth)
    IN  /\ ~chain[c].over /\ chain[c].hops < MaxHops
        /\ chain' = [chain EXCEPT ![c] =
             [hops |-> @.hops + 1,
              token |-> IF next = {} THEN NoChainToken ELSE CHOOSE n \in next : TRUE,
              clean |-> @.clean /\ (@.hops = 0 \/ ValidateToken(g, k)),
              seen |-> depth,
              over |-> next = {}]]
        /\ UNCHANGED <<chainClock, chainBoot>>

ChainTick ==
    /\ chainClock < MaxChainTime
    /\ chainClock' = chainClock + 1
    /\ UNCHANGED <<chainBoot, chain>>
Restart(g) ==
    /\ chainBoot[g] < MaxChainBoot
    /\ chainBoot' = [chainBoot EXCEPT ![g] = @ + 1]
    /\ UNCHANGED <<chainClock, chain>>

ProvenanceNext ==
    \/ \E c \in Chains, g \in ChainGateways : Hop(c, g)
    \/ ChainTick
    \/ \E g \in ChainGateways : Restart(g)

ProvenanceSpec == ProvenanceInit /\ [][ProvenanceNext]_provenanceVars

-----------------------------------------------------------------------------
(* Properties. *)

\* What a policy sees as the depth of a chain is the number of hops before
\* this one if no token was refused on the way, and never more than that
\* (extractProvenance).
DepthIsHops ==
    \A c \in Chains :
        /\ chain[c].hops > 0 => chain[c].seen <= chain[c].hops - 1
        /\ chain[c].hops > 0 /\ chain[c].clean => chain[c].seen = chain[c].hops - 1

\* A chain none of whose tokens is refused comes to an end: the hop that
\* reaches the maximum cannot go on (IssueToken).
CleanChainEnds ==
    \A c \in Chains : chain[c].clean => chain[c].hops <= MaxChainDepth + 1

\* The depth that a policy sees is the number of hops before this one if no
\* token was refused on the way, and never more; a chain none of whose
\* tokens is refused comes to an end at the maximum (extractProvenance,
\* IssueToken).
ChainsAreCounted == DepthIsHops /\ CleanChainEnds

\* "Configurable max chain depth (default 5) prevents infinite loops"
\* (README): no chain has more hops than that.
ChainEnds == \A c \in Chains : chain[c].hops <= MaxChainDepth + 1
=============================================================================
