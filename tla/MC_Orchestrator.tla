--------------------------- MODULE MC_Orchestrator ---------------------------
EXTENDS Orchestrator, TLC

CONSTANTS v1, v2, v3, v4, t1, t2

\* The validator set of node.rs, validator-1 .. validator-4, in order.
MCValidatorOrder == <<v1, v2, v3, v4>>

\* Two validators, where a quorum is both of them.
MCValidatorPair == <<v1, v2>>

\* v1 leads view 0; the other validators and the transactions are
\* interchangeable.
FollowerSymmetry == Permutations({v2, v3, v4}) \cup Permutations({t1, t2})

====
