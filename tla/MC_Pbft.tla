------------------------------- MODULE MC_Pbft -------------------------------
(* Instantiates Pbft for TLC: four validators v1..v4 in this order, so    *)
(* that v1 is the primary of view 0 and v2 of view 1, N = 3f + 1 with      *)
(* f = 1 and a quorum of 3; blocks are model values.                      *)
EXTENDS Pbft, TLC

CONSTANTS v1, v2, v3, v4

MCValidatorOrder == <<v1, v2, v3, v4>>

\* Blocks are interchangeable: only equality of hashes matters.
BlockSymmetry == Permutations(Blocks)

\* With MaxView = 0 only v1 is ever a primary and v2, v3, v4 play the same
\* role, so they may be permuted as well.
BackupSymmetry == Permutations(Blocks) \cup Permutations({v2, v3, v4})

\* With MaxView = 1 the primaries are v1 and v2; v3 and v4 play the same role.
ViewOneSymmetry == Permutations(Blocks) \cup Permutations({v3, v4})

\* No sequence number at all: no block is ever proposed.
NoSeqBound == -1
=============================================================================
