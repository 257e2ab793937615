--------------------------- MODULE MC_ViewChange ---------------------------
EXTENDS ViewChange, TLC

CONSTANTS v1, v2, v3, v4

\* The validator set of node.rs, validator-1 .. validator-4, in order:
\* v1 is the primary of views 0 and 4, v2 of view 1, v3 of view 2.
MCValidatorOrder == <<v1, v2, v3, v4>>

====
