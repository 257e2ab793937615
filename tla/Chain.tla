-------------------------------- MODULE Chain --------------------------------
(***************************************************************************)
(* What the validators' block stores promise (spec 2, "Block. An          *)
(* immutable record once committed", and 8, "sequence ... increases by    *)
(* exactly 1 per commit"): each store's committed chain above genesis only *)
(* ever grows, one block at a time, the block at position i has height i, *)
(* and no committed block is ever replaced.  Orchestrator shows its        *)
(* stores implementing this specification.                                 *)
(***************************************************************************)
EXTENDS Integers, Sequences

CONSTANTS
    Owners,       \* the nodes that own a store
    Blk           \* the blocks that may be committed (records with a height)

VARIABLE chains   \* chains[n]: the blocks n committed at heights 1, 2, ...

Init == chains = [n \in Owners |-> <<>>]

\* Node n commits the next block: it extends n's chain and carries the
\* next height.
Commit(n, b) ==
    /\ b.height = Len(chains[n]) + 1
    /\ chains' = [chains EXCEPT ![n] = Append(@, b)]

Next == \E n \in Owners, b \in Blk : Commit(n, b)

Spec == Init /\ [][Next]_chains

=============================================================================
