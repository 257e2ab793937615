------------------------------ MODULE MC_Mempool ------------------------------
(* Instantiates Mempool for TLC: four transactions from two senders, with  *)
(* fees 1, 2 and 3 around min_fee = 1 and the replacement threshold        *)
(* fee > 2, and sizes that make the byte limit of a batch bite.            *)
EXTENDS Mempool, TLC

CONSTANTS t1, t2, t3, t4, s1, s2

MCSender == (t1 :> s1) @@ (t2 :> s1) @@ (t3 :> s2) @@ (t4 :> s2)
MCFee == (t1 :> 1) @@ (t2 :> 3) @@ (t3 :> 2) @@ (t4 :> 3)
MCTxSize == (t1 :> 1) @@ (t2 :> 2) @@ (t3 :> 1) @@ (t4 :> 2)
=============================================================================
