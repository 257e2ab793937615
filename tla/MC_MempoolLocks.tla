---------------------------- MODULE MC_MempoolLocks ----------------------------
(* Instantiates MempoolLocks for TLC with the transactions of MC_Mempool   *)
(* and one task per role: a client calling add_transaction, the proposer   *)
(* task calling get_next_batch and the message task calling                *)
(* remove_transaction for committed transactions, and Node::shutdown       *)
(* calling clear.                                                          *)
EXTENDS MempoolLocks

CONSTANTS t1, t2, t3, t4, s1, s2, client, client2, proposer, committer, shutdown

MCSender == (t1 :> s1) @@ (t2 :> s1) @@ (t3 :> s2) @@ (t4 :> s2)
MCFee == (t1 :> 1) @@ (t2 :> 3) @@ (t3 :> 2) @@ (t4 :> 3)
MCTxSize == (t1 :> 1) @@ (t2 :> 2) @@ (t3 :> 1) @@ (t4 :> 2)
MCRole == [th \in Threads |->
              ((client :> "client") @@ (client2 :> "client") @@ (proposer :> "proposer")
               @@ (committer :> "committer") @@ (shutdown :> "shutdown"))[th]]
=============================================================================
