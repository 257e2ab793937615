------------------------------- MODULE Mempool -------------------------------
(***************************************************************************)
(* The Mempool of src/src/mempool.rs with every public operation taken as  *)
(* one atomic step (the locks are the subject of MempoolLocks).            *)
(*                                                                         *)
(* Its four indices are variables: transactions (id -> tx), the binary     *)
(* heap priority_queue, by_sender and tx_hashes.  A transaction is a model *)
(* value whose sender, fee and serialized size are constants; its hash is  *)
(* taken to be its id, since Transaction::hash covers every field but the  *)
(* signature, id included.  Every transaction passes tx.verify() and the   *)
(* max_tx_size check; the fee check is kept.  Removal from the heap is     *)
(* lazy, as in the code: a heap entry <<tx, insertion_time>> may outlive   *)
(* its transaction, and a removed transaction that is admitted again gets  *)
(* a second entry.                                                         *)
(***************************************************************************)
EXTENDS Integers, Sequences, SequencesExt, FiniteSets

CONSTANTS
    Txs,            \* transaction ids (model values)
    Senders,        \* sender addresses
    Sender,         \* [Txs -> Senders]: tx.from
    Fee,            \* [Txs -> Nat]: tx.fee, the priority_score
    TxSize,         \* [Txs -> Nat]: bincode size of the transaction
    MaxSize,        \* MempoolConfig.max_size
    MaxPerAccount,  \* MempoolConfig.max_per_account
    MinFee,         \* MempoolConfig.min_fee
    MaxCount,       \* max_count passed to get_next_batch
    MaxBytes,       \* max_size (bytes) passed to get_next_batch
    MaxInsertions   \* bound on insertion_counter, to keep the model finite

ASSUME /\ Sender \in [Txs -> Senders] /\ Fee \in [Txs -> Nat]
       /\ TxSize \in [Txs -> Nat]
       /\ {MaxSize, MaxPerAccount, MinFee, MaxCount, MaxBytes, MaxInsertions} \subseteq Nat

VARIABLES
    transactions,   \* ids present in the transactions map
    pq,             \* priority_queue: set of entries <<id, insertion_time>>
    bySender,       \* by_sender: sender -> sequence of ids (<<>> if absent)
    txHashes,       \* tx_hashes
    counter,        \* insertion_counter
    batch,          \* the batch returned by the last get_next_batch
    evicted         \* ids removed by the last cleanup_low_priority

vars == <<transactions, pq, bySender, txHashes, counter, batch, evicted>>

Entries == Txs \X (1..MaxInsertions)

\* Faulty variant of Higher: insertion order only, the fee ignored.
HigherFifo(a, b) == a[2] < b[2]

\* calculate_priority: the priority_score of a transaction is its fee.
CalculatePriority(t) == Fee[t]

\* Ord for PriorityTransaction: higher priority_score first, then earlier
\* insertion.
Higher(a, b) ==
    \/ CalculatePriority(a[1]) > CalculatePriority(b[1])
    \/ CalculatePriority(a[1]) = CalculatePriority(b[1]) /\ a[2] < b[2]

\* The order in which BinaryHeap::pop yields the entries of a heap.
PopOrder(q) == SetToSortSeq(q, Higher)

\* Faulty variant of RemoveIds: the sender list is not pruned.
RemoveIdsKeepSenders(ids, st) ==
    [st EXCEPT !.transactions = @ \ ids, !.txHashes = @ \ ids]

\* remove_transaction(id) applied to a set of ids at once: each id leaves
\* transactions, tx_hashes and its sender's list (emptied lists are the
\* same as removed keys); the heap is left alone.
RemoveIds(ids, st) ==
    [st EXCEPT !.transactions = @ \ ids,
               !.txHashes = @ \ ids,
               !.bySender = [s \in Senders |-> SelectSeq(@[s], LAMBDA id : id \notin ids)]]

\* cleanup_low_priority on state st: when size exceeds the target
\* floor(max_size * 0.9), pop size - target entries off the top of the heap
\* and call remove_transaction on each, counting an entry whose transaction
\* is already gone as removed all the same; the rest go back on the heap.
CleanupLowPriority(st) ==
    LET target == (MaxSize * 9) \div 10
        cur == Cardinality(st.transactions)
        order == PopOrder(st.pq)
        popped == {order[i] : i \in 1..Min({cur - target, Len(order)})}
        ids == {e[1] : e \in popped} \cap st.transactions
    IN IF cur <= target
       THEN [st EXCEPT !.evicted = {}]
       ELSE [RemoveIds(ids, st) EXCEPT !.pq = @ \ popped, !.evicted = ids]

\* validate_transaction: the fee is at least min_fee and the sender has
\* fewer than max_per_account transactions in the pool (the size and
\* signature checks pass for every transaction here).
ValidateTransaction(t) ==
    /\ Fee[t] >= MinFee
    /\ Len(bySender[Sender[t]]) < MaxPerAccount

\* is_full: size() >= max_size.
IsFull == Cardinality(transactions) >= MaxSize

\* should_replace: the fee is more than twice min_fee.
ShouldReplace(t) == Fee[t] > MinFee * 2

\* add_transaction(tx) when accepted: validate_transaction (min fee and the
\* per-account limit), the duplicate-hash check and the capacity check
\* (is_full && !should_replace) are the guard; a rejection changes only
\* statistics.  The transaction goes into all four indices with the next
\* insertion time, and cleanup_low_priority runs if the pool is now full.
AddTransaction(t) ==
    /\ ValidateTransaction(t)
    /\ t \notin txHashes
    /\ ~IsFull \/ ShouldReplace(t)
    /\ counter < MaxInsertions
    /\ LET st0 == [transactions |-> transactions \cup {t},
                   pq |-> pq \cup {<<t, counter + 1>>},
                   bySender |-> [bySender EXCEPT ![Sender[t]] = Append(@, t)],
                   txHashes |-> txHashes \cup {t},
                   evicted |-> {}]
           st1 == IF Cardinality(st0.transactions) >= MaxSize
                  THEN CleanupLowPriority(st0) ELSE st0
       IN /\ transactions' = st1.transactions
          /\ pq' = st1.pq
          /\ bySender' = st1.bySender
          /\ txHashes' = st1.txHashes
          /\ evicted' = st1.evicted
    /\ counter' = counter + 1
    /\ UNCHANGED batch

\* remove_transaction(id) of a present transaction, as commit_block calls
\* it for every transaction of a committed block.  The heap is untouched.
RemoveTransaction(t) ==
    /\ t \in transactions
    /\ LET st == RemoveIds({t}, [transactions |-> transactions,
                                 txHashes |-> txHashes, bySender |-> bySender])
       IN /\ transactions' = st.transactions
          /\ txHashes' = st.txHashes
          /\ bySender' = st.bySender
    /\ UNCHANGED <<pq, counter, batch, evicted>>

\* is_valid_nonce_order: only one transaction per sender per batch.
IsValidNonceOrder(t, processedSenders) == Sender[t] \notin processedSenders

\* The pop loop of get_next_batch over the pop order q.  An entry whose
\* transaction is gone is dropped (added to stale); a live entry that
\* would exceed max_count or max_size ends the loop; a live entry of a
\* sender already in the batch is skipped; otherwise it joins the batch.
\* Every live entry popped goes back on the heap.
RECURSIVE BatchLoop(_, _, _)
BatchLoop(q, txs, acc) ==
    IF q = <<>> THEN acc
    ELSE LET e == Head(q)
             t == e[1]
         IN IF t \notin txs
            THEN BatchLoop(Tail(q), txs, [acc EXCEPT !.stale = @ \cup {e}])
            ELSE IF Len(acc.batch) >= MaxCount \/ acc.total + TxSize[t] > MaxBytes
            THEN acc
            ELSE IF ~IsValidNonceOrder(t, acc.senders)
            THEN BatchLoop(Tail(q), txs, acc)
            ELSE BatchLoop(Tail(q), txs,
                           [acc EXCEPT !.batch = Append(@, t),
                                       !.senders = @ \cup {Sender[t]},
                                       !.total = @ + TxSize[t]])

\* Faulty variant of GetNextBatch: a heap entry whose transaction is gone
\* is taken for a live one.
GetNextBatchStale ==
    LET r == BatchLoop(PopOrder(pq), {e[1] : e \in pq},
                       [batch |-> <<>>, senders |-> {}, total |-> 0, stale |-> {}])
    IN /\ batch' = r.batch
       /\ pq' = pq \ r.stale
       /\ UNCHANGED <<transactions, bySender, txHashes, counter, evicted>>

\* get_next_batch(max_count, max_size): the batch is returned, the stale
\* entries it met are gone from the heap; the pool itself is unchanged.
GetNextBatch ==
    LET r == BatchLoop(PopOrder(pq), transactions,
                       [batch |-> <<>>, senders |-> {}, total |-> 0, stale |-> {}])
    IN /\ batch' = r.batch
       /\ pq' = pq \ r.stale
       /\ UNCHANGED <<transactions, bySender, txHashes, counter, evicted>>

\* clear(), run by the node on shutdown: every index is emptied; the
\* insertion counter is not reset.
Clear ==
    /\ transactions' = {}
    /\ pq' = {}
    /\ bySender' = [s \in Senders |-> <<>>]
    /\ txHashes' = {}
    /\ UNCHANGED <<counter, batch, evicted>>

Init ==
    /\ transactions = {}
    /\ pq = {}
    /\ bySender = [s \in Senders |-> <<>>]
    /\ txHashes = {}
    /\ counter = 0
    /\ batch = <<>>
    /\ evicted = {}

Next ==
    \/ \E t \in Txs : AddTransaction(t) \/ RemoveTransaction(t)
    \/ GetNextBatch
    \/ Clear

Spec == Init /\ [][Next]_vars

-----------------------------------------------------------------------------
(***************************************************************************)
(* Properties                                                              *)
(***************************************************************************)

TypeOK ==
    /\ transactions \subseteq Txs
    /\ pq \subseteq Entries
    /\ bySender \in [Senders -> Seq(Txs)]
    /\ txHashes \subseteq Txs
    /\ counter \in 0..MaxInsertions
    /\ batch \in Seq(Txs)
    /\ evicted \subseteq Txs

\* The four indices describe the same pool (spec 4.4, "three coordinated
\* indices"): tx_hashes holds exactly the hashes of the transactions map,
\* by_sender lists every present transaction once under its sender and
\* nothing else, and every present transaction still has an entry in the
\* heap, so that get_next_batch can reach it.  remove_transaction,
\* cleanup_low_priority (which pops entries and removes their
\* transactions) and the lazy heap removal of get_next_batch must keep
\* them in step.
IndexesAgree ==
    /\ txHashes = transactions
    /\ \A s \in Senders :
          /\ IsInjective(bySender[s])
          /\ ToSet(bySender[s]) = {t \in transactions : Sender[t] = s}
    /\ \A t \in transactions : \E e \in pq : e[1] = t

\* A batch from get_next_batch (spec 4.4, scenario 4) lists transactions in
\* priority order, at most one per sender, within max_count and max_size.
BatchWellFormed ==
    /\ Len(batch) <= MaxCount
    /\ \A i, j \in DOMAIN batch :
          i < j => /\ Sender[batch[i]] /= Sender[batch[j]]
                   /\ Fee[batch[i]] >= Fee[batch[j]]
    /\ FoldSeq(LAMBDA t, acc : TxSize[t] + acc, 0, batch) <= MaxBytes

Abstract == INSTANCE MempoolSpec WITH pool <- transactions

\* The mempool implements MempoolSpec (spec 4.4): seen through the
\* transactions map alone, every admission obeys the admission rules,
\* evictions happen only in the cleanup of an admission and stop at the
\* 0.9 target, and every batch lists present transactions.  The code
\* decides admission on by_sender and tx_hashes, counts cleanup's pops
\* on the heap, and fills batches from a heap with stale entries.
PoolRefinement == Abstract!Spec

\* Cleanup evicts the lowest-priority entries (spec 4.4): no transaction
\* that cleanup_low_priority removed has a higher fee than one it kept.
CleanupEvictsLowest ==
    \A t \in evicted, u \in transactions : Fee[t] <= Fee[u]

=============================================================================
