---------------------------- MODULE MempoolLocks ----------------------------
(***************************************************************************)
(* The lock discipline of the Mempool of src/src/mempool.rs.  Every index  *)
(* of the pool sits behind its own std::sync::RwLock, and each public     *)
(* operation takes them in its own order, scope by scope.  Here a thread   *)
(* runs one operation at a time as a program with a label per lock scope:  *)
(*                                                                         *)
(*   add_transaction     by_sender.r | tx_hashes.r | transactions.r        *)
(*                       | insertion_counter.w | transactions.w,           *)
(*                       priority_queue.w, by_sender.w, tx_hashes.w        *)
(*                       | transactions.r, then cleanup_low_priority       *)
(*   cleanup_low_priority  transactions.r | priority_queue.w held while    *)
(*                       remove_transaction runs for each popped entry     *)
(*   remove_transaction  transactions.w, by_sender.w, tx_hashes.w          *)
(*   get_next_batch      transactions.r, priority_queue.w                  *)
(*   clear               transactions.w, priority_queue.w, by_sender.w,    *)
(*                       tx_hashes.w                                       *)
(*                                                                         *)
(* where "|" ends a scope (its guards are released) and "," takes the     *)
(* next lock while holding the earlier ones.  The stats lock is left out:  *)
(* it is always the last one taken and nothing is taken while it is held,  *)
(* so it can be on no cycle of waiting threads.  A read is granted          *)
(* whenever no writer holds the lock; std's RwLock may also hold a reader  *)
(* back behind a waiting writer, which only adds waiting.                  *)
(*                                                                         *)
(* The data effects are those of Mempool, which is instantiated on the     *)
(* same variables.                                                         *)
(***************************************************************************)
EXTENDS Integers, Sequences, FiniteSets, TLC, Relation

CONSTANTS
    Txs, Senders, Sender, Fee, TxSize, MaxSize, MaxPerAccount, MinFee,
    MaxCount, MaxBytes, MaxInsertions,
    Threads,        \* the tasks that call into the shared Arc<Mempool>
    Role,           \* [Threads -> Roles]: which operation a task calls
    NoThread,       \* a lock held by nobody
    NoTx            \* no transaction argument

Roles == {"client", "proposer", "committer", "shutdown"}

ASSUME Role \in [Threads -> Roles] /\ NoThread \notin Threads /\ NoTx \notin Txs

VARIABLES
    transactions, pq, bySender, txHashes, counter,   \* as in Mempool
    pc,             \* pc[th]: the scope thread th is at
    arg,            \* arg[th]: the transaction it works on
    loc,            \* loc[th]: the locals of cleanup_low_priority
    writer,         \* writer[l]: the thread holding l for write
    readers         \* readers[l]: the threads holding l for read

vars == <<transactions, pq, bySender, txHashes, counter, pc, arg, loc,
          writer, readers>>

M == INSTANCE Mempool WITH batch <- <<>>, evicted <- {}

LockNames == {"transactions", "priority_queue", "by_sender", "tx_hashes",
              "insertion_counter"}

NoLoc == [time |-> 0, toRemove |-> 0, popped |-> <<>>, removed |-> 0, ret |-> "idle"]

\* The lock and mode the scope at label lbl waits for, if any.
Need == ("a_validate" :> <<"by_sender", "read">>)
     @@ ("a_dup" :> <<"tx_hashes", "read">>)
     @@ ("a_full" :> <<"transactions", "read">>)
     @@ ("a_counter" :> <<"insertion_counter", "write">>)
     @@ ("a_lock_tx" :> <<"transactions", "write">>)
     @@ ("a_lock_pq" :> <<"priority_queue", "write">>)
     @@ ("a_lock_bs" :> <<"by_sender", "write">>)
     @@ ("a_lock_th" :> <<"tx_hashes", "write">>)
     @@ ("a_isfull" :> <<"transactions", "read">>)
     @@ ("c_size" :> <<"transactions", "read">>)
     @@ ("c_lock_pq" :> <<"priority_queue", "write">>)
     @@ ("r_lock_tx" :> <<"transactions", "write">>)
     @@ ("r_lock_bs" :> <<"by_sender", "write">>)
     @@ ("r_lock_th" :> <<"tx_hashes", "write">>)
     @@ ("g_lock_tx" :> <<"transactions", "read">>)
     @@ ("g_lock_pq" :> <<"priority_queue", "write">>)
     @@ ("x_lock_tx" :> <<"transactions", "write">>)
     @@ ("x_lock_pq" :> <<"priority_queue", "write">>)
     @@ ("x_lock_bs" :> <<"by_sender", "write">>)
     @@ ("x_lock_th" :> <<"tx_hashes", "write">>)

\* The guard a thread takes at a label and keeps into the next one.
AfterAcquire == ("a_lock_tx" :> "a_lock_pq") @@ ("a_lock_pq" :> "a_lock_bs")
             @@ ("a_lock_bs" :> "a_lock_th") @@ ("a_lock_th" :> "a_insert")
             @@ ("r_lock_tx" :> "r_lock_bs") @@ ("r_lock_bs" :> "r_lock_th")
             @@ ("r_lock_th" :> "r_do")
             @@ ("g_lock_tx" :> "g_lock_pq") @@ ("g_lock_pq" :> "g_run")
             @@ ("x_lock_tx" :> "x_lock_pq") @@ ("x_lock_pq" :> "x_lock_bs")
             @@ ("x_lock_bs" :> "x_lock_th") @@ ("x_lock_th" :> "x_do")

\* RwLock::read / RwLock::write would return now.
CanTake(l, m) == writer[l] = NoThread /\ (m = "write" => readers[l] = {})

Waiting(th) == pc[th] \in DOMAIN Need

Ready(th) == Waiting(th) /\ CanTake(Need[pc[th]][1], Need[pc[th]][2])

\* th is blocked on a guard that thread other holds.
Blocks(th, other) ==
    /\ Waiting(th) /\ th /= other
    /\ LET l == Need[pc[th]][1]
       IN \/ writer[l] = other
          \/ Need[pc[th]][2] = "write" /\ other \in readers[l]

Grant(th, l, m) ==
    IF m = "write" THEN /\ writer' = [writer EXCEPT ![l] = th]
                        /\ UNCHANGED readers
                   ELSE /\ readers' = [readers EXCEPT ![l] = @ \cup {th}]
                        /\ UNCHANGED writer

\* The guards of th on the locks ls are dropped at the end of their scope.
Drop(th, ls) ==
    /\ writer' = [l \in LockNames |-> IF l \in ls /\ writer[l] = th
                                      THEN NoThread ELSE writer[l]]
    /\ readers' = [l \in LockNames |-> IF l \in ls THEN readers[l] \ {th}
                                       ELSE readers[l]]

DataVars == <<transactions, pq, bySender, txHashes, counter>>
LockVars == <<writer, readers>>

Goto(th, lbl) == pc' = [pc EXCEPT ![th] = lbl]

-----------------------------------------------------------------------------
(* A task calls an operation of its role.                                  *)

\* add_transaction(tx) is called (by an RPC or test client).
CallAdd(th, t) ==
    /\ Role[th] = "client" /\ pc[th] = "idle"
    /\ counter < MaxInsertions
    /\ Goto(th, "a_validate")
    /\ arg' = [arg EXCEPT ![th] = t]
    /\ loc' = [loc EXCEPT ![th] = NoLoc]
    /\ UNCHANGED <<DataVars, LockVars>>

\* remove_transaction(id) is called for a transaction of a committed block.
CallRemove(th, t) ==
    /\ Role[th] = "committer" /\ pc[th] = "idle"
    /\ Goto(th, "r_lock_tx")
    /\ arg' = [arg EXCEPT ![th] = t]
    /\ loc' = [loc EXCEPT ![th] = NoLoc]
    /\ UNCHANGED <<DataVars, LockVars>>

\* get_next_batch(max_count, max_size) is called by the proposer.
CallBatch(th) ==
    /\ Role[th] = "proposer" /\ pc[th] = "idle"
    /\ Goto(th, "g_lock_tx")
    /\ UNCHANGED <<DataVars, arg, loc, LockVars>>

\* clear() is called by Node::shutdown, the consensus tasks still running.
CallClear(th) ==
    /\ Role[th] = "shutdown" /\ pc[th] = "idle"
    /\ Goto(th, "x_lock_tx")
    /\ UNCHANGED <<DataVars, arg, loc, LockVars>>

(* One lock scope of add_transaction each.                                 *)

\* validate_transaction, under by_sender.read; a rejection ends the call.
Validate(th) ==
    /\ pc[th] = "a_validate" /\ Ready(th)
    /\ Goto(th, IF M!ValidateTransaction(arg[th]) THEN "a_dup" ELSE "idle")
    /\ UNCHANGED <<DataVars, arg, loc, LockVars>>

\* The duplicate check under tx_hashes.read.
DupCheck(th) ==
    /\ pc[th] = "a_dup" /\ Ready(th)
    /\ Goto(th, IF arg[th] \in txHashes THEN "idle" ELSE "a_full")
    /\ UNCHANGED <<DataVars, arg, loc, LockVars>>

\* is_full() && !should_replace(), is_full reading transactions.len().
CapacityCheck(th) ==
    /\ pc[th] = "a_full" /\ Ready(th)
    /\ Goto(th, IF M!IsFull /\ ~M!ShouldReplace(arg[th]) THEN "idle"
                ELSE "a_counter")
    /\ UNCHANGED <<DataVars, arg, loc, LockVars>>

\* insertion_time from insertion_counter.write.
NextInsertion(th) ==
    /\ pc[th] = "a_counter" /\ Ready(th)
    /\ counter < MaxInsertions
    /\ counter' = counter + 1
    /\ loc' = [loc EXCEPT ![th].time = counter + 1]
    /\ Goto(th, "a_lock_tx")
    /\ UNCHANGED <<transactions, pq, bySender, txHashes, arg, LockVars>>

\* A guard of a nested scope is taken and kept.
Acquire(th) ==
    /\ pc[th] \in DOMAIN AfterAcquire /\ Ready(th)
    /\ Grant(th, Need[pc[th]][1], Need[pc[th]][2])
    /\ Goto(th, AfterAcquire[pc[th]])
    /\ UNCHANGED <<DataVars, arg, loc>>

\* With all four write guards held the transaction enters every index;
\* the scope ends and drops them.
Insert(th) ==
    /\ pc[th] = "a_insert"
    /\ LET t == arg[th]
       IN /\ transactions' = transactions \cup {t}
          /\ txHashes' = txHashes \cup {t}
          /\ pq' = pq \cup {<<t, loc[th].time>>}
          /\ bySender' = [bySender EXCEPT ![Sender[t]] = Append(@, t)]
    /\ Drop(th, {"transactions", "priority_queue", "by_sender", "tx_hashes"})
    /\ Goto(th, "a_isfull")
    /\ UNCHANGED <<counter, arg, loc>>

\* if self.is_full() { self.cleanup_low_priority() }
FullCheck(th) ==
    /\ pc[th] = "a_isfull" /\ Ready(th)
    /\ Goto(th, IF M!IsFull THEN "c_size" ELSE "idle")
    /\ UNCHANGED <<DataVars, arg, loc, LockVars>>

(* cleanup_low_priority, called from add_transaction.                      *)

\* current_size from size() under transactions.read; nothing to do at or
\* below the target floor(max_size * 0.9).
CleanupSize(th) ==
    /\ pc[th] = "c_size" /\ Ready(th)
    /\ LET target == (MaxSize * 9) \div 10
           cur == Cardinality(transactions)
       IN IF cur <= target
          THEN Goto(th, "idle") /\ UNCHANGED loc
          ELSE /\ Goto(th, "c_lock_pq")
               /\ loc' = [loc EXCEPT ![th].toRemove = cur - target]
    /\ UNCHANGED <<DataVars, arg, LockVars>>

\* priority_queue.write is taken and held to the end of the function; the
\* entries the loop will pass to remove_transaction are the first
\* to_remove of the pop order (the others are pushed back untouched).
CleanupLockQueue(th) ==
    /\ pc[th] = "c_lock_pq" /\ Ready(th)
    /\ Grant(th, "priority_queue", "write")
    /\ LET order == M!PopOrder(pq)
       IN loc' = [loc EXCEPT ![th].popped =
                      SubSeq(order, 1, IF loc[th].toRemove < Len(order)
                                       THEN loc[th].toRemove ELSE Len(order)),
                             ![th].removed = 0, ![th].ret = "c_loop"]
    /\ Goto(th, "c_loop")
    /\ UNCHANGED <<DataVars, arg>>

\* The pop loop: while removed_count < to_remove the popped entry's
\* transaction goes to remove_transaction, priority_queue.write still
\* held; then the rest is restored and the guard is dropped.
CleanupLoop(th) ==
    /\ pc[th] = "c_loop"
    /\ IF loc[th].removed < Len(loc[th].popped)
       THEN /\ arg' = [arg EXCEPT ![th] = loc[th].popped[loc[th].removed + 1][1]]
            /\ Goto(th, "r_lock_tx")
            /\ UNCHANGED <<pq, LockVars>>
       ELSE /\ pq' = pq \ {loc[th].popped[i] : i \in DOMAIN loc[th].popped}
            /\ Drop(th, {"priority_queue"})
            /\ Goto(th, "idle")
            /\ UNCHANGED arg
    /\ UNCHANGED <<transactions, bySender, txHashes, counter, loc>>

(* remove_transaction, called by a committer or by cleanup.                *)

\* With the three write guards held the transaction (if present) leaves
\* transactions, tx_hashes and by_sender; the guards are dropped on return.
RemoveDo(th) ==
    /\ pc[th] = "r_do"
    /\ LET st == M!RemoveIds({arg[th]}, [transactions |-> transactions,
                                        txHashes |-> txHashes,
                                        bySender |-> bySender])
       IN /\ transactions' = st.transactions
          /\ txHashes' = st.txHashes
          /\ bySender' = st.bySender
    /\ Drop(th, {"transactions", "by_sender", "tx_hashes"})
    /\ Goto(th, loc[th].ret)
    /\ loc' = [loc EXCEPT ![th].removed = @ + 1]
    /\ UNCHANGED <<pq, counter, arg>>

(* get_next_batch, called by the proposer.                                 *)

\* With transactions.read and priority_queue.write held the pop loop runs;
\* stale entries are gone from the heap, and both guards are dropped.
BatchRun(th) ==
    /\ pc[th] = "g_run"
    /\ LET r == M!BatchLoop(M!PopOrder(pq), transactions,
                            [batch |-> <<>>, senders |-> {}, total |-> 0,
                             stale |-> {}])
       IN pq' = pq \ r.stale
    /\ Drop(th, {"transactions", "priority_queue"})
    /\ Goto(th, "idle")
    /\ UNCHANGED <<transactions, bySender, txHashes, counter, arg, loc>>

(* clear, called on shutdown.                                             *)

\* With the four write guards held every index is emptied.
ClearDo(th) ==
    /\ pc[th] = "x_do"
    /\ transactions' = {}
    /\ pq' = {}
    /\ bySender' = [s \in Senders |-> <<>>]
    /\ txHashes' = {}
    /\ Drop(th, {"transactions", "priority_queue", "by_sender", "tx_hashes"})
    /\ Goto(th, "idle")
    /\ UNCHANGED <<counter, arg, loc>>

-----------------------------------------------------------------------------

Init ==
    /\ M!Init
    /\ pc = [th \in Threads |-> "idle"]
    /\ arg = [th \in Threads |-> NoTx]
    /\ loc = [th \in Threads |-> NoLoc]
    /\ writer = [l \in LockNames |-> NoThread]
    /\ readers = [l \in LockNames |-> {}]

Next ==
    \E th \in Threads :
        \/ \E t \in Txs : CallAdd(th, t) \/ CallRemove(th, t)
        \/ CallBatch(th) \/ CallClear(th)
        \/ Validate(th) \/ DupCheck(th) \/ CapacityCheck(th)
        \/ NextInsertion(th) \/ Acquire(th) \/ Insert(th) \/ FullCheck(th)
        \/ CleanupSize(th) \/ CleanupLockQueue(th) \/ CleanupLoop(th)
        \/ RemoveDo(th)
        \/ BatchRun(th) \/ ClearDo(th)

Spec == Init /\ [][Next]_vars

-----------------------------------------------------------------------------

TypeOK ==
    /\ M!TypeOK
    /\ pc \in [Threads -> {"idle", "a_insert", "c_loop", "r_do", "g_run",
                           "x_do"}
                          \cup DOMAIN Need]
    /\ arg \in [Threads -> Txs \cup {NoTx}]
    /\ writer \in [LockNames -> Threads \cup {NoThread}]
    /\ readers \in [LockNames -> SUBSET Threads]

\* WaitsFor[a, b]: task a is blocked in RwLock::read/write on a guard that
\* task b holds.
WaitsFor == [p \in Threads \X Threads |-> Blocks(p[1], p[2])]

\* No set of tasks waits on each other in a ring (spec 4.4 says the indices
\* are guarded by RwLocks "for concurrent access"): the order in which
\* add_transaction, remove_transaction, cleanup_low_priority and
\* get_next_batch take transactions and priority_queue must never let each
\* of two tasks hold the guard the other waits for.
NoLockCycle ==
    LET blocked == {th \in Threads : \E o \in Threads : Blocks(th, o)}
    IN \/ Cardinality(blocked) < 2
       \/ \A th \in blocked : ~TransitiveClosure(WaitsFor, blocked)[th, th]

\* The pool holds no transaction twice and no sender above max_per_account
\* (spec 2: "Mempool contains no duplicate transaction hashes and no more
\* than max_per_sender entries per sender").  add_transaction makes both
\* checks, validate_transaction under by_sender.read and the duplicate
\* check under tx_hashes.read, and releases each guard before it takes
\* the write guards for the insertion.
PoolLimitsHeld ==
    \A s \in Senders : /\ M!IsInjective(bySender[s])
                      /\ Len(bySender[s]) <= MaxPerAccount

====
