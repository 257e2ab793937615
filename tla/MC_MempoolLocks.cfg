\* The transactions of MC_Mempool, max_size 3 (cleanup target 2), and the
\* three tasks that share the pool.  Three admissions are enough for
\* add_transaction to reach cleanup_low_priority.
CONSTANTS
    t1 = t1
    t2 = t2
    t3 = t3
    t4 = t4
    s1 = s1
    s2 = s2
    client = client
    client2 = client2
    proposer = proposer
    committer = committer
    shutdown = shutdown
    NoThread = NoThread
    NoTx = NoTx
    Txs = {t1, t2, t3, t4}
    Senders = {s1, s2}
    Sender <- MCSender
    Fee <- MCFee
    TxSize <- MCTxSize
    Threads = {client, proposer, committer}
    Role <- MCRole
    MaxSize = 3
    MaxPerAccount = 2
    MinFee = 1
    MaxCount = 2
    MaxBytes = 3
    MaxInsertions = 3
SPECIFICATION Spec
INVARIANT NoLockCycle
CHECK_DEADLOCK FALSE
