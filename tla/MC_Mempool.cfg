\* Four transactions, max_size 3 (cleanup target 2), two per account,
\* batches of at most 2 transactions and 3 bytes, five admissions.
CONSTANTS
    t1 = t1
    t2 = t2
    t3 = t3
    t4 = t4
    s1 = s1
    s2 = s2
    Txs = {t1, t2, t3, t4}
    Senders = {s1, s2}
    Sender <- MCSender
    Fee <- MCFee
    TxSize <- MCTxSize
    MaxSize = 3
    MaxPerAccount = 2
    MinFee = 1
    MaxCount = 2
    MaxBytes = 3
    MaxInsertions = 5
SPECIFICATION Spec
INVARIANTS
    IndexesAgree
    BatchWellFormed
PROPERTIES
    PoolRefinement
