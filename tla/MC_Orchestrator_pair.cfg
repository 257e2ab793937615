\* Two validators (quorum: both) whose broadcasts reach each other over
\* FIFO links, a genesis block in both stores, two transactions, and up
\* to three crashes and restarts, so that both validators restart and one
\* of them twice, at any point, in particular between the writes of
\* store_block.  Both loops run forever; a state with nothing enabled is
\* one where they idle.
CONSTANTS
    v1 = v1
    v2 = v2
    v3 = v3
    v4 = v4
    t1 = t1
    t2 = t2
    ValidatorOrder <- MCValidatorPair
    Txs = {t1, t2}
    Routing = "network"
    Delivery = "fifo"
    GenesisStored = TRUE
    MaxCrashes = 3
SYMMETRY FollowerSymmetry
SPECIFICATION Spec
INVARIANTS
    TypeOK
    LatestBlockStored
    
    NoDoubleInclusion
CHECK_DEADLOCK FALSE
