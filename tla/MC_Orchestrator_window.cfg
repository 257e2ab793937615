\* Two validators over FIFO links, a genesis block in both stores, two
\* transactions and no crash: the primary's proposer loop may run in the
\* window between commit_block's state = Idle and current_round += 1.
CONSTANTS
    v1 = v1
    v2 = v2
    v3 = v3
    v4 = v4
    t1 = t1
    t2 = t2
    ValidatorOrder <- MCValidatorPair
    Txs = {t1, t2}
    Routing = "network"
    Delivery = "fifo"
    GenesisStored = TRUE
    MaxCrashes = 0
SYMMETRY FollowerSymmetry
SPECIFICATION Spec
PROPERTIES
    VotedBlocksValid
CHECK_DEADLOCK FALSE
