\* Two validators over a totally ordered broadcast, two transactions, and
\* two crashes and restarts, so that both validators can restart.
CONSTANTS
    v1 = v1
    v2 = v2
    v3 = v3
    v4 = v4
    t1 = t1
    t2 = t2
    ValidatorOrder <- MCValidatorPair
    Txs = {t1, t2}
    Routing = "network"
    Delivery = "ordered"
    GenesisStored = TRUE
    MaxCrashes = 2
SYMMETRY FollowerSymmetry
SPECIFICATION Spec
PROPERTIES
    ChainRefinement
CHECK_DEADLOCK FALSE
