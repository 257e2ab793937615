\* Two validators over a totally ordered broadcast (so that no vote
\* overtakes another), two transactions, fair scheduling of both tasks.
CONSTANTS
    v1 = v1
    v2 = v2
    v3 = v3
    v4 = v4
    t1 = t1
    t2 = t2
    ValidatorOrder <- MCValidatorPair
    Txs = {t1, t2}
    Routing = "network"
    Delivery = "ordered"
    GenesisStored = TRUE
    MaxCrashes = 0
SPECIFICATION Spec
PROPERTIES
    Progress
CHECK_DEADLOCK FALSE
