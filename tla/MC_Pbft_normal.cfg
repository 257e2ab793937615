\* Four honest validators, one view, one sequence: the normal case, in
\* which v1 proposes and every validator handles the messages in any order.
CONSTANTS
    v1 = v1
    v2 = v2
    v3 = v3
    v4 = v4
    ValidatorOrder <- MCValidatorOrder
    Byzantine = {}
    Blocks = {b1, b2}
    ByzantineTypes = {}
    MaxView = 0
    MaxSeq = 0
SYMMETRY BackupSymmetry
SPECIFICATION Spec
INVARIANTS
    TypeOK
    PreparedHasQuorum
