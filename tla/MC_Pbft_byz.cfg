\* Byzantine primary of view 0 (v1) equivocating, one view, one sequence.
CONSTANTS
    v1 = v1
    v2 = v2
    v3 = v3
    v4 = v4
    ValidatorOrder <- MCValidatorOrder
    Byzantine = {v1}
    Blocks = {b1, b2}
    ByzantineTypes = {"Propose", "Commit"}
    MaxView = 0
    MaxSeq = 0
SYMMETRY BackupSymmetry
SPECIFICATION Spec
INVARIANTS
    CommitAgreementSameView
    CommitBackedByPrepared
