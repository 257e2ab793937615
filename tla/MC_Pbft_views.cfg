\* Four honest validators and views 0..1 with no block proposed: the
\* view-change votes and NewView messages alone.
CONSTANTS
    v1 = v1
    v2 = v2
    v3 = v3
    v4 = v4
    ValidatorOrder <- MCValidatorOrder
    Byzantine = {}
    Blocks = {b1}
    ByzantineTypes = {}
    MaxView = 1
    MaxSeq <- NoSeqBound
SYMMETRY ViewOneSymmetry
SPECIFICATION Spec
INVARIANTS
    ViewAdvanceJustified
