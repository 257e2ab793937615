\* Four validators, the primary of view 0 (v1) crashed, timers that fire
\* only while the view's primary is down, views up to 2 (so the bound is
\* not what stops the timers once view 1's live primary v2 is installed).
CONSTANTS
    v1 = v1
    v2 = v2
    v3 = v3
    v4 = v4
    ValidatorOrder <- MCValidatorOrder
    Faulty = {v1}
    MaxView = 2
SPECIFICATION Spec
INVARIANTS
    ViewEnteredWithQuorum
PROPERTIES
    NewViewAdopted
CHECK_DEADLOCK FALSE
