SPECIFICATION Spec
CONSTANTS
    Id = {x1, x2, x3}
    Campaign = {c1, c2, c3}
    MaxItems = 3
    SafeDepth = 2
INVARIANTS
    VerdictIsRight
SYMMETRY Renamings
CHECK_DEADLOCK FALSE
