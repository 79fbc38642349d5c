CONSTANTS
    Names = {a, b, c}
    NoName = none
    Shadowing = FALSE
    Reassign = TRUE
    MaxScopes = 1
    MaxRules = 0
    MaxUses = 2
SPECIFICATION Spec
SYMMETRY Symmetry
INVARIANTS OrderBlind
CHECK_DEADLOCK FALSE
