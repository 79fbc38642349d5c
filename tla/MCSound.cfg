CONSTANTS
    Names = {a, b}
    NoName = none
    Fragments <- Sound
    MaxRules = 0
    MaxTurns = 2
SPECIFICATION Spec
SYMMETRY Symmetry
INVARIANTS ConsumedOnEveryPath NoUseAfterMove BorrowsAreSafe ScopesCoverTable
CHECK_DEADLOCK FALSE
