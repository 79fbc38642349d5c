CONSTANTS
    Names = {a, b, c}
    NoName = none
    Shadowing = FALSE
    Reassign = FALSE
    MaxScopes = 2
    MaxRules = 0
    MaxUses = 2
SPECIFICATION Spec
SYMMETRY Symmetry
INVARIANTS TypeOK TableIsScopes Ledger LentWhileAliased WriterAlone NoDangling OwnersEnd OrderBlind
PROPERTY LendingDiscipline
CHECK_DEADLOCK FALSE
