CONSTANTS
    Names = {a}
    NoName = none
    Fragments <- Exits
    MaxRules = 0
    MaxTurns = 2
SPECIFICATION FairSpec
INVARIANTS NoUseAfterMove Balanced CheckTypeOK
PROPERTY Walked
CHECK_DEADLOCK FALSE
