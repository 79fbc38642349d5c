CONSTANTS
    Names = {a}
    NoName = none
    Fragments <- SecondReturn
    MaxRules = 0
    MaxTurns = 2
SPECIFICATION Spec
INVARIANTS ConsumedOnEveryPath
CHECK_DEADLOCK FALSE
