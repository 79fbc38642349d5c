CONSTANTS
  Least <- MinusOne
  Most = 4
  Signatures <- Refined
  Fragments <- Replacing
  Reports <- Verdicts
  Worlds <- Outcomes
SPECIFICATION Spec
INVARIANTS Safe
CHECK_DEADLOCK FALSE
