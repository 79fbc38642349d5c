CONSTANTS
  Least <- MinusOne
  Most = 4
  Signatures <- Refined
  Fragments <- Plainly
  Reports <- Verdicts
  Worlds <- Outcomes
SPECIFICATION Spec
INVARIANTS RtTypeOK Safe FactsHold
CHECK_DEADLOCK FALSE
