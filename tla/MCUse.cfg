SPECIFICATION Spec
CONSTANTS
  alpha = alpha
  beta = beta
  Names = {alpha, beta}
  NoName = NoName
  Sigs <- MCSigs
  Payload <- MCPayload
  KeyOrder <- MCOrder
  Pool <- MCPool
  Rounds = 2
  Checked <- Verdict
  Performed <- Outcomes
INVARIANTS UseTypeOK NothingUsedTwice NothingForgotten NothingAliased NothingCaptured TableIsTrue
CHECK_DEADLOCK FALSE
