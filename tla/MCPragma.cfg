CONSTANTS
  clean = clean  nochecked = nochecked  mistyped = mistyped
  omitting = omitting  moved = moved  garbling = garbling
  Texts <- MCTexts
  Suppressing = {nochecked}
  Mistyped = {mistyped}
  Projects <- MCProjects
  Recur = FALSE
  MaxEdits = 1
  Facts <- MCFacts
  Arguments <- MCArguments
  Machines <- MCMachines
  MaxFiles = 2
SPECIFICATION Spec
INVARIANTS
  PragmaTypeOK AnswersTheText SoundProject SessionGivenBack
  OnePlatform ZeroMeansAll BuiltIsAccepted CompilerErrorsAlone
PROPERTY Ends
CHECK_DEADLOCK FALSE
