SPECIFICATION Spec
CONSTANTS
  Commands <- Forms
  Later <- MCLater
  Sizes <- MCSizes
  MaxCmdSize = 10
  MaxAuths = 2
  NewStructures = FALSE
  Faults = TRUE
  MaxPrepares = 2
INVARIANT InsertedParamSent
CHECK_DEADLOCK FALSE
