SPECIFICATION Spec
CONSTANTS
  Commands <- Forms
  Later <- MCLater
  Sizes <- MCSizes
  MaxCmdSize = 10
  MaxAuths = 2
  NewStructures = TRUE
  Faults = TRUE
  MaxPrepares = 2
INVARIANT ResponseRead
CHECK_DEADLOCK FALSE
