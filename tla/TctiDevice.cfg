\* Commands to the device, with timeouts, unusable responses and a device that goes away.
SPECIFICATION Spec
CONSTANTS
  MaxCommands = 8
  HangUps = TRUE
  ReadErrors = FALSE
INVARIANTS DriverAgrees
PROPERTIES EveryCommandEnds IsTcti
