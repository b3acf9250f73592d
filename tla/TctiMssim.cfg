\* Three commands with size queries, cancellation, lost connections and a second context.
SPECIFICATION Spec
CONSTANTS
  Localities = {0, 3}
  FirstLocality = 3
  MaxCommands = 3
  Faults = TRUE
INVARIANTS Framed ShiftedByCancels
PROPERTIES CancelUndone EveryCommandEnds IsTcti
