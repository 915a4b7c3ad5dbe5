SPECIFICATION Spec
CONSTANTS
  m1 = m1
  Msgs = {m1}
  Guests = {}
  External = FALSE
  MaxTurns = 3
  MaxBatch = 1
  MaxToolTurns = 1
  MaxRequests = 5
  MaxStops = 1
  MaxCrashes = 0
  MaxRevokes = 0
  StepFaults = FALSE
INVARIANTS CancelledIsPaired
SYMMETRY Symmetry
CHECK_DEADLOCK FALSE
