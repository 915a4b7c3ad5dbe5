SPECIFICATION Spec
CONSTANTS
  m1 = m1
  m2 = m2
  Msgs = {m1, m2}
  Guests = {}
  External = FALSE
  MaxTurns = 5
  MaxBatch = 1
  MaxToolTurns = 1
  MaxRequests = 5
  MaxStops = 1
  MaxCrashes = 1
  MaxRevokes = 0
  StepFaults = FALSE
INVARIANTS StopFlagNeedsTurn
SYMMETRY Symmetry
CHECK_DEADLOCK FALSE
