SPECIFICATION Spec
CONSTANTS
  m1 = m1
  m2 = m2
  Msgs = {m1, m2}
  Guests = {}
  External = FALSE
  MaxTurns = 5
  MaxBatch = 2
  MaxToolTurns = 2
  MaxRequests = 2
  MaxStops = 0
  MaxCrashes = 1
  MaxRevokes = 0
  StepFaults = TRUE
INVARIANTS HistorySound ToolAtMostOnce
SYMMETRY Symmetry
CHECK_DEADLOCK FALSE
