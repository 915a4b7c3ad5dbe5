SPECIFICATION FairSpec
CONSTANTS
  m1 = m1
  m2 = m2
  m3 = m3
  Msgs = {m1, m2, m3}
  Guests = {}
  External = FALSE
  MaxTurns = 7
  MaxBatch = 1
  MaxToolTurns = 1
  MaxRequests = 5
  MaxStops = 0
  MaxCrashes = 1
  MaxRevokes = 0
  StepFaults = FALSE
INVARIANTS OneRunningTurn
PROPERTIES EveryMessageSettles
CHECK_DEADLOCK FALSE
