SPECIFICATION Spec
CONSTANTS
  m1 = m1
  m2 = m2
  m3 = m3
  Msgs = {m1, m2, m3}
  Guests = {m3}
  External = TRUE
  MaxTurns = 6
  MaxBatch = 1
  MaxToolTurns = 1
  MaxRequests = 5
  MaxStops = 0
  MaxCrashes = 1
  MaxRevokes = 1
  StepFaults = FALSE
INVARIANTS GuestIsolation
PROPERTIES ReservedInputsAuthorized
SYMMETRY Symmetry
CHECK_DEADLOCK FALSE
