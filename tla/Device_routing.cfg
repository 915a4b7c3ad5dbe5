SPECIFICATION Spec
CONSTANTS
  Sock = {s1, s2}
  Call = {c1, c2}
  Patch = {p1}
  Revocation = {v1}
  NoSock = NoSock
  MaxPending = 1
  MaxTombs = 1
  MaxOps = 4
  Races = {}
INVARIANTS CallsAccounted RevokedStaysOut FencesAndHandlesOwned
PROPERTIES NoStaleIssue
SYMMETRY Symmetry
CHECK_DEADLOCK FALSE
