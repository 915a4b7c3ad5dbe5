SPECIFICATION FairSpec
CONSTANTS
  Sock = {s1, s2}
  Call = {c1}
  Patch = {p1}
  Revocation = {v1}
  NoSock = NoSock
  MaxPending = 1
  MaxTombs = 1
  MaxOps = 3
  Races = {"late_timeout", "epoch_expiry"}
PROPERTIES RequestsEnd
CHECK_DEADLOCK FALSE
