SPECIFICATION ServicesSpec
CONSTANTS
  Conv = {"a", "b"}
  UserOf <- MCUser
  MaxStarting = 1
  Entries = {1, 2, 3}
  Invs = {1, 2}
  Iterations = 2
  Dispatches = 2
  Budgets <- MCBudgets
  Horizon = 9
  Zones <- MCZones
  Exprs <- MCExprs
  JobSchedules <- MCSchedules
  LastTick = 4
  Grace = 1
  StepTries = 2
  CronBudgets <- MCCron
  Texts = {1, 2, 3}
  LengthOf <- MCLength
  ChunkChars = 2
  SourceChars = 3
  SourceMessages = 2
  RunIds = {1, 2, 3}
  DreamBudgets <- MCDream
  LineKinds = {"active", "other", "sub", "tick", "ticks", "tilde", "open", "done", "text"}
  MaxLines = 5
  Pulses = {1, 2}
  PulseTries = 2
  PulseBudgets <- MCPulse
INVARIANTS CapacityKept ReadersExact AutomationsHonest
PROPERTIES ServedByCurrent AcceptedDue ServicesSettle
CHECK_DEADLOCK FALSE
