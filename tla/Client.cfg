SPECIFICATION ClientSpec
CONSTANTS
  Rts = {1, 2, 3, 4}
  SinkOf <- MCSink
  ToolQueueMax = 1
  ConnBudgets <- MCConn
  ExecIds = {1, 2}
  ExecBudgets <- MCExec
INVARIANTS Agreement RuntimesOwned NoneEscapes
PROPERTIES ReplacedInTurn ClientSettles
CHECK_DEADLOCK FALSE
