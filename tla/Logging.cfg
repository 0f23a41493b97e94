SPECIFICATION Spec
CONSTANTS
  Thread = {main, game}
  Owner = main
  Level <- MCLevel
  None = 2
  MaxRecords = 3
  MaxFlushes = 3
INVARIANTS
  InOrder
  FlushWrites
PROPERTIES
  FlushReturns
CHECK_DEADLOCK FALSE
