SPECIFICATION Spec
CONSTANTS
  t1 = t1
  t2 = t2
  t3 = t3
  Threads = {t1, t2}
  Cids = 2
  SqSize = 4
  CqSize = 4
  CounterSpan = 64
  Reads <- MCPassing
INVARIANTS OwnAnswer
PROPERTIES ImplementsService
CHECK_DEADLOCK FALSE
