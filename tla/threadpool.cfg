SPECIFICATION FairSpec
CONSTANTS
  Workers = {w1, w2}
  Conns = {c1, c2}
  Null = Null
  MaxRequest = 2
  MaxTasks = 4
INVARIANTS
  TypeOK
  NeverEmptyHanded
  ConnectionForEach
PROPERTIES
  ImplementsTaskQueue
  AcceptedIsProcessed
CHECK_DEADLOCK FALSE
