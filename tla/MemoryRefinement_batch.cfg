SPECIFICATION FairSpec
CONSTANTS
  s1 = s1
  f1 = f1
  f2 = f2
  x1 = x1
  x2 = x2
  None = None
  Recovery = Recovery
  Successes = {s1}
  Failures = {f1, f2}
  Similar <- AllSimilar
  Executions = {x1, x2}
  Produces <- TwoExecutions
  Workers = {w1}
  QueueCapacity = 1
  MaxAttempts = 2
  RecoverLimit = 2
  MaxFaults = 2
INVARIANTS TypeOK QueuedOnce DuplicatesAcyclic MarksHaveSource
PROPERTIES MarksAreKept MemoriesSettle
CHECK_DEADLOCK FALSE
