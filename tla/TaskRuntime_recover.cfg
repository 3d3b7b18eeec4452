CONSTANTS
  Tasks = {t1, t2}
  Workers = {w1}
  Users = {u1}
  Boot = boot
  None = none
  EvalTasks = {t1}
  ExplainTasks = {}
  WorkStatus = {"GENERATING_PATCH"}
  QueueCap = 1
  FaultyTasks = {t1}
  MaxSteps = 1
  MaxFeedbackTurns = 1
  MaxRequests = 2
  MaxCrashes = 2
SPECIFICATION FairSpec
INVARIANTS
  CreatedIsPending
  ActiveIsExecuted
  RecoveryIsolated
PROPERTIES
  TasksSettle
