CONSTANTS
  Tasks = {t1, t2}
  Workers = {w1, w2}
  Users = {u1, u2}
  Boot = boot
  None = none
  EvalTasks = {}
  ExplainTasks = {t1, t2}
  WorkStatus = {"GENERATING_PATCH"}
  QueueCap = 1
  FaultyTasks = {t1, t2}
  MaxSteps = 2
  MaxFeedbackTurns = 1
  MaxRequests = 3
  MaxCrashes = 0
SPECIFICATION Spec
SYMMETRY Symmetry
INVARIANTS
  TypeOK
  QueueDedup
  CreatedIsPending
  ActiveIsExecuted
  CancelMapOwned
  OpenRunOwned
PROPERTIES
  QueuedCancelHolds
