CONSTANTS
  Tasks = {t1}
  Workers = {w1}
  Users = {u1}
  Boot = boot
  None = none
  EvalTasks = {}
  ExplainTasks = {}
  WorkStatus = {"GENERATING_PATCH"}
  QueueCap = 1
  FaultyTasks = {}
  MaxSteps = 3
  MaxFeedbackTurns = 1
  MaxRequests = 3
  MaxCrashes = 0
SPECIFICATION Spec
SYMMETRY Symmetry
PROPERTIES
  RejectionFails
