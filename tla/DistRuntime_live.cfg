CONSTANTS
  p1 = p1
  p2 = p2
  w1 = w1
  w2 = w2
  u1 = u1
  Tasks = {t1}
  Workers = {w1}
  Users = {u1}
  Procs = {p1, p2}
  Home <- MCHome
  None = none
  WorkStatus = {"GENERATING_PATCH"}
  MaxSteps = 1
  MaxRequests = 2
  MaxCrashes = 1
  MaxPolls = 0
  MaxDelays = 1
  MaxFailures = 1
SPECIFICATION FairSpec
PROPERTIES
  ResultsHold
  TasksSettle
