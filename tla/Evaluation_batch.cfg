CONSTANTS
  Cases = {c1, c2}
  Workers = {w1, w2}
  Users = {u1}
  Suite = suite
  None = none
  SkipCases = {c1}
  FaultyCases = {c1}
  Requests = {"cancel", "approve"}
  MaxTurns = 1
  MaxBusy = 2
  MaxDisturbances = 1
SPECIFICATION FairSpec
INVARIANTS
  TypeOK
  CompletionIsEarned
  PassIsProven
  SnapshotsAgree
  TurnsBounded
PROPERTIES
  ResultsAreFinal
  RunsSettle
CHECK_DEADLOCK FALSE
