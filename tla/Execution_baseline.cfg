SPECIFICATION Spec
CONSTANTS
  one = one
  two = two
  ignored = ignored
  Command = Command
  Edits <- ThreeEdits
  Rewrites <- OneIgnored
  Ignored <- OneIgnored
  Workflows <- AllWorkflows
  Clients <- AllClients
  MaxSteps = 4
  MaxAttempts = 2
  MaxCalls = 3
  MaxReads = 1
  MaxRepeats = 2
  MaxEmpty = 2
  MaxFinals = 2
  MaxRetries = 1
  MaxRound = 2
  MaxFaults = 0
INVARIANT AttemptsStartClean
CHECK_DEADLOCK FALSE
