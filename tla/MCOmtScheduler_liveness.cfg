CONSTANTS
  a = a
  b = b
  c = c
  NoTask = NoTask
  Detector = {d}
  Task <- TwoTasks
  MaxConcurrent = 2
  MaxAttempts = 3
  TokenBudget = 2
  TokenUse = {0, 1}
  MaxRestarts = 1
SPECIFICATION LiveSpec
INVARIANTS
  AttemptsBounded
  LaunchesAccounted
PROPERTIES
  RunEnds
  SignalHonoured
CHECK_DEADLOCK FALSE
