CONSTANTS
  a = a
  b = b
  c = c
  NoTask = NoTask
  Detector = {d}
  Task <- TwoTasks
  MaxConcurrent = 2
  MaxAttempts = 3
  TokenBudget = 0
  TokenUse = {1}
  MaxRestarts = 1
SPECIFICATION Spec
INVARIANT AttemptsWithinMax
CHECK_DEADLOCK FALSE
