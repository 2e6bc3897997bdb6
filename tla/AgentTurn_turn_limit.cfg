CONSTANTS
  MaxTurns = 3
  KeepRecent = 4
  MaxRetries = 1
  MaxTools = 1
  MaxInputs = 2
  MaxFaults = 0
SPECIFICATION Spec
INVARIANT LimitIsPerInput
CHECK_DEADLOCK FALSE
