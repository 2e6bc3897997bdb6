CONSTANTS
  a = a
  b = b
  c = c
  NoTask = NoTask
  Detector = {d}
  Task <- ThreeTasks
  MaxConcurrent = 2
  MaxAttempts = 2
  TokenBudget = 2
  TokenUse = {1}
  MaxRestarts = 1
SYMMETRY Symmetry3
SPECIFICATION Spec
INVARIANTS
  TypeOK
  DiskCoherent
  DiskTracksMemory
  AliveMeansLocked
  ConcurrencyLimit
  FinishedMeansComplete
PROPERTIES
  VerdictsStand
  ImplementsDurableRun
CHECK_DEADLOCK FALSE
