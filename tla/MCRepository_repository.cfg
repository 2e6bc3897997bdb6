CONSTANTS
  Run = {r1, r2}
  Name = {n1, n2}
  Branch = {b1, b2}
  Detector = {d1}
  MaxTasks = 2
  MaxFaults = 2
SYMMETRY Symmetry
SPECIFICATION BoundedSpec
INVARIANTS
  TypeOK
  MainHoldsCompletedWork
  FinishedLeavesNoWorktree
  CrashLeavesTrace
PROPERTIES
  CommitsKeptUntilTheEnd
CHECK_DEADLOCK FALSE
