CONSTANTS
  Run = {r1, r2}
  Name = {n1, n2}
  Branch = {b1, b2}
  Detector = {d1}
  MaxTasks = 2
  MaxFaults = 0
SYMMETRY Symmetry
SPECIFICATION OrderedSpec
PROPERTY CompletedWorkMergedBack
CHECK_DEADLOCK FALSE
