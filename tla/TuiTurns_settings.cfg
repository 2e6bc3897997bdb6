CONSTANTS
  Turn = {t1, t2}
  Model = {m1, m2}
  BusCapacity = 2
  MaxPicks = 1
SPECIFICATION TuiSpec
INVARIANT ChosenModelPersists
CHECK_DEADLOCK FALSE
