SPECIFICATION FairSpec
CONSTANTS
  Goroutines = {g1, g2, g3}
  MaxOps = 2
CHECK_DEADLOCK FALSE
INVARIANT FlagInv
PROPERTIES RoundSpec Finishes
