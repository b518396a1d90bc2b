SPECIFICATION FairSpec
CONSTANTS
  Threads = {t1, t2, t3}
  MaxOps = 2
CHECK_DEADLOCK FALSE
INVARIANT TokenInv
PROPERTIES RoundSpec Finishes
