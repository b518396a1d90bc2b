SPECIFICATION FairSpec
CONSTANTS
  Hosts = {h1, h2}
  Leftovers = {h1}
  MaxOps = 1
CHECK_DEADLOCK FALSE
INVARIANTS SpotInv TotalComplete
PROPERTIES RoundSpec Finishes
