SPECIFICATION GoSpec
CONSTANTS
  Conns = {c1, c2}
  MsgUnits = 2
  MaxMsgs = 2
  Eager = {c2}
  Polite = {}
  Whole = {c1}
  MaxFds = 2
  Capacity = 4
CHECK_DEADLOCK FALSE
INVARIANTS GoEchoInv LoyalToWhole
