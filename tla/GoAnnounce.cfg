SPECIFICATION GoSpec
CONSTANTS
  Conns = {c1}
  MsgUnits = 2
  MaxMsgs = 1
  Eager = {}
  Polite = {}
  Whole = {}
  MaxFds = 1
  Capacity = 4
CHECK_DEADLOCK FALSE
INVARIANT EchoOk
