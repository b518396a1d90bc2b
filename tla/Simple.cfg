SPECIFICATION SimpleFairSpec
CONSTANTS
  Conns = {c1, c2}
  MsgUnits = 2
  MaxMsgs = 2
  Eager = {c2}
  Polite = {c1}
  MaxFds = 2
  Capacity = 3
CHECK_DEADLOCK FALSE
INVARIANT ReplyInv
PROPERTIES ServiceSpec Announced SimpleAnswered
