SPECIFICATION FairSpec
CONSTANTS
  Shards = {s1}
  Conns = {c1, c2}
  NoConn = NoConn
  MsgUnits = 1
  MaxMsgs = 2
  Eager = {}
  Polite = {c1}
  SqEntries = 5
  MaxFds = 3
  SubmitErrors = FALSE
CHECK_DEADLOCK FALSE
INVARIANTS OneAccept IInv
PROPERTIES Announced Answered
