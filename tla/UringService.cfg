SPECIFICATION Spec
CONSTANTS
  Shards = {s1}
  Conns = {c1, c2}
  NoConn = NoConn
  MsgUnits = 2
  MaxMsgs = 2
  Eager = {c2}
  Polite = {c1}
  SqEntries = 5
  MaxFds = 2
  SubmitErrors = TRUE
CHECK_DEADLOCK FALSE
INVARIANTS OneRequest EchoOk ExitCause
PROPERTIES ReplyStable ServiceSpec
