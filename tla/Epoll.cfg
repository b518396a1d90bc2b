SPECIFICATION FairSpec
CONSTANTS
  Shards = {s1, s2}
  Conns = {c1, c2}
  Listener = Listener
  MsgUnits = 2
  MaxMsgs = 2
  Eager = {c2}
  Polite = {c1, c2}
  Whole = {c1}
  FdLimits = {1, 2}
  Capacity = 3
  Interrupts = TRUE
CHECK_DEADLOCK FALSE
INVARIANTS EchoOk BatchInv NoSigpipe StaysWatched
PROPERTIES Announced Answered
