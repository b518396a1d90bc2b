SPECIFICATION RingServersFairSpec
CONSTANTS
  Conns = {c1, c2}
  MsgUnits = 2
  MaxMsgs = 2
  Eager = {c2}
  Polite = {c1}
  MaxFds = 2
  Capacity = 3
  SubmitErrors = TRUE
  Interrupts = TRUE
CHECK_DEADLOCK FALSE
INVARIANTS UringIntact Uring2Intact Loyal
PROPERTIES UringAnswers Uring2Answers
