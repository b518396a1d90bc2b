SPECIFICATION FairSpec
CONSTANTS
  RingLen = 32
  DmaSize = 67108864
  ResetValues = {1, 2, 3}
  Posted = 16
CHECK_DEADLOCK FALSE
INVARIANTS DmaInv PollExact
PROPERTY Completes
