SPECIFICATION FairSpec
CONSTANTS
  Replies = {1, 2, 3}
  Limits = {1, 2}
  Lag = 5
  TxTimeout = 2
  PollTimeout = 2
  Skew = 1
  LastReply = 3
  MaxNow = 8
INVARIANTS
  OnlyTiesAreLost
PROPERTIES
  DrainEnds
  EventuallyDelivered
