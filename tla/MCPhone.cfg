SPECIFICATION PhoneFairSpec
CONSTANTS
  a = a
  b = b
  None = None
  Pins <- MCPins
  MaxKeys = 1
  LockEvery = 1
  WipeAt = 2
  MaxKills = 1
  MaxRequests = 0
  TransferOffered = TRUE
  Polls = FALSE
  MayVanish = TRUE
PROPERTIES
  KeyNeverLost
  StartEnds
CHECK_DEADLOCK FALSE
