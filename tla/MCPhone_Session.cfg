SPECIFICATION PhoneSpec
CONSTANTS
  a = a
  b = b
  None = None
  Pins <- MCPins
  MaxKeys = 2
  LockEvery = 1
  WipeAt = 1
  MaxKills = 0
  MaxRequests = 1
  TransferOffered = FALSE
  Polls = TRUE
  MayVanish = TRUE
SYMMETRY MCPinSymmetry
INVARIANTS
  PhoneTypeOK
  HeldIsStored
CHECK_DEADLOCK FALSE
