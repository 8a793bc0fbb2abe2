SPECIFICATION FairSpec
CONSTANTS
  s1 = s1
  m1 = m1
  k1 = k1
  k2 = k2
  r1 = r1
  c1 = c1
  c2 = c2
  d1 = d1
  Students <- MCStudents
  Merchants <- MCMerchants
  Keys <- MCKeys
  KeyOwner <- MCKeyOwner
  Registered <- MCRegistered
  Requests <- MCNone
  KeyCalls <- MCKeyCalls
  Calls <- MCOneCall
  InitialBalance <- MCRichStudent
  Envelopes <- MCLatePayment
  Topups <- MCNone
  MaxRetries = 1
  MaxBalance = 3
  ClaimWindow = 1
  Skew = 0
  PhoneDrift = 0
  Outages = TRUE
  RotationWindow = 1
  RecoveryWindow = 2
  MaxTime = 3
PROPERTIES
  PaymentsResolve
  ReleasedIsSafe
CHECK_DEADLOCK FALSE
