SPECIFICATION Spec
CONSTANTS
  s1 = s1
  m1 = m1
  k1 = k1
  k2 = k2
  r1 = r1
  c1 = c1
  c2 = c2
  d1 = d1
  Students <- MCStudents
  Merchants <- MCMerchants
  Keys <- MCKeys
  KeyOwner <- MCKeyOwner
  Registered <- MCRegistered
  Requests <- MCRequests
  KeyCalls <- MCKeyCalls
  Calls <- MCOneCall
  InitialBalance <- MCBalance
  Envelopes <- MCTwoNumbers
  Topups <- MCTopups
  MaxRetries = 2
  MaxBalance = 3
  ClaimWindow = 2
  Skew = 0
  PhoneDrift = 0
  Outages = FALSE
  RotationWindow = 1
  RecoveryWindow = 2
  MaxTime = 3
PROPERTIES
  IsPaymentLedger
INVARIANTS
  TypeOK
  HoldNeverOverdrawn
  HoldBacked
CHECK_DEADLOCK FALSE
