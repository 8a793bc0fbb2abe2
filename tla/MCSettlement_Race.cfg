SPECIFICATION Spec
CONSTANTS
  s1 = s1
  m1 = m1
  k1 = k1
  k2 = k2
  r1 = r1
  c1 = c1
  c2 = c2
  d1 = d1
  Students <- MCStudents
  Merchants <- MCMerchants
  Keys <- MCKeys
  KeyOwner <- MCKeyOwner
  Registered <- MCRegistered
  Requests <- MCNone
  KeyCalls <- MCNone
  Calls <- MCTwoCalls
  InitialBalance <- MCRichStudent
  Envelopes <- MCCollision
  Topups <- MCNone
  MaxRetries = 1
  MaxBalance = 4
  ClaimWindow = 1
  Skew = 0
  PhoneDrift = 0
  Outages = TRUE
  RotationWindow = 1
  RecoveryWindow = 2
  MaxTime = 2
SYMMETRY MCSymmetry
INVARIANTS
  SettledOnce
  ReconciledMeansSettled
CHECK_DEADLOCK FALSE
