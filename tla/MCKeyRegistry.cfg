SPECIFICATION RegistrySpec
CONSTANTS
  s1 = s1
  m1 = m1
  k1 = k1
  k2 = k2
  k3 = k3
  r1 = r1
  r2 = r2
  c1 = c1
  c2 = c2
  Students <- MCStudents
  Merchants <- MCMerchants
  Keys <- MCKeys
  KeyOwner <- MCKeyOwner
  Requests <- MCRequests
  KeyCalls <- MCKeyCalls
  Registered <- MCNobody
  InitialBalance <- MCBalance
  RotationWindow = 1
  RecoveryWindow = 2
  MaxTime = 3
SYMMETRY MCSymmetry
INVARIANTS
  OneActiveKey
  MirrorNamesActiveKey
  HoldFollowsApproval
PROPERTIES
  StolenKeyStopped
  KeyLifecycle
CHECK_DEADLOCK FALSE
