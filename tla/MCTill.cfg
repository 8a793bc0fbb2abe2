SPECIFICATION Spec
CONSTANTS
  s1 = s1
  m1 = m1
  r1 = r1
  r2 = r2
  f1 = f1
  Student = s1
  Merchant = m1
  Users <- MCUsers
  Payments <- MCOnePhone
  Credits <- MCCredits
  Cashouts <- MCNone
  InitialBalance <- MCBalance
  MaxBalance = 4
  MaxPhones = 1
  Amounts <- MCAmounts
  Refreshes <- MCTwoRefreshes
  Batch = 2
  Screens <- MCTwoScreens
  Fetches <- MCNone
SYMMETRY MCSymmetry
INVARIANTS
  TillTypeOK
PROPERTIES
  StatusTrue
  SignedIsCovered
CHECK_DEADLOCK FALSE
