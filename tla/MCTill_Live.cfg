SPECIFICATION FairSpec
CONSTANTS
  s1 = s1
  m1 = m1
  r1 = r1
  r2 = r2
  f1 = f1
  Student = s1
  Merchant = m1
  Users <- MCUsers
  Payments <- MCTwoPhones
  Credits <- MCNone
  Cashouts <- MCCashouts
  InitialBalance <- MCBalance
  MaxBalance = 4
  MaxPhones = 2
  Amounts <- MCAmounts
  Refreshes <- MCOneRefresh
  Batch = 1
  Screens <- MCHome
  Fetches <- MCOneFetch
PROPERTIES
  AcceptedFits
  PhoneCatchesUp
  AcceptedIsAnswered
CHECK_DEADLOCK FALSE
