SPECIFICATION TreasurySpec
CONSTANTS
  s1 = s1
  m1 = m1
  op = op
  c1 = c1
  c2 = c2
  f1 = f1
  f2 = f2
  q1 = q1
  q2 = q2
  Students <- MCStudents
  Merchants <- MCMerchants
  Operating = op
  MaxBalance = 2
  OldFunds <- MCOldFunds
  Topups <- MCTopups
  Reports <- MCReports
  Finalizers <- MCFinalizers
  Cashouts <- MCCashouts
  Requesters <- MCRequesters
  Modes <- MCModes
  MinGross = 1
  MinTransfer = 1
  Payments <- MCPayments
SYMMETRY MCSymmetry
INVARIANTS
  TreasuryTypeOK
  BooksBalance
  CreditedWasPaid
  RefundedOnce
  BalanceCapped
PROPERTY
  CashoutFinal
CHECK_DEADLOCK FALSE
