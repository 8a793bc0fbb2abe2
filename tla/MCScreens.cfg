SPECIFICATION ScreensSpec
CONSTANTS
  s1 = s1
  m1 = m1
  op = op
  c1 = c1
  c2 = c2
  q1 = q1
  q2 = q2
  f1 = f1
  f2 = f2
  a1 = a1
  a2 = a2
  p1 = p1
  b1 = b1
  b2 = b2
  n1 = n1
  n2 = n2
  nb1 = nb1
  nb2 = nb2
  h1 = h1
  h2 = h2
  PageSize = 2
  MaxEntries = 5
  OwnPayments = {3, 4, 6}
  MaxLoads = 2
  Admins <- MCAdmins
  Profiles = {p1}
  Banks = {b1, b2}
  Numbers = {n1, n2}
  BankNames = {nb1, nb2}
  People = {h1, h2}
  Blank = "blank"
  ListName <- MCBankName
  GatewayName <- MCBankName
  Holder <- MCHolder
  FirstRows <- MCFirstRows
  MaxForms = 2
  MaxChanges = 2
  Students = {s1}
  Merchants = {m1}
  Operating = op
  MaxBalance = 2
  OldFunds <- MCOldFunds
  Cashouts = {c1, c2}
  Requesters = {q1}
  Modes = {"manual"}
  MinGross = 1
  MinTransfer = 1
  Operators <- MCAdmins
  Sales = 1
  Topups <- MCTopups
  Reports <- MCReports
  Finalizers = {f1, f2}
  Messages <- MCMessages
  Grosses = {80}
SYMMETRY MCSymmetry
INVARIANTS
  ScreensTypeOK
  HistoryWhole
  NoticeTrue
  OfferIsFresh
  SuccessIsCredited
  FeesBacked
PROPERTY
  PayoutAsShown
CHECK_DEADLOCK FALSE
