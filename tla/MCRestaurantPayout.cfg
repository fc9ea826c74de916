SPECIFICATION FairSpec
CONSTANTS
  Nodes = {n1, n2}
  Timed = {n1}
  Seconds = 4
  Each = 2
  Parts = {p1}
  Price = 1
  StartBalance = 1
  Short = {2}
  MinAmount = 1
  MaxFaults = 1
  MaxDays = 1
  NoPart = NoPart
  NoTask = NoTask
INVARIANTS
  PayoutTypeOK
  BalanceIsExplained
  SentOnlyOnce
PROPERTY PaidOut
CHECK_DEADLOCK FALSE
