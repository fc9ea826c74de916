SPECIFICATION FairSpec
CONSTANTS
  Handlers = {h1, h2}
  Requests = {r1, r2}
  Orders = {o1}
  Price = 9
  Amounts = {9}
  Approvals = {3, 7, 8, 9}
  Dollar = 4
  Short = {9}
  Below <- MCBelow
  MaxFaults = 1
  MaxStale = 0
  None = None
INVARIANTS
  CourierTypeOK
  NothingLost
  CourierStaysSealed
  SettledOnce
  RoundedByHalfADollar
PROPERTIES
  HandlersEnd
CHECK_DEADLOCK FALSE
