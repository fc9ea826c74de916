SPECIFICATION FairSpec
CONSTANTS
  t1 = t1
  t2 = t2
  n1 = n1
  n2 = n2
  Orders = {o1}
  Couriers = {c1, c2}
  Nodes = {n1, n2}
  Tasks = {t1, t2}
  Home <- TwoNodes
  NoOrder = NoOrder
  NoCourier = NoCourier
  NoNode = NoNode
  Suppliers = 1
  FetchLimit = 2
  Rejecters = {c1}
  MaxCrashes = 1
  OrdersExpire = FALSE
  SlowNodes = {}
  TxMayFail = FALSE
PROPERTIES
  AssignmentNeedsConsent
  DeadLockReleased
  EveryFreeCourierAsked
CHECK_DEADLOCK FALSE
