SPECIFICATION Spec
CONSTANTS
  t1 = t1
  t2 = t2
  n1 = n1
  n2 = n2
  Orders = {o1, o2}
  Couriers = {c1}
  Nodes = {n1}
  Tasks = {t1, t2}
  Home <- OneNode
  NoOrder = NoOrder
  NoCourier = NoCourier
  NoNode = NoNode
  Suppliers = 2
  FetchLimit = 2
  Rejecters = {c1}
  MaxCrashes = 0
  OrdersExpire = TRUE
  SlowNodes = {}
  TxMayFail = TRUE
SYMMETRY FullSymmetry
INVARIANTS
  TypeOK
  StrandedOnlyIfOverbooked
  AskedHasWaiter
  SharedOnlyAfterReturn
CHECK_DEADLOCK FALSE
