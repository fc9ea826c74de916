SPECIFICATION Spec
CONSTANTS
  t1 = t1
  t2 = t2
  n1 = n1
  n2 = n2
  Orders = {o1}
  Couriers = {c1}
  Nodes = {n1}
  Tasks = {t1, t2}
  Home <- OneNode
  NoOrder = NoOrder
  NoCourier = NoCourier
  NoNode = NoNode
  Suppliers = 1
  FetchLimit = 2
  Rejecters = {c1}
  MaxCrashes = 0
  OrdersExpire = FALSE
  SlowNodes = {}
  TxMayFail = FALSE
PROPERTY NoCourierForCanceled
CHECK_DEADLOCK FALSE
