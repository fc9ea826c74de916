SPECIFICATION FairSpec
CONSTANTS
  t1 = t1
  t2 = t2
  n1 = n1
  n2 = n2
  Suppliers = {s1, s2}
  Nodes = {n1, n2}
  Tasks = {t1, t2}
  Home <- TwoNodes
  NoNode = NoNode
  NoSupplier = NoSupplier
  MaxCrashes = 0
  MaxReapers = 2
  SlowNodes = {}
  HandlersMayCrash = FALSE
INVARIANTS
  TypeOK
  LockIsExclusive
  LastAcceptConfirms
PROPERTIES
  OrderResolved
  ImplementsFairAgreement
CHECK_DEADLOCK FALSE
