SPECIFICATION Spec
CONSTANTS
  t1 = t1
  t2 = t2
  n1 = n1
  n2 = n2
  Suppliers = {s1, s2}
  Nodes = {n1, n2}
  Tasks = {t1, t2}
  Home <- TwoNodes
  NoNode = NoNode
  NoSupplier = NoSupplier
  MaxCrashes = 1
  MaxReapers = 1
  SlowNodes = {n1}
  HandlersMayCrash = TRUE
SYMMETRY SupplierSymmetry
INVARIANTS
  ConfirmedByAll
  CanceledHasCause
PROPERTIES
  CanceledStays
  ImplementsAgreement
CHECK_DEADLOCK FALSE
