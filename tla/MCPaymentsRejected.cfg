SPECIFICATION Spec
CONSTANTS
  Handlers = {h1, h2}
  Orders = {o1, o2}
  Split = {o2}
  OnSite = {o2}
  Intents = {i1, i2}
  MaxRequests = 4
  MaxFaults = 1
  None = None
SYMMETRY Symmetry
INVARIANTS
  RejectedIsPaidBack
CHECK_DEADLOCK FALSE
