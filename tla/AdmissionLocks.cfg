SPECIFICATION AdmissionSpec
CONSTANTS
  p1 = p1
  p2 = p2
  c1 = c1
  c2 = c2
  a1 = a1
  a2 = a2
  None = None
  Agent = {a1, a2}
  Process = {p1, p2}
  Thread = {c1, c2}
  Limit = 1
  Window = 2
  MaxDelay = 1
  Placements <- Placed
  MaxTime = 4
  MaxRows = 2
INVARIANTS
  AdmissionTypeOK
  RateBound
  ChainVerifies
PROPERTIES
  KeepsLedger
  MutexComesBack
CHECK_DEADLOCK FALSE
