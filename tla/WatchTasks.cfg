SPECIFICATION WatchSpec
CONSTANTS
  a1 = a1
  a2 = a2
  o1 = o1
  o2 = o2
  f = f
  g = g
  r = r
  t1 = t1
  None = None
  Agent = {a1, a2}
  Task = {t1}
  Observer = {o1, o2}
  Fp = {f, g}
  Err = {r}
  Decisions <- GatewayCalls
  Outcomes <- Executed
  Reports <- Told
  Default <- Loose
  Asked <- Tight
  ListLimit = 4
  Window = 2
  Delay = 1
  MaxTime = 4
  MaxEvents = 3
  MaxUpsets = 1
VIEW WatchView
SYMMETRY WatchSymmetry
INVARIANTS
  WatchTypeOK
  EventsBelongToOwner
  BreachIsReported
  AlarmsAreJustified
  FindingOnRecord
CHECK_DEADLOCK FALSE
