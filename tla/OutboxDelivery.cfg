SPECIFICATION OutboxLiveSpec
CONSTANTS
  Nobody = Nobody
  Approval = {p1, p2}
  Worker = {w1, w2}
  MaxAttempts = 2
  MayCrash = TRUE
INVARIANTS
  OutboxTypeOK
  DeliveriesBounded
  CompletedIsAccounted
  LeaseExclusive
PROPERTIES
  SettledIsFinal
  RetriesGoOn
CHECK_DEADLOCK FALSE
