SPECIFICATION ContainmentLiveSpec
CONSTANTS
  a1 = a1
  search = search
  h1 = h1
  h2 = h2
  x1 = x1
  t1 = t1
  Agent = {a1}
  Tool = {search}
  Handler = {h1, h2}
  Admin = {x1}
  Token = {t1}
  TokenOwner <- Owners
  Threshold = 2
  Serialized = FALSE
  MayFail = FALSE
  MaxContainments = 1
  MaxViolations = 3
INVARIANTS
  ThresholdQuarantines
PROPERTIES
  BurstIsAnswered
