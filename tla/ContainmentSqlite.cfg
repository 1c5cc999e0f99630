SPECIFICATION ContainmentSpec
CONSTANTS
  a1 = a1
  search = search
  h1 = h1
  h2 = h2
  x1 = x1
  t1 = t1
  t2 = t2
  Agent = {a1}
  Tool = {search}
  Handler = {h1, h2}
  Admin = {x1}
  Token = {t1, t2}
  TokenOwner <- Owners
  Threshold = 2
  Serialized = TRUE
  MayFail = TRUE
  MaxContainments = 2
  MaxViolations = 2
SYMMETRY ThreadSymmetry
INVARIANTS
  ContainmentTypeOK
  ThresholdQuarantines
  QuarantineHasIncident
  RevocationIsFinal
