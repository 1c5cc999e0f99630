SPECIFICATION Spec
CONSTANTS
  a1 = a1
  lookup = lookup
  post = post
  mail = mail
  NoApproval = NoApproval
  h1 = h1
  h2 = h2
  t1 = t1
  p1 = p1
  Agent = {a1}
  Tool <- ToolNames
  Handler = {h1, h2}
  Admin = {}
  Token = {t1}
  Approval = {p1}
  Call = {lookup, post}
  TokenOwner <- Owners
  Threshold = 1
  Serialized = TRUE
  MayFail = TRUE
  MaxContainments = 1
  MaxViolations = 1
  CallAgent <- Agents
  CallTool <- Tools
  CallTrace <- Traces
  CallRequest <- Requests
  SensitiveRead <- Reads
  Egress <- Egresses
  Bytes <- Sizes
  SingleLimit <- Singles
  HourlyLimit <- Hourlies
  ModesUsed = {"enforce", "observe"}
SYMMETRY ThreadSymmetry
INVARIANTS
  SensitiveReadThenEgress
VIEW SequenceView
CHECK_DEADLOCK FALSE
