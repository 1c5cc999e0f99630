SPECIFICATION Spec
CONSTANTS
  a1 = a1
  lookup = lookup
  post = post
  mail = mail
  NoApproval = NoApproval
  h1 = h1
  h2 = h2
  t1 = t1
  p1 = p1
  Agent = {a1}
  Tool <- ToolNames
  Handler = {h1, h2}
  Admin = {}
  Token = {t1}
  Approval = {p1}
  Call = {post, mail}
  TokenOwner <- Owners
  Threshold = 1
  Serialized = TRUE
  MayFail = TRUE
  MaxContainments = 1
  MaxViolations = 1
  CallAgent <- Agents
  CallTool <- Tools
  CallTrace <- Traces
  CallRequest <- Requests
  SensitiveRead <- Reads
  Egress <- Egresses
  Bytes <- Sizes
  SingleLimit <- Singles
  HourlyLimit <- Hourlies
  ModesUsed = {"enforce"}
SYMMETRY ThreadSymmetry
INVARIANTS
  TypeOK
  AtMostOnce
  ApprovalSpentOnce
  EgressBudget
PROPERTIES
  ExecutesOneShot
VIEW ExecutionView
CHECK_DEADLOCK FALSE
