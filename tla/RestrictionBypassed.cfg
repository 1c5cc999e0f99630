SPECIFICATION Spec
CONSTANTS
  a1 = a1
  lookup = lookup
  post = post
  mail = mail
  NoApproval = NoApproval
  h1 = h1
  x1 = x1
  t1 = t1
  p1 = p1
  Agent = {a1}
  Tool <- ToolNames
  Handler = {h1}
  Admin = {x1}
  Token = {t1}
  Approval = {p1}
  Call = {post}
  TokenOwner <- Owners
  Threshold = 2
  Serialized = TRUE
  MayFail = FALSE
  MaxContainments = 1
  MaxViolations = 2
  CallAgent <- Agents
  CallTool <- Tools
  CallTrace <- Traces
  CallRequest <- Requests
  SensitiveRead <- Reads
  Egress <- Egresses
  Bytes <- Sizes
  SingleLimit <- Singles
  HourlyLimit <- Hourlies
  ModesUsed = {"enforce"}
SYMMETRY ThreadSymmetry
INVARIANTS
  RestrictedNeverRuns
