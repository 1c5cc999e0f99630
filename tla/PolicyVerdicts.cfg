SPECIFICATION PolicySpec
CONSTANTS
  a1 = a1
  s1 = s1
  text = text
  key = key
  pii = pii
  body = body
  c1 = c1
  None = None
  Agent = {a1}
  Scope = {s1}
  Argument = {text, key}
  Label = {pii}
  Pointer = {body}
  Secret = {key}
  MaxLevel = 1
  Tools <- Policies
  Redeployed <- Replacements
  Calls <- Made
  Rows <- Recorded
  Slot = {c1}
INVARIANTS
  RunsWithinPolicy
  TaintNeverPardons
