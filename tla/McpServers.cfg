SPECIFICATION McpSpec
CONSTANTS
  s1 = s1
  s2 = s2
  n1 = n1
  good = good
  other = other
  odd = odd
  bad = bad
  NoDef = NoDef
  c1 = c1
  x1 = x1
  Server = {s1, s2}
  Name = {n1}
  Def = {good, other, odd, bad}
  Hostile = {bad}
  Suspect = {odd}
  Manifests <- Presented
  Request = {c1}
  Reviewer = {x1}
SYMMETRY McpSymmetry
INVARIANTS
  McpTypeOK
  WholeManifestVetted
  CollisionBlocksCalls
  BaselineIsVetted
  CallsCleanTool
VIEW McpView
