SPECIFICATION LineageSpec
CONSTANTS
  pii = pii
  read = read
  send = send
  NoTrace = NoTrace
  NoCall = NoCall
  th1 = th1
  th2 = th2
  r1 = r1
  r2 = r2
  d1 = d1
  l1 = l1
  Atom = {pii}
  Label = {pii}
  Declassifiable = {pii}
  Injection = {pii}
  Trace = {r1, r2}
  Leaf = {l1}
  Content = {d1}
  Tool = {read, send}
  Blocked <- Rules
  FieldBlocked <- Rules
  Inputs <- Attestations
  Thread = {th1, th2}
  MaxTokens = 1
  MaxReferences = 2
SYMMETRY LineageSymmetry
VIEW LineageView
INVARIANTS
  LineageTypeOK
  SinkRefusesTaint
  OutputCoversContext
