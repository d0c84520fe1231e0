CONSTANTS
  i1 = i1
  i2 = i2
  i3 = i3
  h1 = h1
  h2 = h2
  h3 = h3
  Iface = {i1, i2}
  Handler = {h1, h2}
  MaxHandlers = 2
  MaxListed = 1
  Class <- OneClass
  TakesAll = {i1}
  Broken = {}
  Pad <- Separate
  ReleaseSignals = FALSE
  None = None
SPECIFICATION Spec
SYMMETRY SymmetricHandlers
INVARIANTS NoDuplicateEntries  
PROPERTY ImplementsRegistry
CHECK_DEADLOCK FALSE
