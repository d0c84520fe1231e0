CONSTANTS
  i1 = i1
  i2 = i2
  i3 = i3
  h1 = h1
  h2 = h2
  h3 = h3
  Iface = {i1, i2}
  Handler = {h1, h2}
  MaxHandlers = 2
  MaxListed = 8
  Class <- OneClass
  TakesAll = {}
  Broken = {}
  Pad <- Separate
  ReleaseSignals = TRUE
  None = None
SPECIFICATION Spec
INVARIANT NoCircularWait
CHECK_DEADLOCK FALSE
