CONSTANTS
  i1 = i1
  i2 = i2
  i3 = i3
  h1 = h1
  h2 = h2
  h3 = h3
  Iface = {i1}
  Handler = {h1}
  MaxHandlers = 1
  MaxListed = 8
  Class <- OneClass
  TakesAll = {i1}
  Broken = {}
  Pad <- Separate
  ReleaseSignals = TRUE
  None = None
SPECIFICATION FairSpec
PROPERTIES UnplugHandled PlugHandled ShutdownCompletes SleepAcknowledged
CHECK_DEADLOCK FALSE
