CONSTANTS
  Endpoints = 2
  InputCount = 2
  Driver = "wireless"
  MaxInputs = 2
  QueueMax = 2
SPECIFICATION FairSpec
INVARIANTS TypeOK NoGhostPad HandlesMatch NothingShownAtEnd
PROPERTIES DroppedStaysDropped EveryEndpointHasItsTurn ExitCompletes
