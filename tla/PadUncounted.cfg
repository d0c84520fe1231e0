CONSTANTS
  Endpoints = 3
  InputCount = 1
  Driver = "steam"
  MaxInputs = 2
  QueueMax = 1
SPECIFICATION Spec
INVARIANTS NothingShownAtEnd
