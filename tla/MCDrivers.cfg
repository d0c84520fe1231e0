SPECIFICATION Spec
CONSTANTS
  Raw <- MCRaw
  Axis = {"x"}
  TooLarge = {"99"}
  Button <- MCButton
  Binding <- MCBinding
  Combos <- MCCombos
  Ports = 3
  InitPackets = 2
  MaxSent = 5
INVARIANTS
  TypeOK
  AckedIsTaken
  LatestIsShown
