CONSTANTS
  Controller = {"1-1", "2-2"}
  DefaultProfile <- MCDefaultProfile
  UserFile <- MCUserFile
  UserRest <- MCUserRest
  Items <- MCItems
  MaxEvents = 3
  MaxCombos = 1
  MaxLoads = 3
  MaxTorn = 1
  MaxCut = 1
SPECIFICATION Spec
INVARIANTS TypeOK LoadedRight AppendedOnce FirstListedAreWatched
