SPECIFICATION PartsSpec
CONSTANTS
  None = None
  Temps <- MCTwoTemps
  Grace = 1
  UnitEncoding = "enhanced"
  Compatibility = FALSE
  Declined = {44}
  Inputs = {}
  AutoTargets <- MCTwoTemps
  WallMoves = {}
  InitialUnit <- MCUnit
  MayReconnect = FALSE
  LosesSets = TRUE
  LosesReplies = FALSE
  LateReplies = FALSE
  NoSet = NoSet
  WallSets = {40, 46}
  InitialUnits <- MCInitialUnits
  RoomTemps = {49}
  UserBands <- MCUserBands
  AutoRange <- MCAutoRange
  MaxWallMoves = 2
  MaxClaims = 1
  MaxFailedSaves = 1
  MaxCycles = 1
  MaxLosses = 1
INVARIANT WantedIsOnItsWay
INVARIANT WithdrawnStaysOut
 
PROPERTY SetpointForThisUnit
PROPERTY RefusalIsEarned
PROPERTY LastTouchWins
