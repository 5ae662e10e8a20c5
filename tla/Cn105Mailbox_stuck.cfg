SPECIFICATION FairSpec
CONSTANTS
  None = None
  Temps <- MCTwoTemps
  Grace = 1
  UnitEncoding = "enhanced"
  Compatibility = FALSE
  Declined = {}
  Inputs <- MCTempInput
  AutoTargets = {}
  WallMoves <- MCWallFan
  InitialUnit <- MCUnit
  MayReconnect = TRUE
  LosesSets = FALSE
  LosesReplies = FALSE
  LateReplies = FALSE
PROPERTY HeldIsReleased
