SPECIFICATION PartsSpec
CONSTANTS
  None = None
  Temps <- MCTwoTemps
  Grace = 1
  UnitEncoding = "enhanced"
  Compatibility = FALSE
  Declined = {42}
  Inputs <- MCTempInput
  AutoTargets = {42}
  WallMoves <- MCFanInput
  InitialUnit <- MCUnit
  MayReconnect = TRUE
  LosesSets = TRUE
  LosesReplies = TRUE
  LateReplies = FALSE
  ManualRanges <- MCManualRanges
  ReportedRanges <- MCReportedRanges
  Masks <- MCMasks
  Quarters = {56, 61, 63, 87, 90, 111, 124}
  Bands <- MCBands
INVARIANT TargetsServed
PROPERTY SetpointSettles
PROPERTY HeldIsReleased
