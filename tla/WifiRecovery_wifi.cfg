SPECIFICATION FairSpec
CONSTANTS
  Nets = {"home", "new"}
  Reachable = {"new"}
  None = None
  Mixed = Mixed
  ImmediateRetries = 0
  MaxEvents = 1
  Births <- MCBirths
  MayRestart = TRUE
PROPERTY StoresOnlyTested
PROPERTY SuccessIsStored
PROPERTY Reachability
