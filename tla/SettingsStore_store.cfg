SPECIFICATION Spec
CONSTANTS
  None = None
  Damaged = Damaged
  Bands = {"default", "stored"}
  DefaultBand = "default"
  Births <- MCBirths
  MaxLosses = 2
  MaxFailures = 1
INVARIANT ActiveIsDurable
PROPERTY PolicyIsOldOrNew
PROPERTY BootsAsChosen
PROPERTY ErasedStaysErased
