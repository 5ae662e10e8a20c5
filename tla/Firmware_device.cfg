SPECIFICATION PartsSpec
CONSTANTS
  Threshold = 2
  Cap = 2
  Contents = {"good", "early", "foreign", "short", "damaged"}
  MaxUploads = 2
  MaxLosses = 1
  MaxHangs = 1
  Viewers = {h1}
  Unset = Unset
  MaxChanges = 2
  MaxEdits = 1
  MaxFrameLosses = 1
  MaxCuts = 1
  SeqMayFail = FALSE
INVARIANT BootsSoundly
PROPERTY DeviceComesUp
PROPERTY DialsFollow
CHECK_DEADLOCK FALSE
