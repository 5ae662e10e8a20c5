SPECIFICATION PartsSpec
CONSTANTS
  Phases <- MCLivePhases
  ReplyDeadline = 2
  DeferDelay = 1
  UpdateInterval = 2
  ConfirmInterval = 1
  ConnectInterval = 1
  MaxRetries = 2
  CommsTimeout = 4
  IdentifyTimeout = 1
  BootClearEnabled = FALSE
  Answers <- MCAllAnswers
  Actors = {"commands", "remote", "baud"}
  Prompt = FALSE
  MaxWire = 1
PROPERTY PollingGoesOn
