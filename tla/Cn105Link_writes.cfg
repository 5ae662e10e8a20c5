SPECIFICATION Spec
CONSTANTS
  Phases <- MCPhases
  ReplyDeadline = 2
  DeferDelay = 1
  UpdateInterval = 2
  ConfirmInterval = 1
  ConnectInterval = 2
  MaxRetries = 2
  CommsTimeout = 5
  IdentifyTimeout = 1
  BootClearEnabled = TRUE
  Answers <- MCAllAnswers
  Actors = {"commands", "hold", "remote", "baud"}
  Prompt = FALSE
  MaxWire = 1
INVARIANT ResumeSafe
INVARIANT WaitsAreBounded
INVARIANT RemoteFollowsSource
PROPERTY QuietAfterWrite
