SPECIFICATION ScreensFairSpec
CONSTANTS
  Reconnects = FALSE
  Reboots = TRUE
  NoFile = NoFile
  Own <- MCOwn
  Shown <- MCShown
  Astray <- MCAstray
  Previews <- MCPreviews
  NationalDigits = 2
  MaxAttempts = 2
INVARIANTS
  ScreensTypeOK
  VerdictIsTrue
  ReviewIsAwaited
PROPERTIES
  RegistersOwnNumber
  StageEnds
CHECK_DEADLOCK FALSE
