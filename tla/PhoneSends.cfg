SPECIFICATION SendSpec
CONSTANTS
  t = t
  o = o
  Chat = {t, o}
  Target = t
  Elsewhere = Elsewhere
  MaxRows = 2
  MaxTaps = 2
  MaxPending = 2
INVARIANTS
  PhoneTypeOK
  SentByOneTap
  SentAsIntended
  ReportedIsSent
  SentFileIsOwn
  ReportedFileIsSent
  LeavesPhoneClean
CHECK_DEADLOCK FALSE
