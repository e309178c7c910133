SPECIFICATION FairSpec
CONSTANTS
  w1 = w1
  w2 = w2
  c1 = c1
  d1 = d1
  d2 = d2
  Nobody = Nobody
  Device = {d1}
  QueueWorker = {w1}
  CliSend = {c1}
  Actor <- MCActor
  LeaseSeconds = {1}
  MaxTime = 2
  MaxEdits = 0
  MaxJobs = 2
  MayUnlock = FALSE
  MayRemove = FALSE
  MaxCrashes = 1
  DbMayFail = FALSE
PROPERTIES
  JobsAreFinished
  LocksClear
CHECK_DEADLOCK FALSE
