SPECIFICATION Spec
CONSTANTS
  w1 = w1
  w2 = w2
  c1 = c1
  d1 = d1
  d2 = d2
  Nobody = Nobody
  Device = {d1}
  QueueWorker = {w1, w2}
  CliSend = {c1}
  Actor <- MCActor
  LeaseSeconds = {1}
  MaxTime = 1
  MaxEdits = 1
  MaxJobs = 2
  MayUnlock = TRUE
  MayRemove = FALSE
  MaxCrashes = 0
  DbMayFail = TRUE
SYMMETRY MCSymmetry
INVARIANTS
  DrivesCurrentEndpoint
PROPERTIES
  ImplementsContract
CHECK_DEADLOCK FALSE
