SPECIFICATION Spec
CONSTANTS
  w1 = w1
  w2 = w2
  c1 = c1
  d1 = d1
  d2 = d2
  Nobody = Nobody
  Device = {d1, d2}
  QueueWorker = {w1, w2}
  CliSend = {}
  Actor <- MCActor
  LeaseSeconds = {1}
  MaxTime = 2
  MaxEdits = 0
  MaxJobs = 2
  MayUnlock = FALSE
  MayRemove = TRUE
  MaxCrashes = 1
  DbMayFail = TRUE
SYMMETRY MCSymmetry
INVARIANTS
  TypeOK
  SentAtMostOnce
  OneWorkerPerJob
  OutcomesAreTrue
  FifoPerDevice
PROPERTIES
  OutcomeIsFinal
CHECK_DEADLOCK FALSE
