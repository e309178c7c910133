SPECIFICATION SystemSpec
CONSTANTS
  w1 = w1
  w2 = w2
  c1 = c1
  r1 = r1
  o1 = o1
  d1 = d1
  d2 = d2
  Nobody = Nobody
  Device = {d1}
  QueueWorker = {w1}
  CliSend = {}
  RecoveryWorker = {r1}
  Operator = {}
  Actor <- MCActor
  LeaseSeconds = {1}
  TransientBackoff = 1
  ReviewBackoff = 1
  MaxAttempts = 2
  MaxJobs = 1
  MaxRecoveries = 1
  MaxRetries = 0
  MaxTime = 1
  MaxEdits = 0
  MaxCrashes = 0
  DbMayFail = FALSE
  ImplicitTxnRaises = TRUE
  MayUnlock = FALSE
  MayRemove = FALSE
PROPERTIES
  FailureOpensRecovery
CHECK_DEADLOCK FALSE
