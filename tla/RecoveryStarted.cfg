SPECIFICATION Spec
CONSTANTS
  r1 = r1
  r2 = r2
  o1 = o1
  d1 = d1
  d2 = d2
  Nobody = Nobody
  Device = {d1}
  RecoveryWorker = {r1}
  Actor = {r1}
  Operator = {o1}
  LeaseSeconds = {1}
  TransientBackoff = 1
  ReviewBackoff = 2
  MaxAttempts = 2
  MaxRecoveries = 1
  MaxRetries = 1
  MaxTime = 2
  MaxEdits = 0
  MaxCrashes = 0
  DbMayFail = FALSE
  ImplicitTxnRaises = FALSE
  MayUnlock = FALSE
  MayRemove = FALSE
INVARIANTS
  StartedOnce
CHECK_DEADLOCK FALSE
