SPECIFICATION FairSpec
CONSTANTS
  r1 = r1
  r2 = r2
  o1 = o1
  d1 = d1
  d2 = d2
  Nobody = Nobody
  Device = {d1, d2}
  RecoveryWorker = {r1}
  Actor = {r1}
  Operator = {}
  LeaseSeconds = {1}
  TransientBackoff = 1
  ReviewBackoff = 1
  MaxAttempts = 2
  MaxRecoveries = 2
  MaxRetries = 0
  MaxTime = 1
  MaxEdits = 0
  MaxCrashes = 1
  DbMayFail = FALSE
  ImplicitTxnRaises = FALSE
  MayUnlock = FALSE
  MayRemove = FALSE
INVARIANTS
  OutcomeIsReported
PROPERTIES
  RecoveryMovesOn
CHECK_DEADLOCK FALSE
