SPECIFICATION Spec
CONSTANTS
  r1 = r1
  r2 = r2
  o1 = o1
  d1 = d1
  d2 = d2
  Nobody = Nobody
  Device = {d1}
  RecoveryWorker = {r1}
  Actor = {r1}
  Operator = {o1}
  LeaseSeconds = {1}
  TransientBackoff = 1
  ReviewBackoff = 1
  MaxAttempts = 2
  MaxRecoveries = 2
  MaxRetries = 1
  MaxTime = 1
  MaxEdits = 0
  MaxCrashes = 1
  DbMayFail = TRUE
  ImplicitTxnRaises = FALSE
  MayUnlock = FALSE
  MayRemove = TRUE
SYMMETRY MCSymmetry
INVARIANTS
  TypeOK
  OneActivePerDevice
  EventsAreTrue
  AttemptsBounded
PROPERTIES
  OutcomeIsFinal
  ImplementsContract
CHECK_DEADLOCK FALSE
