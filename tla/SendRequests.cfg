SPECIFICATION RequestSpec
CONSTANTS
  q1 = q1
  q2 = q2
  q3 = q3
  d1 = d1
  d2 = d2
  Request = {q1, q2, q3}
  Device = {d1, d2}
  Interval = 2
  DbMayFail = TRUE
SYMMETRY MCSymmetry
INVARIANTS
  MediaOutlivesJob
  NoStrayMedia
  CompanionPerInterval
CHECK_DEADLOCK FALSE
