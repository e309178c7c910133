SPECIFICATION IngestSpec
CONSTANTS
  f1 = f1
  f2 = f2
  Posts = 4
  Fingerprint = {f1, f2}
  WithMedia = {f1}
  DbMayFail = TRUE
INVARIANTS
  ForwardedOnce
  StoredIsForwarded
  MediaIsServed
  NoStrayFiles
  ForwardedInOrder
CHECK_DEADLOCK FALSE
