SPECIFICATION Spec
CONSTANTS
  w1 = w1
  w2 = w2
  f1 = f1
  s1 = s1
  NoWorker = NoWorker
  Workers = {w1, w2}
  Managed = {w1, w2}
  Stoppers = {s1}
  HeartbeatMayDie = TRUE
SYMMETRY Symmetry
INVARIANTS
  TypeOK
  OneUnforfeitedHolder
  ReleaseIsFinal
  StopRequestHasHolder
PROPERTIES
  OwnerScopedWrites
  StopRequestSticks
