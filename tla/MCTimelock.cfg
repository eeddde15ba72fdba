SPECIFICATION Spec
CONSTANTS
  Admins = {a1, a2}
  NoAdmin = NoAdmin
  Hashes = {h1, h2}
  NoOperation = NoOperation
  Delays = {0, 1, 2, 3}
  MinDelay = 1
  GracePeriod = 1
  MaxTimestamp = 6
  MaxTime = 6
  MaxOperations = 3
SYMMETRY HashSymmetry
INVARIANT ExecutedOnce
PROPERTY NeverEarly
CHECK_DEADLOCK FALSE
