SPECIFICATION Spec
CONSTANTS
  Admins = {a1}
  NoAdmin = NoAdmin
  PauseSigners = {s1, s2}
  MaxEpoch = 1
  Owners = {o1}
  Delegates = {d1}
  NoDelegation = NoDelegation
  Expiries = {2, 4}
  GracePeriods = {0, 1}
  Schemes = {1, 3}
  MaxDuration = 2
  MaxSpan = 2
  MaxNonce = 3
  MaxTimestamp = 4
  MaxTime = 4
SYMMETRY PauseSignerSymmetry
CONSTRAINT BallotsOrDelegations
INVARIANTS NoLockout ExecutedViewHonest NonceSpentOnce ViewsAgree
PROPERTIES AuthorityIsSigned PausedByQuorum
CHECK_DEADLOCK FALSE
