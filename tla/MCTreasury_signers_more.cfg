SPECIFICATION Spec
CONSTANTS
  Admins = {a1}
  NoAdmin = NoAdmin
  PauseSigners = {p1, p2}
  NoAction = NoAction
  MaxPauseProposals = 1
  Depositors = {}
  Signers = {s1, s2}
  Tokens = {t1}
  NoToken = NoToken
  Self = Self
  Recipients = {r1}
  NoProposal = NoProposal
  Amounts = {1}
  Floors = {}
  Ttls = {}
  DefaultTtl = 1
  Cuts = {0}
  MaxAmount = 2
  MaxTimestamp = 3
  MaxTime = 1
  MaxProposals = 1
  MaxRollovers = 0
  MaxExcess = 0
  MaxInits = 2
SYMMETRY SignerSymmetry
CONSTRAINT OneBallotAfterReset
INVARIANTS PaidAsProposed PauseBallotsHonest
PROPERTY PausedFreezes
CHECK_DEADLOCK FALSE
