SPECIFICATION Spec
CONSTANTS
  Admins = {a1}
  NoAdmin = NoAdmin
  PauseSigners = {}
  NoAction = NoAction
  MaxPauseProposals = 0
  Depositors = {d1}
  Signers = {s1}
  Tokens = {t1, t2}
  NoToken = NoToken
  Self = Self
  Recipients = {Self, r1}
  NoProposal = NoProposal
  Amounts = {1, 2}
  Floors = {1}
  Ttls = {0, 1}
  DefaultTtl = 1
  Cuts = {0, 1}
  MaxAmount = 3
  MaxTimestamp = 5
  MaxTime = 2
  MaxProposals = 1
  MaxRollovers = 1
  MaxExcess = 1
  MaxInits = 1
CONSTRAINTS TimeExpiresProposals OneSettingAtATime
SYMMETRY TokenSymmetry
INVARIANT LifetimesAgree
PROPERTIES ImplementsVault ChargesAreProportional
CHECK_DEADLOCK FALSE
