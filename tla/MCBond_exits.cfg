SPECIFICATION Spec
CONSTANTS
  Owners = {o1}
  Admins = {a1}
  NoAdmin = NoAdmin
  NoBond = NoBond
  NoConfig = NoConfig
  NoSalt = NoSalt
  Tokens = {t1, t2}
  NoToken = NoToken
  Salts = {}
  Amounts <- ExitAmounts
  Durations = {0, 12000}
  Notices = {0}
  PenaltyRates = {10000}
  FeeDeposits = {}
  MinBond = 2
  MaxBond = 2
  MaxLeverage = 1
  MaxTimestamp = 16001
  MaxAmount = 20000
  ExitTreasury = ExitTreasury
  SlashTreasury = SlashTreasury
  EmergencyTreasury = EmergencyTreasury
  Endowment = 2
  Steps = {4000}
  MaxTime = 12001
  MaxSlashes = 1
  MaxFees = 0
  MaxRaised = 1
SYMMETRY TokenSymmetry
INVARIANT FixedStakeHasOneExit
PROPERTY WaitingNeverCostsMore
CHECK_DEADLOCK FALSE
