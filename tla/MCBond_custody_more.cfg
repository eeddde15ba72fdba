SPECIFICATION Spec
CONSTANTS
  Owners = {o1, o2}
  Admins = {a1}
  NoAdmin = NoAdmin
  NoBond = NoBond
  NoConfig = NoConfig
  NoSalt = NoSalt
  Tokens = {t1, t2}
  NoToken = NoToken
  Salts = {}
  Amounts <- SmallAmounts
  Durations = {1}
  Notices = {1}
  PenaltyRates = {5000}
  FeeDeposits = {}
  MinBond = 2
  MaxBond = 2
  MaxLeverage = 1
  MaxTimestamp = 3
  MaxAmount = 1000000
  ExitTreasury = ExitTreasury
  SlashTreasury = SlashTreasury
  EmergencyTreasury = EmergencyTreasury
  Endowment = 2
  Steps = {1}
  MaxTime = 2
  MaxSlashes = 1
  MaxFees = 0
  MaxRaised = 1
SYMMETRY CustodySymmetry
INVARIANTS TypeOK SelfConsistent DriftCheckIdle NobodyProfits SeizuresRecorded
PROPERTY FullySlashedUnpaid
CHECK_DEADLOCK FALSE
