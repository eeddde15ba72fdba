SPECIFICATION Spec
CONSTANTS
  Owners = {o1}
  Admins = {a1}
  NoAdmin = NoAdmin
  NoBond = NoBond
  NoConfig = NoConfig
  NoSalt = NoSalt
  Tokens = {t1, t2}
  NoToken = NoToken
  Salts = {}
  Amounts = {1, 2}
  Durations = {1}
  Notices = {1}
  PenaltyRates = {5000}
  FeeDeposits = {}
  MinBond = 2
  MaxBond = 3
  MaxLeverage = 2
  MaxTimestamp = 4
  MaxAmount = 1000000
  ExitTreasury = ExitTreasury
  SlashTreasury = SlashTreasury
  EmergencyTreasury = EmergencyTreasury
  Endowment = 3
  Steps = {1}
  MaxTime = 2
  MaxSlashes = 1
  MaxFees = 0
  MaxRaised = 1
INVARIANT LiquidatedFlagCurrent
CHECK_DEADLOCK FALSE
