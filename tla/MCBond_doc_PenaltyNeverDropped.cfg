SPECIFICATION Spec
CONSTANTS
  Owners = {o1}
  Admins = {a1}
  NoAdmin = NoAdmin
  NoBond = NoBond
  NoConfig = NoConfig
  NoSalt = NoSalt
  Tokens = {t1, t2}
  NoToken = NoToken
  Salts = {}
  Amounts = {10, 20}
  Durations = {12000}
  Notices = {1}
  PenaltyRates = {10000}
  FeeDeposits = {}
  MinBond = 10
  MaxBond = 20
  MaxLeverage = 2
  MaxTimestamp = 20000
  MaxAmount = 200000
  ExitTreasury = ExitTreasury
  SlashTreasury = SlashTreasury
  EmergencyTreasury = EmergencyTreasury
  Endowment = 20
  Steps = {1}
  MaxTime = 2
  MaxSlashes = 1
  MaxFees = 0
  MaxRaised = 1
INVARIANT PenaltyNeverDropped
CHECK_DEADLOCK FALSE
