SPECIFICATION Spec
CONSTANTS
  Owners = {o1}
  Admins = {a1, a2}
  NoAdmin = NoAdmin
  NoBond = NoBond
  NoConfig = NoConfig
  NoSalt = NoSalt
  Tokens = {t1, t2}
  NoToken = NoToken
  Salts = {s1}
  Amounts <- SlashAmounts
  Durations = {0}
  Notices = {0}
  PenaltyRates = {}
  FeeDeposits = {1}
  MinBond = 10
  MaxBond = 11
  MaxLeverage = 1
  MaxTimestamp = 4
  MaxAmount = 20
  ExitTreasury = ExitTreasury
  SlashTreasury = SlashTreasury
  EmergencyTreasury = EmergencyTreasury
  Endowment = 10
  Steps = {1}
  MaxTime = 1
  MaxSlashes = 2
  MaxFees = 1
  MaxRaised = 2
SYMMETRY SlashingSymmetry
INVARIANTS SeizuresRecorded AtMostOncePerKey
CHECK_DEADLOCK FALSE
