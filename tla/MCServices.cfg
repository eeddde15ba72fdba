SPECIFICATION ServicesSpec
CONSTANTS
  MaxTime = 3
  Users = {u1, u2}
  ClaimTypes = {t1, t2}
  ClaimAmounts = {0, 1, 2}
  ClaimLimits = {0, 1, 2}
  MaxBatchClaims = 2
  ClaimExpiry = 1
  MaxClaimsPage = 2
  MaxClaims = 3
  NoClaim = NoClaim
  Holders = {h1, h2, h3}
  Keepers = {k1, k2}
  Diligent = {k1}
  PageSizes = {0, 1}
  DefaultIter = 2
  MaxIter = 2
INVARIANTS ClaimsAccounted ClaimableCovers ClaimPagesCover SizeCountsHolders
PROPERTIES ExpiredClaimsSwept CandidatesAreReported
CHECK_DEADLOCK FALSE
