SPECIFICATION Spec
CONSTANTS
  Admins = {a1}
  NoAdmin = NoAdmin
  PauseSigners = {}
  NoAction = NoAction
  MaxPauseProposals = 0
  s1 = s1
  s2 = s2
  Signers = {s1, s2}
  SignerLists <- InitialLists
  Hashes = {h1, h2}
  NoHash = NoHash
  NoProposal = NoProposal
  Expiries = {0, 2}
  Sweeps = {0, 1}
  DefaultSweep = 50
  SweepCap = 200
  MaxTime = 2
  MaxProposals = 2
  MaxInits = 2
SYMMETRY HashSymmetry
CONSTRAINT OneProposalAroundReset
INVARIANT SignedWhatItExecutes
CHECK_DEADLOCK FALSE
