SPECIFICATION Spec
CONSTANTS
  MaxTime = 3
  Persons = {a1, a2, a3}
  NoPerson = NoPerson
  NoInfo = NoInfo
  AdminLimits <- Limits
  Suspensions = {2}
  RegistryAdmins = {r1, r2}
  NoRegistryAdmin = NoRegistryAdmin
  Identities = {a1, a2, a3}
  NoIdentity = NoIdentity
  BondContracts = {b1, b2, b3}
  NoBondContract = NoBondContract
  Supporting = {b1, b2}
  CodeHashes = {h1, h2}
  NoCodeHash = NoCodeHash
  CodeHash <- Hashing
  MaxPage = 2
  PageLimits = {0, 1, 2, 3}
  ArbitrationAdmins = {m1}
  NoArbitrationAdmin = NoArbitrationAdmin
  Arbitrators = {a1, a2, a3}
  Creators = {c1}
  NoDispute = NoDispute
  Weights = {1, 2}
  MaxOutcome = 3
  Windows = {0}
  Quorums <- QuorumChoices
  MaxDisputes = 1
  MaxBenchPage = 2
  DefaultBenchPage = 1
  Officers = {a1, a2, a3}
  NoOfficer = NoOfficer
  Implementations = {p1, p2}
  FirstImplementation = p1
  Expiries = {0, 1}
  Required = {0, 2}
  MaxProposals = 1
  MaxUpgrades = 2
  NoAuth = NoAuth
  BondAdmins = {m1, m2}
  FirstBondAdmin = m1
  Attesters = {a1, a2}
  Subjects = {s1, s2}
  AttestationData = {d1}
  AttestationNonces = {0, 1, 2}
  Stakes = {2}
  Multipliers = {1}
  MaxMultiplier = 1
  WeightCaps = {2}
  MaxWeight = 3
  MaxBatchAttestations = 2
  MaxQueryLimit = 2
  MaxAttestations = 3
  NoAttestation = NoAttestation
  Treasuries = {x1, x2}
  DrainDelays = {0, 1}
  DrainTimelock = 1
  DrainAmounts = {0, 1}
  MaxPool = 1
  MaxWitnessed = 1
  MaxDrains = 2
  MaxTransitions = 1
  NoTreasury = NoTreasury
  NoEta = NoEta
  StakeAmounts = {0, 1, 2}
  Wealth = 2
  NoVerifier = NoVerifier
  Voters = {g1, g2, g3}
  NoVoter = NoVoter
  GovernorLists <- GovernorChoices
  QuorumRules <- GovernanceRules
  SlashAmounts = {0, 1}
  BpsOfWhole = 10000
  MaxSlashProposals = 1
  MaxFoundings = 2
  NoSlashProposal = NoSlashProposal
  Cases = {q1, q2}
  Hashes = {e1, e2, e3}
  Submitters = {s1, s2}
  MaxEvidence = 3
  NoEvidence = NoEvidence
SYMMETRY Interchangeable
INVARIANTS RostersAgree BenchIsListed OneBallotEach VerdictStands UpgradeBooksAgree SubjectBooksAgree DedupKeysHonest StakesAreLocked VerdictsMatchVoices EvidenceFiledOnce DrainsApart
PROPERTIES RanksAreGranted ImplementsDirectory
CHECK_DEADLOCK FALSE
