---------------------------- MODULE BondBooksProofs ----------------------------
(***************************************************************************)
(* Proofs about the parts of the bond contract that keep books of their    *)
(* own beside the bond, for every value of their constants: verifiers,     *)
(* governance of slashes, drains, evidence, upgrades, attestations, the    *)
(* liquidation scanner and the pull-payment claims.  At the end of the     *)
(* module: what holds of all contracts that share a ledger.                *)
(***************************************************************************)
EXTENDS ContractsProofs, MCServices

-----------------------------------------------------------------------------
(***************************************************************************)
(* Verifiers: the books of each agree once the records are records.  The   *)
(* calls of the attestations change no record, and say so when they change *)
(* the stake that weighs.                                                  *)
(***************************************************************************)
USE VerifiersAssumption

VerifierRecord == [stake : Int, active : BOOLEAN]

VerifiersTyped ==
    /\ verifier_info \in [Attesters -> VerifierRecord \cup {NoVerifier}]
    /\ verifier_role \subseteq Attesters
    /\ attester_stake \in [Attesters -> Int]
    /\ wallet \in [Attesters -> Int]

VerifiersInv == VerifiersTyped /\ StakesAreLocked

LEMMA VerifiersStart == AttestingInit => VerifiersInv
<1> SUFFICES ASSUME AttestingInit PROVE VerifiersInv
  OBVIOUS
<1>1. VerifiersTyped
  BY DEF AttestingInit, AttestationsInit, VerifiersInit, VerifiersTyped
<1>2. StakesAreLocked
  BY DEF AttestingInit, AttestationsInit, VerifiersInit, StakesAreLocked, StakeOf,
         KnownVerifier, ActiveVerifier
<1> QED
  BY <1>1, <1>2 DEF VerifiersInv

LEMMA Books ==
  ASSUME VerifiersInv, NEW v \in Attesters
  PROVE  /\ StakeOf(v) \in Int /\ StakeOf(v) >= 0 /\ ActiveVerifier(v) \in BOOLEAN
         /\ KnownVerifier(v) => /\ verifier_info[v] \in VerifierRecord
                                /\ verifier_info[v].stake = StakeOf(v)
                                /\ ActiveVerifier(v) <=> verifier_info[v].active
         /\ ~KnownVerifier(v) => ~ActiveVerifier(v) /\ StakeOf(v) = 0
         /\ wallet[v] \in Int /\ wallet[v] = Wealth - StakeOf(v)
         /\ v \in verifier_role => ActiveVerifier(v)
         /\ v \notin overruled => attester_stake[v] = StakeOf(v)
<1>1. KnownVerifier(v) => verifier_info[v] \in VerifierRecord
  BY DEF VerifiersInv, VerifiersTyped, KnownVerifier
<1>2. \A r \in VerifierRecord : r.stake \in Int /\ r.active \in BOOLEAN
  BY DEF VerifierRecord
<1>3. StakeOf(v) \in Int /\ wallet[v] \in Int
  BY <1>1, <1>2 DEF StakeOf, VerifiersInv, VerifiersTyped
<1>4. /\ StakeOf(v) >= 0 /\ wallet[v] + StakeOf(v) = Wealth
      /\ v \in verifier_role => ActiveVerifier(v)
      /\ v \notin overruled => attester_stake[v] = StakeOf(v)
  BY DEF VerifiersInv, StakesAreLocked
<1>5. wallet[v] = Wealth - StakeOf(v)
  BY <1>3, <1>4
<1> QED
  BY <1>1, <1>2, <1>3, <1>4, <1>5 DEF StakeOf, ActiveVerifier

(* A change of one verifier's record, with his wallet, role and weight,     *)
(* leaves the books of the others alone.                                    *)
LEMMA OneVerifierChanges ==
  ASSUME VerifiersInv, NEW v \in Attesters, NEW stake \in Int, NEW active \in BOOLEAN,
         stake >= 0,
         verifier_info' = [verifier_info EXCEPT ![v] = [stake |-> stake, active |-> active]],
         wallet' = [wallet EXCEPT ![v] = Wealth - stake],
         verifier_role' \subseteq Attesters, attester_stake' \in [Attesters -> Int],
         v \in verifier_role' => active,
         v \notin overruled' => attester_stake'[v] = stake,
         \A u \in Attesters \ {v} : /\ attester_stake'[u] = attester_stake[u]
                                    /\ u \in verifier_role' => u \in verifier_role
                                    /\ u \in overruled => u \in overruled'
  PROVE  VerifiersInv'
<1> DEFINE record == [stake |-> stake, active |-> active]
<1>1. record \in VerifierRecord /\ record # NoVerifier /\ record.stake = stake /\ record.active = active
  BY DEF VerifierRecord
<1> HIDE DEF record
<1>2. verifier_info' = [verifier_info EXCEPT ![v] = record]
  BY DEF record
<1>3. VerifiersTyped'
  <2>1. verifier_info' \in [Attesters -> VerifierRecord \cup {NoVerifier}]
    BY <1>1, <1>2 DEF VerifiersInv, VerifiersTyped
  <2>2. wallet' \in [Attesters -> Int]
    BY DEF VerifiersInv, VerifiersTyped
  <2> QED
    BY <2>1, <2>2 DEF VerifiersTyped
<1>4. StakesAreLocked'
  <2> SUFFICES ASSUME NEW u \in Attesters
               PROVE  /\ StakeOf(u)' >= 0 /\ wallet'[u] + StakeOf(u)' = Wealth
                      /\ u \in verifier_role' => ActiveVerifier(u)'
                      /\ u \notin overruled' => attester_stake'[u] = StakeOf(u)'
    BY DEF StakesAreLocked
  <2>1. CASE u = v
    <3>1. verifier_info'[u] = record /\ wallet'[u] = Wealth - stake
      BY <1>2, <2>1 DEF VerifiersInv, VerifiersTyped
    <3>2. StakeOf(u)' = stake /\ (ActiveVerifier(u)' <=> active)
      BY <1>1, <3>1 DEF StakeOf, ActiveVerifier, KnownVerifier
    <3> QED
      BY <2>1, <3>1, <3>2
  <2>2. CASE u # v
    <3>1. verifier_info'[u] = verifier_info[u] /\ wallet'[u] = wallet[u]
      BY <1>2, <2>2 DEF VerifiersInv, VerifiersTyped
    <3>2. /\ attester_stake'[u] = attester_stake[u]
          /\ u \in verifier_role' => u \in verifier_role
          /\ u \in overruled => u \in overruled'
      BY <2>2
    <3>3. StakeOf(u)' = StakeOf(u) /\ (ActiveVerifier(u)' <=> ActiveVerifier(u))
      BY <3>1 DEF StakeOf, ActiveVerifier, KnownVerifier
    <3>4. /\ StakeOf(u) >= 0 /\ wallet[u] + StakeOf(u) = Wealth
          /\ u \in verifier_role => ActiveVerifier(u)
          /\ u \notin overruled => attester_stake[u] = StakeOf(u)
      BY DEF VerifiersInv, StakesAreLocked
    <3> QED
      BY <3>1, <3>2, <3>3, <3>4
  <2> QED
    BY <2>1, <2>2
<1> QED
  BY <1>3, <1>4 DEF VerifiersInv

(* Where no record changes, a role may go, and a weight that the admin sets *)
(* is known for one.                                                        *)
LEMMA NoRecordChanges ==
  ASSUME VerifiersInv, UNCHANGED <<verifier_info, wallet>>,
         verifier_role' \subseteq verifier_role, attester_stake' \in [Attesters -> Int],
         \A v \in Attesters : v \notin overruled' =>
             v \notin overruled /\ attester_stake'[v] = attester_stake[v]
  PROVE  VerifiersInv'
<1>1. VerifiersTyped'
  BY DEF VerifiersInv, VerifiersTyped
<1>2. StakesAreLocked'
  <2> SUFFICES ASSUME NEW v \in Attesters
               PROVE  /\ StakeOf(v)' >= 0 /\ wallet'[v] + StakeOf(v)' = Wealth
                      /\ v \in verifier_role' => ActiveVerifier(v)'
                      /\ v \notin overruled' => attester_stake'[v] = StakeOf(v)'
    BY DEF StakesAreLocked
  <2>1. StakeOf(v)' = StakeOf(v) /\ (ActiveVerifier(v)' <=> ActiveVerifier(v))
    BY DEF StakeOf, ActiveVerifier, KnownVerifier
  <2> QED
    BY <2>1 DEF VerifiersInv, StakesAreLocked
<1> QED
  BY <1>1, <1>2 DEF VerifiersInv

LEMMA VerifiersKeep == ASSUME VerifiersInv, VerifiersNext PROVE VerifiersInv'
<1>0. verifier_role \subseteq Attesters /\ attester_stake \in [Attesters -> Int]
  BY DEF VerifiersInv, VerifiersTyped
<1>1. ASSUME NEW v \in Attesters, NEW amount \in StakeAmounts, RegisterWithStake(v, amount)
      PROVE  VerifiersInv'
  <2>1. /\ amount \in Int /\ amount >= 0
        /\ StakeOf(v) + amount \in Int /\ StakeOf(v) + amount >= 0
    <3>1. amount \in Int /\ amount >= 0
      BY <1>1 DEF RegisterWithStake, CanStake
    <3>2. StakeOf(v) \in Int /\ StakeOf(v) >= 0
      BY Books
    <3> QED
      BY <3>1, <3>2
  <2>2. wallet[v] - amount = Wealth - (StakeOf(v) + amount)
    BY <2>1, Books
  <2>3. /\ verifier_info' = [verifier_info EXCEPT ![v] =
              [stake |-> StakeOf(v) + amount, active |-> TRUE]]
        /\ attester_stake' = [attester_stake EXCEPT ![v] = StakeOf(v) + amount]
        /\ wallet' = [wallet EXCEPT ![v] = wallet[v] - amount]
        /\ verifier_role' = verifier_role \cup {v} /\ overruled' = overruled \ {v}
    BY <1>1 DEF RegisterWithStake, Stored, Paid, GrantRole
  <2> QED
    BY <1>0, <2>1, <2>2, <2>3, OneVerifierChanges
<1>2. ASSUME NEW v \in Attesters, RegisterLegacy(v) PROVE VerifiersInv'
  <2>1. wallet' = [wallet EXCEPT ![v] = Wealth - StakeOf(v)]
    BY <1>2, Books DEF RegisterLegacy, VerifiersInv, VerifiersTyped
  <2>2. /\ verifier_info' = [verifier_info EXCEPT ![v] = [stake |-> StakeOf(v), active |-> TRUE]]
        /\ attester_stake' = [attester_stake EXCEPT ![v] = StakeOf(v)]
        /\ verifier_role' = verifier_role \cup {v} /\ overruled' = overruled \ {v}
    BY <1>2 DEF RegisterLegacy, Stored, GrantRole
  <2> QED
    BY <1>0, <2>1, <2>2, Books, OneVerifierChanges
<1>3. ASSUME NEW v \in Attesters, DeactivateVerifier(v) PROVE VerifiersInv'
  <2>1. KnownVerifier(v) /\ verifier_info[v].stake = StakeOf(v)
    BY <1>3, Books DEF DeactivateVerifier, ActiveVerifier
  <2>2. verifier_info' = [verifier_info EXCEPT ![v] = [stake |-> StakeOf(v), active |-> FALSE]]
    BY <1>3, <2>1 DEF DeactivateVerifier
  <2>3. wallet' = [wallet EXCEPT ![v] = Wealth - StakeOf(v)]
    BY <1>3, Books DEF DeactivateVerifier, VerifiersInv, VerifiersTyped
  <2>4. verifier_role' = verifier_role \ {v} /\ UNCHANGED <<attester_stake, overruled>>
    BY <1>3 DEF DeactivateVerifier, ClearRole
  <2> QED
    BY <1>0, <2>2, <2>3, <2>4, Books, OneVerifierChanges
<1>4. ASSUME NEW v \in Attesters, DeactivateIfExists(v) PROVE VerifiersInv'
  <2>1. CASE ActiveVerifier(v)
    BY <1>3, <1>4, <2>1 DEF DeactivateIfExists
  <2>2. CASE ~ActiveVerifier(v)
    BY <1>0, <1>4, <2>2, NoRecordChanges DEF DeactivateIfExists, ClearRole
  <2> QED
    BY <2>1, <2>2
<1>5. ASSUME NEW v \in Attesters, NEW amount \in StakeAmounts, WithdrawStake(v, amount)
      PROVE  VerifiersInv'
  <2>1. /\ KnownVerifier(v) /\ ~verifier_info[v].active /\ amount <= verifier_info[v].stake
        /\ verifier_info' = [verifier_info EXCEPT ![v] =
              [stake |-> verifier_info[v].stake - amount, active |-> FALSE]]
        /\ attester_stake' = [attester_stake EXCEPT ![v] = verifier_info[v].stake - amount]
        /\ wallet' = [wallet EXCEPT ![v] = wallet[v] - (-amount)]
        /\ verifier_role' = verifier_role /\ overruled' = overruled \ {v}
    BY <1>5 DEF WithdrawStake, Stored, Paid
  <2>2. verifier_info[v].stake = StakeOf(v) /\ v \notin verifier_role
    BY <2>1, Books
  <2>3. amount \in Int /\ StakeOf(v) - amount >= 0 /\ StakeOf(v) - amount \in Int
    BY <2>1, <2>2, Books
  <2>4. wallet[v] - (-amount) = Wealth - (StakeOf(v) - amount)
    BY <2>3, Books
  <2> QED
    BY <1>0, <2>1, <2>2, <2>3, <2>4, OneVerifierChanges
<1>6. ASSUME NEW v \in Attesters, RecordAttestationIssued(v) PROVE VerifiersInv'
  <2>1. /\ ~KnownVerifier(v)
        /\ verifier_info' = [verifier_info EXCEPT ![v] = [stake |-> 0, active |-> TRUE]]
        /\ UNCHANGED <<verifier_role, attester_stake, wallet, overruled>>
    BY <1>6 DEF RecordAttestationIssued
  <2>2. StakeOf(v) = 0
    BY <2>1, Books
  <2>3. verifier_info' = [verifier_info EXCEPT ![v] = [stake |-> StakeOf(v), active |-> TRUE]]
    BY <2>1, <2>2
  <2>4. wallet' = [wallet EXCEPT ![v] = Wealth - StakeOf(v)]
    BY <2>1, Books DEF VerifiersInv, VerifiersTyped
  <2> QED
    BY <1>0, <2>1, <2>3, <2>4, Books, OneVerifierChanges
<1>7. ASSUME NEW amount \in StakeAmounts, SetMinStake(amount) PROVE VerifiersInv'
  BY <1>0, <1>7, NoRecordChanges DEF SetMinStake
<1> QED
  BY <1>1, <1>2, <1>3, <1>4, <1>5, <1>6, <1>7 DEF VerifiersNext

(* The calls of the attestations.                                           *)
LEMMA WeightsStayNumbers ==
  ASSUME attester_stake \in [Attesters -> Int], AttestationsNext, AttestationsAssumption
  PROVE  attester_stake' \in [Attesters -> Int]
<1>1. ASSUME NEW admin \in BondAdmins, NEW a \in Attesters, NEW amount \in Stakes,
             SetAttesterStake(admin, a, amount)
      PROVE  attester_stake' \in [Attesters -> Int]
  BY <1>1 DEF SetAttesterStake, AttestationsAssumption
<1>2. ASSUME UNCHANGED attester_stake PROVE attester_stake' \in [Attesters -> Int]
  BY <1>2
<1>3. ASSUME UNCHANGED attestationConfig PROVE UNCHANGED attester_stake
  BY <1>3 DEF attestationConfig
<1>4. \A a : RegisterAttester(a) \/ UnregisterAttester(a) => UNCHANGED attester_stake
  BY DEF RegisterAttester, UnregisterAttester
<1>5. \A admin, m, w : SetWeightConfig(admin, m, w) => UNCHANGED attester_stake
  BY DEF SetWeightConfig
<1>6. \A current, new : TransferAdmin(current, new) => UNCHANGED attester_stake
  BY DEF TransferAdmin
<1>7. \A a, s, data, nonce : AddAttestation(a, s, data, nonce) => UNCHANGED attestationConfig
  BY DEF AddAttestation
<1>8. \A s, by, data, nonce :
        AddAttestationBatch(s, by, data, nonce) => UNCHANGED attestationConfig
  BY Zenon DEF AddAttestationBatch
<1>9. \A a, id, nonce :
        RevokeAttestation(a, id, nonce) => UNCHANGED <<attestationConfig, attestation_counter>>
  BY Zenon DEF RevokeAttestation
<1> QED
  BY <1>1, <1>2, <1>3, <1>4, <1>5, <1>6, <1>7, <1>8, <1>9 DEF AttestationsNext

LEMMA VerifiersStep == VerifiersInv /\ [AttestingNext]_AttestingVars => VerifiersInv'
<1> SUFFICES ASSUME VerifiersInv, [AttestingNext]_AttestingVars PROVE VerifiersInv'
  OBVIOUS
<1>1. attester_stake \in [Attesters -> Int] /\ verifier_role \subseteq Attesters
  BY DEF VerifiersInv, VerifiersTyped
<1>2. ASSUME AttestationsNext,
             overruled' = overruled \cup {v \in Attesters : attester_stake'[v] # attester_stake[v]},
             UNCHANGED <<min_stake, verifier_info, verifier_role, wallet>>
      PROVE  VerifiersInv'
  BY <1>1, <1>2, WeightsStayNumbers, NoRecordChanges, AttestationsAssumption
<1>3. CASE UNCHANGED AttestingVars
  BY <1>1, <1>3, NoRecordChanges
  DEF AttestingVars, attestationVars, attestationConfig, verifierVars
<1> QED
  BY <1>2, <1>3, VerifiersKeep DEF AttestingNext

(* verifier.rs: a verifier's stake is bound while he has the role, returned *)
(* no more than once, and weighs unless the admin overrules it, for any     *)
(* number of verifiers, any amounts, and whatever the admin and the         *)
(* attesters do with the keys that both modules write.                      *)
THEOREM StakesKept == AttestingSpec => []StakesAreLocked
<1>1. VerifiersInv => StakesAreLocked
  BY DEF VerifiersInv
<1> QED
  BY <1>1, VerifiersStart, VerifiersStep, PTL DEF AttestingSpec

HIDE VerifiersAssumption

-----------------------------------------------------------------------------
(***************************************************************************)
(* Governance: the voices kept of a decision are those that were counted.  *)
(***************************************************************************)
USE GovernanceAssumption

SlashRecord == [amount : Int, status : {"Open", "Executed", "Rejected"}]

Spoke(p, voice) == Cardinality({s \in DOMAIN verdict[p] : verdict[p][s] = voice})

Executed(p) == slash_proposal[p] # NoSlashProposal /\ slash_proposal[p].status = "Executed"

(* An executed slash had its majority when it was decided; nothing later    *)
(* touches a decided proposal, except a new one under its identifier after a*)
(* second initialization.                                                   *)
GovernanceInv ==
    /\ governors \in Seq(Voters)
    /\ next_slash \in Nat
    /\ DOMAIN slash_proposal = SlashIds /\ DOMAIN verdict = SlashIds
    /\ \A p \in SlashIds : Executed(p) => Spoke(p, "approve") > Spoke(p, "reject")

LEMMA GovernanceStart == GovernanceInit => GovernanceInv
<1> SUFFICES ASSUME GovernanceInit PROVE GovernanceInv
  OBVIOUS
<1>1. governors \in Seq(Voters)
  BY DEF GovernanceInit
<1>2. \A p \in SlashIds : ~Executed(p)
  BY DEF GovernanceInit, Executed
<1> QED
  BY <1>1, <1>2 DEF GovernanceInit, GovernanceInv

(* More than half of those who voted is more than those against: nobody     *)
(* votes both ways.                                                         *)
LEMMA MajorityOfVoices ==
  ASSUME governors \in Seq(Voters), NEW p \in SlashIds, IsApproved(p)
  PROVE  Seats(p, {"approve"}) > Seats(p, {"reject"})
<1> DEFINE yes == {s \in DOMAIN governors : Voice(p, s) \in {"approve"}}
           no == {s \in DOMAIN governors : Voice(p, s) \in {"reject"}}
           all == {s \in DOMAIN governors : Voice(p, s) \in {"approve", "reject"}}
<1>1. IsFiniteSet(DOMAIN governors)
  <2>1. DOMAIN governors = 1..Len(governors) /\ Len(governors) \in Nat
    OBVIOUS
  <2> QED
    BY <2>1, FS_Interval
<1>2. IsFiniteSet(yes) /\ IsFiniteSet(no)
  BY <1>1, FS_Subset
<1>3. all = yes \cup no /\ yes \cap no = {}
  OBVIOUS
<1>4. /\ Cardinality(yes) \in Nat /\ Cardinality(no) \in Nat
      /\ Cardinality(all) = Cardinality(yes) + Cardinality(no) - Cardinality(yes \cap no)
  BY <1>2, <1>3, FS_Union, FS_CardinalityType
<1>5. Cardinality(yes) > Cardinality(all) \div 2
  <2>1. Seats(p, {"approve"}) > Seats(p, {"approve", "reject"}) \div 2
    BY DEF IsApproved
  <2> QED
    BY <2>1 DEF Seats
<1> HIDE DEF yes, no, all
<1>6. Cardinality(all) = Cardinality(yes) + Cardinality(no)
  <2>1. Cardinality({}) = 0
    BY FS_EmptySet
  <2>2. Cardinality(yes \cap no) = 0
    BY <1>3, <2>1
  <2> QED
    BY <1>4, <2>2
<1>7. Cardinality(yes) > Cardinality(no)
  BY <1>4, <1>5, <1>6
<1> QED
  BY <1>7 DEF Seats, yes, no

LEMMA ExecuteSlashKeeps ==
  ASSUME GovernanceInv, NEW p \in SlashIds, ExecuteSlashIfApproved(p)
  PROVE  GovernanceInv'
<1>1. /\ governors' = governors /\ next_slash' = next_slash
      /\ DOMAIN slash_proposal' = SlashIds /\ DOMAIN verdict' = SlashIds
  BY DEF GovernanceInv, ExecuteSlashIfApproved, chamberVars
<1>2. ASSUME NEW q \in SlashIds, Executed(q)' PROVE Spoke(q, "approve")' > Spoke(q, "reject")'
  <2>1. CASE q = p
    <3>1. slash_proposal'[p].status = IF IsApproved(p) THEN "Executed" ELSE "Rejected"
      BY DEF GovernanceInv, ExecuteSlashIfApproved
    <3>2. IsApproved(p)
      BY <1>2, <2>1, <3>1 DEF Executed
    <3>3. verdict'[p] = [s \in DOMAIN governors |-> Voice(p, s)]
      BY DEF GovernanceInv, ExecuteSlashIfApproved
    <3>4. /\ Spoke(p, "approve")' = Seats(p, {"approve"})
          /\ Spoke(p, "reject")' = Seats(p, {"reject"})
      <4>1. ASSUME NEW voice
            PROVE  {s \in DOMAIN verdict'[p] : verdict'[p][s] = voice}
                   = {s \in DOMAIN governors : Voice(p, s) \in {voice}}
        BY <3>3
      <4> QED
        BY <4>1 DEF Spoke, Seats
    <3> QED
      BY <2>1, <3>2, <3>4, MajorityOfVoices DEF GovernanceInv
  <2>2. CASE q # p
    <3>1. slash_proposal'[q] = slash_proposal[q] /\ verdict'[q] = verdict[q]
      BY <2>2 DEF GovernanceInv, ExecuteSlashIfApproved
    <3> QED
      BY <1>2, <3>1 DEF GovernanceInv, Executed, Spoke
  <2> QED
    BY <2>1, <2>2
<1> QED
  BY <1>1, <1>2 DEF GovernanceInv

(* A new proposal is open, whatever was decided under its identifier.       *)
LEMMA ProposeKeeps ==
  ASSUME GovernanceInv, NEW amount \in SlashAmounts, ProposeSlash(amount)
  PROVE  GovernanceInv'
<1>1. /\ governors' = governors /\ next_slash' = next_slash + 1
      /\ DOMAIN slash_proposal' = SlashIds /\ DOMAIN verdict' = SlashIds
  BY DEF GovernanceInv, ProposeSlash, chamberVars
<1>2. ASSUME NEW q \in SlashIds, Executed(q)' PROVE Spoke(q, "approve")' > Spoke(q, "reject")'
  <2>1. CASE q = next_slash
    <3>1. slash_proposal'[q].status = "Open"
      BY <2>1 DEF GovernanceInv, ProposeSlash
    <3> QED
      BY <1>2, <3>1 DEF Executed
  <2>2. CASE q # next_slash
    <3>1. slash_proposal'[q] = slash_proposal[q] /\ verdict'[q] = verdict[q]
      BY <2>2 DEF GovernanceInv, ProposeSlash
    <3> QED
      BY <1>2, <3>1 DEF GovernanceInv, Executed, Spoke
  <2> QED
    BY <2>1, <2>2
<1> QED
  BY <1>1, <1>2 DEF GovernanceInv

LEMMA GovernanceStep == GovernanceInv /\ [GovernanceNext]_governanceVars => GovernanceInv'
<1> SUFFICES ASSUME GovernanceInv, [GovernanceNext]_governanceVars PROVE GovernanceInv'
  OBVIOUS
<1>1. ASSUME UNCHANGED <<slash_proposal, verdict>>, governors' \in Seq(Voters), next_slash' \in Nat
      PROVE  GovernanceInv'
  BY <1>1 DEF GovernanceInv, Executed, Spoke
<1>2. ASSUME NEW list \in GovernorLists, NEW rule \in QuorumRules, InitializeGovernance(list, rule)
      PROVE  GovernanceInv'
  BY <1>1, <1>2 DEF InitializeGovernance
<1>3. ASSUME UNCHANGED <<governors, next_slash, slash_proposal, verdict>> PROVE GovernanceInv'
  BY <1>1, <1>3 DEF GovernanceInv
<1>4. ASSUME NEW v \in Voters, NEW p \in SlashIds, NEW ballot \in {"approve", "reject"},
             Vote(v, p, ballot)
      PROVE  GovernanceInv'
  BY <1>3, <1>4 DEF Vote, chamberVars
<1>5. ASSUME NEW g \in Voters, NEW to \in Voters, Delegate(g, to) PROVE GovernanceInv'
  BY <1>3, <1>5 DEF Delegate, chamberVars
<1>6. CASE UNCHANGED governanceVars
  BY <1>3, <1>6 DEF governanceVars, chamberVars
<1> QED
  BY <1>2, <1>4, <1>5, <1>6, ProposeKeeps, ExecuteSlashKeeps DEF GovernanceNext

(* governance_approval.rs, is_approved: for any number of governors, listed *)
(* once or more, any delegations and any quorum rule.                       *)
THEOREM VerdictsKept == GovernanceSpec => []VerdictsMatchVoices
<1>1. GovernanceInv => VerdictsMatchVoices
  BY DEF GovernanceInv, Executed, Spoke, VerdictsMatchVoices
<1> QED
  BY <1>1, GovernanceStart, GovernanceStep, PTL DEF GovernanceSpec

HIDE GovernanceAssumption

-----------------------------------------------------------------------------
(***************************************************************************)
(* Drain: what waits was scheduled a full delay after every drain so far.  *)
(***************************************************************************)
USE LedgerAssumption, DrainAssumption

DrainRecord == [amount : Int, recipient : Treasuries \cup {NoTreasury},
                timestamp : Nat, scheduled_eta : Nat]

DrainsTyped == now \in Nat /\ drain_eta \in Nat \cup {NoEta} /\ drains \in Seq(DrainRecord)

DrainWaits == drain_eta # NoEta =>
    /\ drain_eta >= DrainTimelock
    /\ \A i \in DOMAIN drains : drain_eta >= drains[i].timestamp + DrainTimelock

DrainsInv ==
    /\ DrainsTyped /\ DrainWaits /\ DrainsApart
    /\ \A i \in DOMAIN drains : drains[i].timestamp <= now

DrainsNext == (DrainNext /\ UNCHANGED now) \/ (Tick /\ UNCHANGED drainVars)

LEMMA TimesOfDrains ==
  ASSUME drains \in Seq(DrainRecord)
  PROVE  /\ DOMAIN drains = 1..Len(drains) /\ Len(drains) \in Nat
         /\ \A i \in DOMAIN drains : drains[i].timestamp \in Nat
<1>1. /\ DOMAIN drains = 1..Len(drains) /\ Len(drains) \in Nat
      /\ \A i \in DOMAIN drains : drains[i] \in DrainRecord
  OBVIOUS
<1>2. \A r \in DrainRecord : r.timestamp \in Nat
  BY DEF DrainRecord
<1> QED
  BY <1>1, <1>2

LEMMA DrainsStart == LedgerInit /\ DrainInit => DrainsInv
<1> SUFFICES ASSUME LedgerInit, DrainInit PROVE DrainsInv
  OBVIOUS
<1>1. now = 1 /\ drain_eta = NoEta /\ drains = <<>>
  BY DEF LedgerInit, DrainInit
<1> QED
  BY <1>1 DEF DrainsInv, DrainsTyped, DrainWaits, DrainsApart

(* A drain goes out at or after its schedule, which is a delay after the    *)
(* drains before.                                                           *)
LEMMA ExecuteDrainKeeps ==
  ASSUME DrainsInv, NEW amount \in DrainAmounts, NEW t \in Treasuries,
         ExecuteDrain(amount, t), UNCHANGED now
  PROVE  DrainsInv'
<1> DEFINE record == [amount |-> amount, recipient |-> t, timestamp |-> now,
                      scheduled_eta |-> drain_eta]
<1>1. /\ drain_eta # NoEta /\ now >= drain_eta /\ t = emergency_config.treasury
      /\ drain_eta' = NoEta
      /\ drains' = Append(drains, [amount |-> amount, recipient |-> t, timestamp |-> now,
                                   scheduled_eta |-> drain_eta])
  BY DEF ExecuteDrain
<1>2. now \in Nat /\ drain_eta \in Nat /\ drains \in Seq(DrainRecord)
  BY <1>1 DEF DrainsInv, DrainsTyped
<1>3. record \in DrainRecord /\ record.timestamp = now
  BY <1>2 DEF DrainRecord
<1> HIDE DEF record
<1>4. /\ drains' \in Seq(DrainRecord) /\ DOMAIN drains' = 1..(Len(drains) + 1)
      /\ \A i \in DOMAIN drains : drains'[i] = drains[i]
      /\ drains'[Len(drains) + 1] = record
  BY <1>1, <1>2, <1>3 DEF record
<1>5. /\ DOMAIN drains = 1..Len(drains) /\ Len(drains) \in Nat
      /\ \A i \in DOMAIN drains' : i \in DOMAIN drains \/ i = Len(drains) + 1
      /\ \A i \in DOMAIN drains : drains[i].timestamp \in Nat
  BY <1>2, <1>4, TimesOfDrains
<1>6. \A i \in DOMAIN drains : now >= drains[i].timestamp + DrainTimelock
  BY <1>1, <1>2, <1>5 DEF DrainsInv, DrainWaits
<1>7. now >= DrainTimelock
  BY <1>1, <1>2 DEF DrainsInv, DrainWaits
<1>8. DrainsApart'
  <2>1. \A i \in DOMAIN drains' : drains'[i].timestamp >= DrainTimelock
    BY <1>3, <1>4, <1>5, <1>7 DEF DrainsInv, DrainsApart
  <2>2. ASSUME NEW i \in DOMAIN drains', NEW j \in DOMAIN drains', i < j
        PROVE  drains'[j].timestamp >= drains'[i].timestamp + DrainTimelock
    <3>1. i \in DOMAIN drains
      BY <1>4, <1>5, <2>2
    <3>2. CASE j \in DOMAIN drains
      BY <1>4, <2>2, <3>1, <3>2 DEF DrainsInv, DrainsApart
    <3>3. CASE j = Len(drains) + 1
      BY <1>3, <1>4, <1>6, <3>1, <3>3
    <3> QED
      BY <1>5, <3>2, <3>3
  <2> QED
    BY <2>1, <2>2 DEF DrainsApart
<1>9. \A i \in DOMAIN drains' : drains'[i].timestamp <= now'
  BY <1>2, <1>3, <1>4, <1>5 DEF DrainsInv
<1> QED
  BY <1>1, <1>2, <1>4, <1>8, <1>9 DEF DrainsInv, DrainsTyped, DrainWaits

LEMMA DrainsStep == DrainsInv /\ [DrainsNext]_<<now, drainVars>> => DrainsInv'
<1> SUFFICES ASSUME DrainsInv, [DrainsNext]_<<now, drainVars>> PROVE DrainsInv'
  OBVIOUS
<1>1. /\ now \in Nat /\ drains \in Seq(DrainRecord)
      /\ \A i \in DOMAIN drains : drains[i].timestamp \in Nat
  BY TimesOfDrains DEF DrainsInv, DrainsTyped
<1>2. ASSUME UNCHANGED <<now, drains>>, drain_eta' = NoEta \/ drain_eta' = drain_eta
      PROVE  DrainsInv'
  BY <1>2 DEF DrainsInv, DrainsTyped, DrainWaits, DrainsApart
<1>3. ASSUME NEW delay \in DrainDelays, ScheduleDrain(delay), UNCHANGED now PROVE DrainsInv'
  <2>1. /\ delay >= DrainTimelock /\ drain_eta' = now + delay /\ drains' = drains
        /\ delay \in Nat
    BY <1>3 DEF ScheduleDrain
  <2>2. DrainWaits'
    BY <1>1, <2>1 DEF DrainsInv, DrainWaits
  <2> QED
    BY <1>1, <1>3, <2>1, <2>2 DEF DrainsInv, DrainsTyped, DrainsApart
<1>4. ASSUME NEW amount \in DrainAmounts, NEW t \in Treasuries, ExecuteDrain(amount, t),
             UNCHANGED now
      PROVE  DrainsInv'
  BY <1>4, ExecuteDrainKeeps
<1>5. CASE Tick /\ UNCHANGED drainVars
  <2>1. now' = now + 1 /\ drain_eta' = drain_eta /\ drains' = drains
    BY <1>5 DEF Tick, drainVars
  <2> QED
    BY <1>1, <2>1 DEF DrainsInv, DrainsTyped, DrainWaits, DrainsApart
<1>6. CASE UNCHANGED <<now, drainVars>>
  BY <1>2, <1>6 DEF drainVars
<1>7. CASE DrainNext /\ UNCHANGED now
  BY <1>2, <1>3, <1>4, <1>7
  DEF DrainNext, SwitchPause, BalanceChanges, SetEmergencyConfig, SetEmergencyEnabled, CancelDrain
<1> QED
  BY <1>5, <1>6, <1>7 DEF DrainsNext

(* docs/emergency-drain.md, Multiple sequential drains: for every delay and *)
(* any number of schedules, replacements, cancellations, pauses and drains. *)
THEOREM DrainsKeptApart == DrainSpec => []DrainsApart
<1>1. DrainSpec => []DrainsInv
  BY DrainsStart, DrainsStep, PTL DEF DrainSpec, DrainsNext
<1>2. DrainsInv => DrainsApart
  BY DEF DrainsInv
<1> QED
  BY <1>1, <1>2, PTL

HIDE DrainAssumption
HIDE LedgerAssumption

-----------------------------------------------------------------------------
(***************************************************************************)
(* Evidence: one piece for each hash, in the list of its proposal.         *)
(***************************************************************************)
(* The pieces that evidence.rs stores and the identifiers given out.        *)
Piece == [case : Cases, hash : Hashes, by : Submitters]
Filed == 0 .. evidence_counter - 1

(* What evidence.rs stores.                                                 *)
EvidenceTyped ==
    /\ evidence_counter \in 0 .. MaxEvidence
    /\ evidence \in [EvidenceIds -> Piece \cup {NoEvidence}]
    /\ \A id \in EvidenceIds : evidence[id] # NoEvidence <=> id \in Filed
    /\ case_evidence \in [Cases -> Seq(Int)]

(* A hash is marked once a piece with it was filed.                         *)
HashesSeen ==
    /\ hash_seen = {evidence[id].hash : id \in Filed}
    /\ IsFiniteSet(hash_seen) /\ Cardinality(hash_seen) = evidence_counter
    /\ \A i, j \in Filed : evidence[i].hash = evidence[j].hash => i = j

(* The list of a proposal has its pieces in the order of filing.            *)
CaseLists == \A p \in Cases :
    /\ Lists(case_evidence[p], {id \in Filed : evidence[id].case = p})
    /\ Ascending(case_evidence[p])

EvidenceInv == EvidenceTyped /\ HashesSeen /\ CaseLists

LEMMA EvidenceStarts == EvidenceInit => EvidenceInv
<1> SUFFICES ASSUME EvidenceInit PROVE EvidenceInv
  OBVIOUS
<1>1. Filed = {} /\ 0 .. -1 = {}
  BY DEF EvidenceInit, Filed
<1>2. EvidenceTyped
  BY <1>1, EvidenceAssumption DEF EvidenceInit, EvidenceTyped
<1>3. HashesSeen
  BY <1>1, FS_EmptySet DEF EvidenceInit, HashesSeen
<1>4. CaseLists
  <2>1. Ascending(<<>>)
    BY DEF Ascending
  <2> QED
    BY <1>1, <2>1, ListsEmpty DEF EvidenceInit, CaseLists
<1> QED
  BY <1>2, <1>3, <1>4 DEF EvidenceInv

(* submit_evidence files one piece under a new identifier.                  *)
LEMMA EvidenceSubmitted ==
    ASSUME EvidenceInv, NEW by \in Submitters, NEW p \in Cases, NEW hash \in Hashes,
           NEW valid \in BOOLEAN, SubmitEvidence(by, p, hash, valid)
    PROVE  EvidenceInv'
<1> DEFINE n == evidence_counter
           piece == [case |-> p, hash |-> hash, by |-> by]
<1>1. /\ n \in Nat /\ n < MaxEvidence /\ n \in EvidenceIds /\ n \notin Filed
      /\ evidence_counter' = n + 1 /\ Filed' = Filed \cup {n}
      /\ Filed \subseteq EvidenceIds
  BY EvidenceAssumption DEF EvidenceInv, EvidenceTyped, SubmitEvidence, EvidenceIds, Filed
<1>2. /\ piece \in Piece /\ piece # NoEvidence
      /\ piece.case = p /\ piece.hash = hash
  BY EvidenceAssumption DEF Piece
<1> HIDE DEF piece
<1>3. /\ evidence' = [evidence EXCEPT ![n] = piece]
      /\ case_evidence' = [case_evidence EXCEPT ![p] = Append(@, n)]
      /\ hash_seen' = hash_seen \cup {hash} /\ hash \notin hash_seen
  BY DEF SubmitEvidence, piece
<1>4. /\ evidence'[n] = piece
      /\ \A id \in EvidenceIds : id # n => evidence'[id] = evidence[id]
  BY <1>1, <1>3 DEF EvidenceInv, EvidenceTyped
<1>5. EvidenceTyped'
  <2>1. evidence' \in [EvidenceIds -> Piece \cup {NoEvidence}]
    BY <1>2, <1>3 DEF EvidenceInv, EvidenceTyped
  <2>2. evidence_counter' \in 0 .. MaxEvidence
    BY <1>1, EvidenceAssumption
  <2>3. case_evidence' \in [Cases -> Seq(Int)]
    BY <1>1, <1>3 DEF EvidenceInv, EvidenceTyped
  <2>4. \A id \in EvidenceIds : evidence'[id] # NoEvidence <=> id \in Filed'
    BY <1>1, <1>2, <1>4 DEF EvidenceInv, EvidenceTyped
  <2> QED
    BY <2>1, <2>2, <2>3, <2>4 DEF EvidenceTyped
<1>6. HashesSeen'
  <2>1. hash_seen' = {evidence'[id].hash : id \in Filed'}
    BY <1>1, <1>2, <1>3, <1>4 DEF EvidenceInv, HashesSeen
  <2>2. IsFiniteSet(hash_seen') /\ Cardinality(hash_seen') = n + 1
    BY <1>3, FS_AddElement DEF EvidenceInv, HashesSeen
  <2>3. ASSUME NEW i \in Filed', NEW j \in Filed', evidence'[i].hash = evidence'[j].hash
        PROVE  i = j
    <3>1. \A k \in Filed : evidence'[k].hash \in hash_seen /\ evidence'[k] = evidence[k]
      BY <1>1, <1>4 DEF EvidenceInv, HashesSeen
    <3>2. evidence'[n].hash \notin hash_seen
      BY <1>2, <1>3, <1>4
    <3> QED
      BY <1>1, <2>3, <3>1, <3>2 DEF EvidenceInv, HashesSeen
  <2> QED
    BY <1>1, <2>1, <2>2, <2>3 DEF HashesSeen
<1>7. ASSUME NEW q \in Cases
      PROVE  /\ Lists(case_evidence'[q], {id \in Filed' : evidence'[id].case = q})
             /\ Ascending(case_evidence'[q])
  <2> DEFINE mine == {id \in Filed : evidence[id].case = q}
             list == case_evidence[q]
  <2>1. list \in Seq(Int) /\ Lists(list, mine) /\ Ascending(list)
    BY DEF EvidenceInv, EvidenceTyped, CaseLists
  <2>2. CASE q = p
    <3>1. {id \in Filed' : evidence'[id].case = q} = mine \cup {n}
      BY <1>1, <1>2, <1>4, <2>2
    <3>2. case_evidence'[q] = Append(list, n)
      BY <1>3, <2>2 DEF EvidenceInv, EvidenceTyped
    <3>3. n \notin mine /\ n \in Int
      BY <1>1
    <3>4. \A i \in 1 .. Len(list) : list[i] < n
      <4>1. \A i \in 1 .. Len(list) : list[i] \in mine
        BY <2>1 DEF Lists, ToSet
      <4> QED
        BY <1>1, <4>1 DEF Filed
    <3> HIDE DEF mine, list
    <3> QED
      BY <2>1, <3>1, <3>2, <3>3, <3>4, ListsAppend, AscendingAppend
  <2>3. CASE q # p
    <3>1. {id \in Filed' : evidence'[id].case = q} = mine
      BY <1>1, <1>2, <1>4, <2>3
    <3>2. case_evidence'[q] = list
      BY <1>3, <2>3 DEF EvidenceInv, EvidenceTyped
    <3> QED
      BY <2>1, <3>1, <3>2
  <2> QED
    BY <2>2, <2>3
<1> QED
  BY <1>5, <1>6, <1>7 DEF EvidenceInv, CaseLists

LEMMA EvidenceImplies == EvidenceInv => EvidenceFiledOnce
<1> SUFFICES ASSUME EvidenceInv PROVE EvidenceFiledOnce
  OBVIOUS
<1>1. {id \in EvidenceIds : evidence[id] # NoEvidence} = Filed
  BY EvidenceAssumption DEF EvidenceInv, EvidenceTyped, EvidenceIds, Filed
<1>2. ASSUME NEW p \in Cases, NEW i \in DOMAIN Details(p), NEW j \in DOMAIN Details(p), i < j
      PROVE  Details(p)[i].hash # Details(p)[j].hash
  <2> DEFINE list == case_evidence[p]
  <2>1. list \in Seq(Int) /\ Ascending(list)
        /\ Lists(list, {id \in Filed : evidence[id].case = p})
    BY DEF EvidenceInv, EvidenceTyped, CaseLists
  <2>2. i \in DOMAIN list /\ j \in DOMAIN list /\ DOMAIN list = 1 .. Len(list)
    BY <1>2, <2>1 DEF Details
  <2>3. list[i] \in Filed /\ list[j] \in Filed
    BY <2>1, <2>2 DEF Lists, ToSet
  <2>4. list[i] # list[j]
    BY <1>2, <2>1, <2>2 DEF Lists, IsInjective
  <2>5. Details(p)[i] = evidence[list[i]] /\ Details(p)[j] = evidence[list[j]]
    BY <2>2 DEF Details
  <2> QED
    BY <2>3, <2>4, <2>5 DEF EvidenceInv, HashesSeen
<1> QED
  BY <1>1, <1>2 DEF EvidenceFiledOnce, EvidenceInv, HashesSeen, CaseLists, Filed

(* evidence.rs, submit_evidence: every piece of evidence is filed once, in  *)
(* order, under its own proposal, for any number of pieces and proposals.   *)
THEOREM EvidenceKeptOnce == EvidenceSpec => []EvidenceFiledOnce
<1>1. EvidenceInv /\ [EvidenceNext]_evidenceVars => EvidenceInv'
  <2> SUFFICES ASSUME EvidenceInv, [EvidenceNext]_evidenceVars PROVE EvidenceInv'
    OBVIOUS
  <2>1. CASE EvidenceNext
    BY <2>1, EvidenceSubmitted DEF EvidenceNext
  <2>2. CASE UNCHANGED evidenceVars
    BY <2>2 DEF evidenceVars, EvidenceInv, EvidenceTyped, HashesSeen, CaseLists, Filed
  <2> QED
    BY <2>1, <2>2
<1> QED
  BY <1>1, EvidenceStarts, EvidenceImplies, PTL DEF EvidenceSpec

-----------------------------------------------------------------------------
(***************************************************************************)
(* Upgrades: the list of upgraders, and the chain of implementations.      *)
(***************************************************************************)
(* The records that upgrade_auth.rs stores.                                 *)
Auth == [role : {"Upgrader", "Proposer"}, expires_at : Nat, active : BOOLEAN]
Proposal == [new : Implementations, required : Nat, approvals : Seq(Officers),
             status : {"Pending", "Approved", "Executed"}]
Upgraded == [old : Implementations, new : Implementations, proposal : Nat]

(* The authorizations and the list of the upgraders.                        *)
AuthTyped ==
    /\ upgrade_admin \in Officers \cup {NoOfficer}
    /\ upgrade_auth \in [Officers -> Auth \cup {NoAuth}]
    /\ upgraders \in Seq(Officers)

(* The proposals and the history.                                           *)
HistoryTyped ==
    /\ implementation \in Implementations
    /\ upgrade_proposals \in Seq(Proposal) /\ upgrade_history \in Seq(Upgraded)

(* Who is authorized as an upgrader at present.                             *)
IsUpgrader(a) == upgrade_auth[a] # NoAuth /\ upgrade_auth[a].active
                 /\ upgrade_auth[a].role = "Upgrader"
UpgraderSet == {a \in Officers : IsUpgrader(a)}

(* Before the first admin nobody was authorized and nothing upgraded.       *)
Undeployed == upgrade_admin = NoOfficer =>
    /\ \A a \in Officers : upgrade_auth[a] = NoAuth
    /\ upgrade_proposals = <<>> /\ upgrade_history = <<>>
    /\ implementation = FirstImplementation

(* The upgrades of the history that name a proposal: one if it was executed.*)
ExecutedIn(p) == {i \in DOMAIN upgrade_history : upgrade_history[i].proposal = p}
ProposalsSpent ==
    /\ \A p \in DOMAIN upgrade_proposals :
          IF upgrade_proposals[p].status = "Executed" THEN \E i : ExecutedIn(p) = {i}
          ELSE ExecutedIn(p) = {}
    /\ \A i \in DOMAIN upgrade_history : upgrade_history[i].proposal <= Len(upgrade_proposals)

(* Each upgrade starts from the implementation the one before installed.    *)
Chain ==
    /\ \A i \in DOMAIN upgrade_history : upgrade_history[i].old =
          IF i = 1 THEN FirstImplementation ELSE upgrade_history[i - 1].new
    /\ implementation = IF upgrade_history = <<>> THEN FirstImplementation
                        ELSE upgrade_history[Len(upgrade_history)].new

AuthInv == AuthTyped /\ UpgradersListed
HistoryInv == HistoryTyped /\ Chain /\ ProposalsSpent
UpgradeInv == AuthInv /\ HistoryInv /\ Undeployed

(* An authorization is not the absence of one.                              *)
LEMMA AuthFields ==
    ASSUME NEW r \in Auth
    PROVE  r # NoAuth /\ r.role \in {"Upgrader", "Proposer"} /\ r.active \in BOOLEAN
BY UpgradeAssumption DEF Auth

LEMMA UpgradeStarts == UpgradeInit => UpgradeInv
<1> SUFFICES ASSUME UpgradeInit PROVE UpgradeInv
  OBVIOUS
<1>1. AuthTyped /\ HistoryTyped
  BY UpgradeAssumption DEF UpgradeInit, AuthTyped, HistoryTyped
<1>2. UpgradersListed
  <2>1. {a \in Officers : /\ upgrade_auth[a] # NoAuth
                          /\ upgrade_auth[a].active
                          /\ upgrade_auth[a].role = "Upgrader"} = {}
    BY DEF UpgradeInit
  <2> QED
    BY <2>1, ListsEmpty DEF UpgradeInit, UpgradersListed
<1>3. Chain /\ ProposalsSpent
  BY DEF UpgradeInit, Chain, ProposalsSpent
<1> QED
  BY <1>1, <1>2, <1>3 DEF UpgradeInit, UpgradeInv, AuthInv, HistoryInv, Undeployed

LEMMA ListedUpgraders ==
    ASSUME AuthInv
    PROVE  /\ upgraders \in Seq(Officers) /\ Lists(upgraders, UpgraderSet)
           /\ upgrade_admin # NoOfficer => upgraders # <<>>
BY DEF AuthInv, AuthTyped, UpgradersListed, UpgraderSet, IsUpgrader

(* One authorization changes, and the list with it.                         *)
LEMMA OneAuthChanges ==
    ASSUME AuthInv, NEW a \in Officers, NEW auth \in Auth,
           upgrade_auth' = [upgrade_auth EXCEPT ![a] = auth],
           upgraders' \in Seq(Officers), upgraders' # <<>>,
           Lists(upgraders', IF auth.active /\ auth.role = "Upgrader"
                             THEN UpgraderSet \cup {a} ELSE UpgraderSet \ {a}),
           upgrade_admin' \in Officers \cup {NoOfficer}
    PROVE  AuthInv'
<1>1. /\ upgrade_auth'[a] = auth
      /\ \A b \in Officers \ {a} : upgrade_auth'[b] = upgrade_auth[b]
      /\ upgrade_auth' \in [Officers -> Auth \cup {NoAuth}]
  BY DEF AuthInv, AuthTyped
<1>2. /\ IsUpgrader(a)' <=> auth.active /\ auth.role = "Upgrader"
      /\ \A b \in Officers \ {a} : IsUpgrader(b)' <=> IsUpgrader(b)
  BY <1>1, AuthFields DEF IsUpgrader
<1>3. UpgraderSet' = IF auth.active /\ auth.role = "Upgrader"
                     THEN UpgraderSet \cup {a} ELSE UpgraderSet \ {a}
  BY <1>2 DEF UpgraderSet
<1>4. Lists(upgraders', UpgraderSet')
  BY <1>3
<1> QED
  BY <1>1, <1>4 DEF AuthInv, AuthTyped, UpgradersListed, UpgraderSet, IsUpgrader

(* initialize authorizes the first admin, when nobody is.                   *)
LEMMA UpgradeFounded ==
    ASSUME UpgradeInv, NEW a \in Officers, InitializeUpgradeAuth(a)
    PROVE  UpgradeInv'
<1>1. /\ upgrade_admin = NoOfficer /\ upgrade_admin' = a
      /\ upgrade_auth' = [upgrade_auth EXCEPT ![a] = Authorization("Upgrader", 0)]
      /\ upgraders' = <<a>> /\ upgrade_proposals' = <<>> /\ upgrade_history' = <<>>
      /\ implementation' = implementation
  BY DEF InitializeUpgradeAuth
<1>2. Authorization("Upgrader", 0) \in Auth
      /\ Authorization("Upgrader", 0).active /\ Authorization("Upgrader", 0).role = "Upgrader"
  BY DEF Authorization, Auth
<1>3. UpgraderSet = {}
  BY <1>1 DEF UpgradeInv, Undeployed, UpgraderSet, IsUpgrader
<1>4. Lists(<<a>>, UpgraderSet \cup {a})
  BY <1>3 DEF Lists, ToSet, IsInjective
<1>5. AuthInv'
  <2>1. upgraders' \in Seq(Officers) /\ upgraders' # <<>>
    BY <1>1
  <2> QED
    BY <1>1, <1>2, <1>4, <2>1, OneAuthChanges DEF UpgradeInv
<1>6. HistoryInv'
  BY <1>1 DEF UpgradeInv, Undeployed, HistoryInv, HistoryTyped, Chain, ProposalsSpent
<1> QED
  BY <1>1, <1>5, <1>6, UpgradeAssumption DEF UpgradeInv, Undeployed

(* grant_upgrade_auth lists who was not an upgrader yet.                    *)
LEMMA AuthGranted ==
    ASSUME UpgradeInv, NEW admin \in Officers, NEW a \in Officers,
           NEW role \in {"Upgrader", "Proposer"}, NEW t \in Expiries,
           GrantUpgradeAuth(admin, a, role, t)
    PROVE  UpgradeInv'
<1>1. /\ upgrade_admin = admin /\ upgrade_admin' = upgrade_admin
      /\ upgrade_auth[a] = NoAuth
      /\ upgrade_auth' = [upgrade_auth EXCEPT ![a] = Authorization(role, t)]
      /\ upgraders' = IF role = "Upgrader" THEN Append(upgraders, a) ELSE upgraders
      /\ UNCHANGED <<upgrade_proposals, implementation, upgrade_history>>
  BY DEF GrantUpgradeAuth
<1>2. Authorization(role, t) \in Auth
      /\ Authorization(role, t).active /\ Authorization(role, t).role = role
  BY UpgradeAssumption DEF Authorization, Auth
<1>3. a \notin UpgraderSet /\ upgrade_admin # NoOfficer
  BY <1>1, UpgradeAssumption DEF UpgraderSet, IsUpgrader
<1>4. /\ upgraders \in Seq(Officers) /\ Lists(upgraders, UpgraderSet) /\ upgraders # <<>>
  BY <1>3, ListedUpgraders DEF UpgradeInv
<1>5. AuthInv'
  <2>1. CASE role = "Upgrader"
    <3>1. /\ upgraders' \in Seq(Officers) /\ upgraders' # <<>>
          /\ Lists(upgraders', UpgraderSet \cup {a})
      BY <1>1, <1>3, <1>4, <2>1, ListsAppend
    <3> QED
      BY <1>1, <1>2, <2>1, <3>1, OneAuthChanges DEF UpgradeInv
  <2>2. CASE role # "Upgrader"
    <3>1. UpgraderSet \ {a} = UpgraderSet
      BY <1>3
    <3> QED
      BY <1>1, <1>2, <1>4, <2>2, <3>1, OneAuthChanges DEF UpgradeInv
  <2> QED
    BY <2>1, <2>2
<1> QED
  BY <1>1, <1>3, <1>5 DEF UpgradeInv, Undeployed, HistoryInv, HistoryTyped, Chain,
                         ProposalsSpent, ExecutedIn

(* revoke_upgrade_auth builds the list anew without him.                    *)
LEMMA AuthRevoked ==
    ASSUME UpgradeInv, NEW admin \in Officers, NEW a \in Officers, RevokeUpgradeAuth(admin, a)
    PROVE  UpgradeInv'
<1> DEFINE auth == [upgrade_auth[a] EXCEPT !.active = FALSE]
<1>1. /\ upgrade_admin = admin /\ upgrade_admin' = upgrade_admin
      /\ upgrade_auth[a] # NoAuth
      /\ upgrade_auth' = [upgrade_auth EXCEPT ![a].active = FALSE]
      /\ \/ upgrade_auth[a].role = "Proposer" /\ upgraders' = upgraders
         \/ /\ upgrade_auth[a].role = "Upgrader" /\ Len(upgraders) > 1
            /\ upgraders' = Without(upgraders, {a})
      /\ UNCHANGED <<upgrade_proposals, implementation, upgrade_history>>
  BY DEF RevokeUpgradeAuth
<1>2. upgrade_auth[a] \in Auth
  BY <1>1 DEF UpgradeInv, AuthInv, AuthTyped
<1>3. auth \in Auth /\ ~auth.active
  BY <1>2 DEF Auth
<1>4. upgrade_auth' = [upgrade_auth EXCEPT ![a] = auth]
  BY <1>1
<1> HIDE DEF auth
<1>5. upgrade_admin # NoOfficer
  BY <1>1, UpgradeAssumption
<1>6. /\ upgraders \in Seq(Officers) /\ Lists(upgraders, UpgraderSet) /\ upgraders # <<>>
  BY <1>5, ListedUpgraders DEF UpgradeInv
<1>7. /\ upgraders' \in Seq(Officers) /\ upgraders' # <<>>
      /\ Lists(upgraders', UpgraderSet \ {a})
  <2>1. CASE upgrade_auth[a].role = "Proposer" /\ upgraders' = upgraders
    <3>1. UpgraderSet \ {a} = UpgraderSet
      BY <2>1 DEF UpgraderSet, IsUpgrader
    <3> QED
      BY <1>6, <2>1, <3>1
  <2>2. CASE Len(upgraders) > 1 /\ upgraders' = Without(upgraders, {a})
    <3>1. upgraders' \in Seq(Officers) /\ Lists(upgraders', UpgraderSet \ {a})
      BY <1>6, <2>2, ListsWithout
    <3>2. PICK b \in UpgraderSet : b # a
      <4>1. 1 \in DOMAIN upgraders /\ 2 \in DOMAIN upgraders
        BY <1>6, <2>2
      <4>2. upgraders[1] # upgraders[2]
        BY <1>6, <4>1 DEF Lists, IsInjective
      <4>3. upgraders[1] \in UpgraderSet /\ upgraders[2] \in UpgraderSet
        BY <1>6, <4>1 DEF Lists, ToSet
      <4> QED
        BY <4>2, <4>3
    <3>3. upgraders' # <<>>
      BY <3>1, <3>2 DEF Lists, ToSet
    <3> QED
      BY <3>1, <3>3
  <2> QED
    BY <1>1, <2>1, <2>2
<1>8. AuthInv'
  BY <1>1, <1>3, <1>4, <1>7, OneAuthChanges DEF UpgradeInv, AuthInv, AuthTyped
<1> QED
  BY <1>1, <1>5, <1>8 DEF UpgradeInv, Undeployed, HistoryInv, HistoryTyped, Chain,
                         ProposalsSpent, ExecutedIn

(* accept_admin authorizes the new admin as well.                           *)
LEMMA UpgradeAdminAccepted ==
    ASSUME UpgradeInv, NEW a \in Officers, AcceptUpgradeAdmin(a)
    PROVE  UpgradeInv'
<1>1. /\ upgrade_admin # NoOfficer /\ upgrade_admin' = a
      /\ upgrade_auth' = [upgrade_auth EXCEPT ![a] = Authorization("Upgrader", 0)]
      /\ upgraders' = Enlist(a)
      /\ UNCHANGED <<upgrade_proposals, implementation, upgrade_history>>
  BY DEF AcceptUpgradeAdmin
<1>2. Authorization("Upgrader", 0) \in Auth
      /\ Authorization("Upgrader", 0).active /\ Authorization("Upgrader", 0).role = "Upgrader"
  BY DEF Authorization, Auth
<1>3. /\ upgraders \in Seq(Officers) /\ Lists(upgraders, UpgraderSet) /\ upgraders # <<>>
  BY <1>1, ListedUpgraders DEF UpgradeInv
<1>4. /\ upgraders' \in Seq(Officers) /\ upgraders' # <<>>
      /\ Lists(upgraders', UpgraderSet \cup {a})
  <2>1. Contains(upgraders, a) <=> a \in UpgraderSet
    BY <1>3, ListsContains
  <2>2. CASE a \in UpgraderSet
    <3>1. UpgraderSet \cup {a} = UpgraderSet
      BY <2>2
    <3> QED
      BY <1>1, <1>3, <2>1, <2>2, <3>1 DEF Enlist
  <2>3. CASE a \notin UpgraderSet
    <3>1. upgraders' = Append(upgraders, a)
      BY <1>1, <2>1, <2>3 DEF Enlist
    <3> QED
      BY <1>3, <2>3, <3>1, ListsAppend
  <2> QED
    BY <2>2, <2>3
<1>5. AuthInv'
  BY <1>1, <1>2, <1>4, OneAuthChanges DEF UpgradeInv
<1>6. upgrade_admin' # NoOfficer
  BY <1>1, UpgradeAssumption
<1> QED
  BY <1>1, <1>5, <1>6 DEF UpgradeInv, Undeployed, HistoryInv, HistoryTyped, Chain,
                         ProposalsSpent, ExecutedIn

(* What concerns the proposals leaves the authorizations alone; somebody    *)
(* was authorized, hence there was an admin.                                *)
LEMMA AuthLeftAlone ==
    ASSUME UpgradeInv, NEW a \in Officers, InForce(a), UNCHANGED authVars, HistoryInv'
    PROVE  UpgradeInv'
<1>1. upgrade_admin # NoOfficer
  BY DEF InForce, UpgradeInv, Undeployed
<1> QED
  BY <1>1 DEF authVars, UpgradeInv, AuthInv, AuthTyped, UpgradersListed, Undeployed

(* propose_upgrade, under the next identifier.                              *)
LEMMA UpgradeProposed ==
    ASSUME UpgradeInv, NEW a \in Officers, NEW new \in Implementations, NEW required \in Required,
           ProposeUpgrade(a, new, required)
    PROVE  UpgradeInv'
<1> DEFINE proposal == [new |-> new, required |-> required, approvals |-> <<>>,
                        status |-> "Pending"]
           n == Len(upgrade_proposals)
<1>1. /\ InForce(a) /\ UNCHANGED authVars /\ UNCHANGED <<implementation, upgrade_history>>
      /\ upgrade_proposals' = Append(upgrade_proposals, proposal)
  BY DEF ProposeUpgrade
<1>2. proposal \in Proposal /\ proposal.status = "Pending"
  BY UpgradeAssumption DEF Proposal
<1> HIDE DEF proposal
<1>3. /\ upgrade_proposals' \in Seq(Proposal) /\ n \in Nat
      /\ DOMAIN upgrade_proposals = 1 .. n /\ DOMAIN upgrade_proposals' = 1 .. n + 1
      /\ Len(upgrade_proposals') = n + 1
      /\ upgrade_proposals'[n + 1] = proposal
      /\ \A p \in 1 .. n : upgrade_proposals'[p] = upgrade_proposals[p]
  BY <1>1, <1>2 DEF UpgradeInv, HistoryInv, HistoryTyped
<1> HIDE DEF n
<1>4. \A i \in DOMAIN upgrade_history :
          upgrade_history[i].proposal \in Nat /\ upgrade_history[i].proposal <= n
  <2>1. \A r \in Upgraded : r.proposal \in Nat
    BY DEF Upgraded
  <2> QED
    BY <2>1 DEF n, UpgradeInv, HistoryInv, HistoryTyped, ProposalsSpent
<1>5. \A p : ExecutedIn(p)' = ExecutedIn(p)
  BY <1>1 DEF ExecutedIn
<1>6. ExecutedIn(n + 1) = {}
  BY <1>3, <1>4 DEF ExecutedIn
<1>7. ProposalsSpent'
  <2>1. ASSUME NEW p \in 1 .. n + 1
        PROVE  IF upgrade_proposals'[p].status = "Executed" THEN \E i : ExecutedIn(p)' = {i}
               ELSE ExecutedIn(p)' = {}
    <3>1. CASE p \in 1 .. n
      BY <1>3, <1>5, <3>1 DEF UpgradeInv, HistoryInv, ProposalsSpent
    <3>2. CASE p = n + 1
      BY <1>2, <1>3, <1>5, <1>6, <3>2
    <3>3. p \in 1 .. n \/ p = n + 1
      BY <1>3
    <3> QED
      BY <3>1, <3>2, <3>3
  <2>2. \A i \in DOMAIN upgrade_history' : upgrade_history'[i].proposal <= Len(upgrade_proposals')
    BY <1>1, <1>3, <1>4
  <2> QED
    BY <1>3, <2>1, <2>2 DEF ProposalsSpent
<1>8. HistoryInv'
  BY <1>1, <1>3, <1>7 DEF UpgradeInv, HistoryInv, HistoryTyped, Chain
<1> QED
  BY <1>1, <1>8, AuthLeftAlone

(* approve_upgrade adds one approval and counts.                            *)
LEMMA UpgradeApproved ==
    ASSUME UpgradeInv, NEW a \in Officers, NEW p \in Nat, ApproveUpgradeProposal(a, p)
    PROVE  UpgradeInv'
<1> DEFINE more == Append(upgrade_proposals[p].approvals, a)
           status == IF Len(more) >= upgrade_proposals[p].required THEN "Approved" ELSE "Pending"
           new == [upgrade_proposals[p] EXCEPT !.approvals = more, !.status = status]
<1>1. /\ InForce(a) /\ UNCHANGED authVars /\ UNCHANGED <<implementation, upgrade_history>>
      /\ p \in DOMAIN upgrade_proposals /\ upgrade_proposals[p].status = "Pending"
      /\ upgrade_proposals' = [upgrade_proposals EXCEPT ![p] = new]
  BY DEF ApproveUpgradeProposal, IsAuthorizedUpgrader
<1>2. upgrade_proposals \in Seq(Proposal) /\ upgrade_proposals[p] \in Proposal
  BY <1>1 DEF UpgradeInv, HistoryInv, HistoryTyped
<1>3. more \in Seq(Officers) /\ status \in {"Pending", "Approved"}
  <2>1. upgrade_proposals[p].approvals \in Seq(Officers)
    BY <1>2 DEF Proposal
  <2> QED
    BY <2>1
<1>4. new \in Proposal /\ new.status = status
  <2> HIDE DEF more, status
  <2> QED
    BY <1>2, <1>3 DEF Proposal
<1> HIDE DEF more, status, new
<1>5. /\ upgrade_proposals' \in Seq(Proposal) /\ Len(upgrade_proposals') = Len(upgrade_proposals)
      /\ DOMAIN upgrade_proposals' = DOMAIN upgrade_proposals
      /\ upgrade_proposals'[p] = new
      /\ \A q \in DOMAIN upgrade_proposals : q # p => upgrade_proposals'[q] = upgrade_proposals[q]
  BY <1>1, <1>2, <1>4
<1>6. \A q : ExecutedIn(q)' = ExecutedIn(q)
  BY <1>1 DEF ExecutedIn
<1>7. ProposalsSpent'
  <2>1. ASSUME NEW q \in DOMAIN upgrade_proposals
        PROVE  IF upgrade_proposals'[q].status = "Executed" THEN \E i : ExecutedIn(q)' = {i}
               ELSE ExecutedIn(q)' = {}
    <3>1. CASE q = p
      BY <1>1, <1>3, <1>4, <1>5, <1>6, <3>1 DEF UpgradeInv, HistoryInv, ProposalsSpent
    <3>2. CASE q # p
      BY <1>5, <1>6, <3>2 DEF UpgradeInv, HistoryInv, ProposalsSpent
    <3> QED
      BY <3>1, <3>2
  <2> QED
    BY <1>1, <1>5, <2>1 DEF UpgradeInv, HistoryInv, ProposalsSpent
<1>8. HistoryInv'
  BY <1>1, <1>5, <1>7 DEF UpgradeInv, HistoryInv, HistoryTyped, Chain
<1> QED
  BY <1>1, <1>8, AuthLeftAlone

(* The next link of the chain; it spends the proposal it names.             *)
LEMMA UpgradeExecuted ==
    ASSUME UpgradeInv, NEW a \in Officers, NEW new \in Implementations, NEW p \in Nat,
           ExecuteUpgrade(a, new, p)
    PROVE  UpgradeInv'
<1> DEFINE link == [old |-> implementation, new |-> new, proposal |-> p]
           n == Len(upgrade_history)
<1>1. /\ InForce(a) /\ UNCHANGED authVars
      /\ implementation' = new /\ upgrade_history' = Append(upgrade_history, link)
      /\ \/ p = 0 /\ upgrade_proposals' = upgrade_proposals
         \/ /\ p \in DOMAIN upgrade_proposals /\ upgrade_proposals[p].status = "Approved"
            /\ upgrade_proposals' = [upgrade_proposals EXCEPT ![p].status = "Executed"]
  BY DEF ExecuteUpgrade, IsAuthorizedUpgrader, Spend, NoProposal
<1>2. /\ upgrade_proposals \in Seq(Proposal) /\ upgrade_history \in Seq(Upgraded)
      /\ implementation \in Implementations
  BY DEF UpgradeInv, HistoryInv, HistoryTyped
<1>3. link \in Upgraded /\ link.old = implementation /\ link.new = new /\ link.proposal = p
  BY <1>2 DEF Upgraded
<1> HIDE DEF link
<1>4. /\ upgrade_history' \in Seq(Upgraded) /\ n \in Nat /\ Len(upgrade_history') = n + 1
      /\ DOMAIN upgrade_history = 1 .. n /\ DOMAIN upgrade_history' = 1 .. n + 1
      /\ upgrade_history'[n + 1] = link
      /\ \A i \in 1 .. n : upgrade_history'[i] = upgrade_history[i]
      /\ upgrade_history' # <<>> /\ (upgrade_history = <<>> <=> n = 0)
  BY <1>1, <1>2, <1>3
<1>5. /\ upgrade_proposals' \in Seq(Proposal) /\ Len(upgrade_proposals') = Len(upgrade_proposals)
      /\ DOMAIN upgrade_proposals' = DOMAIN upgrade_proposals
      /\ DOMAIN upgrade_proposals = 1 .. Len(upgrade_proposals) /\ Len(upgrade_proposals) \in Nat
      /\ \A q \in DOMAIN upgrade_proposals :
            IF q = p THEN /\ upgrade_proposals[q].status # "Executed"
                          /\ upgrade_proposals'[q].status = "Executed"
            ELSE upgrade_proposals'[q] = upgrade_proposals[q]
  <2>1. CASE p = 0 /\ upgrade_proposals' = upgrade_proposals
    BY <1>2, <2>1
  <2>2. CASE /\ p \in DOMAIN upgrade_proposals /\ upgrade_proposals[p].status = "Approved"
             /\ upgrade_proposals' = [upgrade_proposals EXCEPT ![p].status = "Executed"]
    <3> DEFINE spent == [upgrade_proposals[p] EXCEPT !.status = "Executed"]
    <3>1. spent \in Proposal /\ spent.status = "Executed"
      <4>1. upgrade_proposals[p] \in Proposal
        BY <1>2, <2>2
      <4> QED
        BY <4>1 DEF Proposal
    <3>2. upgrade_proposals' = [upgrade_proposals EXCEPT ![p] = spent]
      BY <2>2
    <3> HIDE DEF spent
    <3>3. /\ upgrade_proposals' \in Seq(Proposal)
          /\ Len(upgrade_proposals') = Len(upgrade_proposals)
          /\ DOMAIN upgrade_proposals' = DOMAIN upgrade_proposals
          /\ DOMAIN upgrade_proposals = 1 .. Len(upgrade_proposals)
          /\ Len(upgrade_proposals) \in Nat
      BY <1>2, <2>2, <3>1, <3>2
    <3>4. /\ upgrade_proposals'[p] = spent
          /\ \A q \in DOMAIN upgrade_proposals : q # p => upgrade_proposals'[q] = upgrade_proposals[q]
      BY <1>2, <2>2, <3>2
    <3> QED
      BY <2>2, <3>1, <3>3, <3>4
  <2> QED
    BY <1>1, <2>1, <2>2
<1>6. \A q : ExecutedIn(q)' = IF q = p THEN ExecutedIn(q) \cup {n + 1} ELSE ExecutedIn(q)
  BY <1>3, <1>4 DEF ExecutedIn
<1>7. ProposalsSpent'
  <2>1. ASSUME NEW q \in DOMAIN upgrade_proposals
        PROVE  IF upgrade_proposals'[q].status = "Executed" THEN \E i : ExecutedIn(q)' = {i}
               ELSE ExecutedIn(q)' = {}
    <3>1. CASE q = p
      <4>1. ExecutedIn(q) = {}
        BY <1>5, <3>1 DEF UpgradeInv, HistoryInv, ProposalsSpent
      <4>2. ExecutedIn(q)' = {n + 1}
        BY <1>6, <3>1, <4>1
      <4> QED
        BY <1>5, <3>1, <4>2
    <3>2. CASE q # p
      BY <1>5, <1>6, <3>2 DEF UpgradeInv, HistoryInv, ProposalsSpent
    <3> QED
      BY <3>1, <3>2
  <2>2. p <= Len(upgrade_proposals)
    BY <1>1, <1>5
  <2>3. \A i \in DOMAIN upgrade_history' : upgrade_history'[i].proposal <= Len(upgrade_proposals')
    BY <1>3, <1>4, <1>5, <2>2 DEF UpgradeInv, HistoryInv, ProposalsSpent
  <2> QED
    BY <1>5, <2>1, <2>3 DEF ProposalsSpent
<1>8. Chain'
  <2>1. ASSUME NEW i \in 1 .. n + 1
        PROVE  upgrade_history'[i].old =
                  IF i = 1 THEN FirstImplementation ELSE upgrade_history'[i - 1].new
    <3>1. CASE i \in 1 .. n
      <4>1. i # 1 => i - 1 \in 1 .. n
        BY <1>4, <3>1
      <4> QED
        BY <1>4, <3>1, <4>1 DEF UpgradeInv, HistoryInv, Chain
    <3>2. CASE i = n + 1
      <4>1. n # 0 => n \in 1 .. n /\ (n + 1) - 1 = n /\ n + 1 # 1
        BY <1>4
      <4>2. implementation = IF n = 0 THEN FirstImplementation ELSE upgrade_history[n].new
        BY <1>4 DEF UpgradeInv, HistoryInv, Chain
      <4> QED
        BY <1>3, <1>4, <3>2, <4>1, <4>2
    <3> QED
      BY <1>4, <3>1, <3>2
  <2> QED
    BY <1>1, <1>3, <1>4, <2>1 DEF Chain
<1>9. HistoryInv'
  BY <1>1, <1>4, <1>5, <1>7, <1>8 DEF HistoryInv, HistoryTyped
<1> QED
  BY <1>1, <1>9, AuthLeftAlone

(* Every entry point keeps the books.                                       *)
LEMMA UpgradeKeeps == UpgradeInv /\ [UpgradeNext]_upgradeVars => UpgradeInv'
<1> SUFFICES ASSUME UpgradeInv, [UpgradeNext]_upgradeVars PROVE UpgradeInv'
  OBVIOUS
<1>1. ASSUME UNCHANGED <<upgrade_admin, upgrade_auth, upgraders, upgrade_proposals,
                         implementation, upgrade_history>>
      PROVE  UpgradeInv'
  BY <1>1 DEF UpgradeInv, AuthInv, AuthTyped, UpgradersListed, HistoryInv, HistoryTyped, Chain,
              ProposalsSpent, ExecutedIn, Undeployed
<1>2. CASE UNCHANGED upgradeVars
  BY <1>1, <1>2 DEF upgradeVars, authVars
<1>3. ASSUME NEW admin, NEW a, TransferUpgradeAdmin(admin, a) PROVE UpgradeInv'
  BY <1>1, <1>3 DEF TransferUpgradeAdmin
<1>4. 0 .. MaxProposals \subseteq Nat /\ 1 .. MaxProposals \subseteq Nat
  BY UpgradeAssumption
<1> QED
  BY <1>2, <1>3, <1>4, UpgradeFounded, UpgradeAdminAccepted, AuthGranted, AuthRevoked,
     UpgradeProposed, UpgradeApproved, UpgradeExecuted DEF UpgradeNext

LEMMA UpgradeImplies == UpgradeInv => UpgradeBooksAgree
<1> SUFFICES ASSUME UpgradeInv PROVE UpgradeBooksAgree
  OBVIOUS
<1>1. ASSUME NEW p \in DOMAIN upgrade_proposals
      PROVE  Cardinality({i \in DOMAIN upgrade_history : upgrade_history[i].proposal = p})
                 = IF upgrade_proposals[p].status = "Executed" THEN 1 ELSE 0
  <2>1. CASE upgrade_proposals[p].status = "Executed"
    <3>1. PICK i : ExecutedIn(p) = {i}
      BY <2>1 DEF UpgradeInv, HistoryInv, ProposalsSpent
    <3> QED
      BY <2>1, <3>1, FS_Singleton DEF ExecutedIn
  <2>2. CASE upgrade_proposals[p].status # "Executed"
    BY <2>2, FS_EmptySet DEF UpgradeInv, HistoryInv, ProposalsSpent, ExecutedIn
  <2> QED
    BY <2>1, <2>2
<1> QED
  BY <1>1 DEF UpgradeInv, AuthInv, HistoryInv, Chain, UpgradeBooksAgree, HistoryIsAChain

(* upgrade_auth.rs: the list of upgraders and the history of the upgrades,  *)
(* for any number of officers, proposals and upgrades.                      *)
THEOREM UpgradeBooksKept == UpgradeSpec => []UpgradeBooksAgree
<1>1. UpgradeInv /\ [(UpgradeNext /\ UNCHANGED now) \/ (Tick /\ UNCHANGED upgradeVars)]_<<now, upgradeVars>>
        => UpgradeInv'
  BY UpgradeKeeps
<1> QED
  BY <1>1, UpgradeImplies, UpgradeStarts, PTL DEF UpgradeSpec

-----------------------------------------------------------------------------
(***************************************************************************)
(* Attestations: the lists of the subjects, the keys and the nonces.       *)
(***************************************************************************)
USE AttestationsAssumption

(* What is stored of an attestation.                                        *)
AttestationRecords ==
    [said : [verifier : Attesters, identity : Subjects, data : AttestationData],
     revoked : BOOLEAN]

(* What the modules attestation, nonce and batch store.                     *)
AttestationsTyped ==
    /\ attestation_counter \in 0 .. MaxAttestations
    /\ attestation \in [AttestationIds -> AttestationRecords \cup {NoAttestation}]
    /\ \A i \in AttestationIds :
          attestation[i] \in AttestationRecords <=> i < attestation_counter
    /\ subject_list \in [Subjects -> Seq(Int)]
    /\ subject_count \in [Subjects -> Int]
    /\ attester_nonce \in [Attesters -> Int]

(* The identifiers of a subject, in the order they were given out.          *)
ListedFor(s) ==
    /\ Lists(subject_list[s], LiveOf(s))
    /\ Ascending(subject_list[s])
    /\ subject_count[s] = Len(subject_list[s])

AttestationsInv ==
    /\ AttestationsTyped
    /\ \A s \in Subjects : ListedFor(s)
    /\ DedupKeysHonest
    /\ NoncesCountCalls

LEMMA AttestationsStart == AttestationsInit => AttestationsInv
<1> SUFFICES ASSUME AttestationsInit PROVE AttestationsInv
  OBVIOUS
<1>1. /\ attestation_counter = 0 /\ attestation = [i \in AttestationIds |-> NoAttestation]
      /\ subject_list = [s \in Subjects |-> <<>>] /\ subject_count = [s \in Subjects |-> 0]
      /\ attester_nonce = [a \in Attesters |-> 0] /\ dedup = {}
  BY DEF AttestationsInit
<1>2. Made = {}
  BY <1>1 DEF Made
<1>3. AttestationsTyped
  <2>1. 0 \in 0 .. MaxAttestations /\ \A i \in AttestationIds : ~(i < 0)
    BY DEF AttestationIds
  <2>2. subject_list \in [Subjects -> Seq(Int)]
    BY <1>1
  <2>3. subject_count \in [Subjects -> Int] /\ attester_nonce \in [Attesters -> Int]
    BY <1>1
  <2>4. /\ attestation \in [AttestationIds -> AttestationRecords \cup {NoAttestation}]
        /\ \A i \in AttestationIds : attestation[i] \notin AttestationRecords
    BY <1>1 DEF AttestationRecords
  <2> QED
    BY <1>1, <2>1, <2>2, <2>3, <2>4 DEF AttestationsTyped
<1>4. ASSUME NEW s \in Subjects PROVE ListedFor(s)
  <2>1. LiveOf(s) = {} /\ subject_list[s] = <<>> /\ subject_count[s] = 0
    BY <1>1, <1>2 DEF LiveOf
  <2>2. Ascending(<<>>) /\ Len(<<>>) = 0
    BY DEF Ascending
  <2> QED
    BY <2>1, <2>2, ListsEmpty DEF ListedFor
<1>5. DedupKeysHonest
  BY <1>1 DEF DedupKeysHonest
<1>6. NoncesCountCalls
  <2>1. ASSUME NEW a \in Attesters
        PROVE  LET mine == {i \in Made : attestation[i].said.verifier = a}
               IN  attester_nonce[a] = Cardinality(mine)
                                       + Cardinality({i \in mine : attestation[i].revoked})
    <3> DEFINE mine == {i \in Made : attestation[i].said.verifier = a}
    <3>1. mine = {} /\ {i \in mine : attestation[i].revoked} = {} /\ attester_nonce[a] = 0
      BY <1>1, <1>2
    <3>2. Cardinality({}) = 0
      BY FS_EmptySet
    <3> HIDE DEF mine
    <3>3. attester_nonce[a] = Cardinality(mine) + Cardinality({i \in mine : attestation[i].revoked})
      BY <3>1, <3>2
    <3> QED
      BY <3>3 DEF mine
  <2> QED
    BY <2>1 DEF NoncesCountCalls
<1> QED
  BY <1>3, <1>4, <1>5, <1>6 DEF AttestationsInv

(***************************************************************************)
(* New attestations.                                                       *)
(***************************************************************************)

(* The identifiers that Record gives out, in order.                         *)
NewIds(n) == [k \in 1 .. n |-> attestation_counter + k - 1]

(* Identifiers above all others extend a list that ascends.                 *)
LEMMA NewIdsListed ==
    ASSUME attestation_counter \in Nat, NEW n \in Nat
    PROVE  /\ NewIds(n) \in Seq(Int) /\ Len(NewIds(n)) = n
           /\ Lists(NewIds(n), attestation_counter .. attestation_counter + n - 1)
           /\ Ascending(NewIds(n))
           /\ \A k \in 1 .. n : NewIds(n)[k] = attestation_counter + k - 1
<1> DEFINE ids == NewIds(n)
           c == attestation_counter
<1>1. /\ ids \in Seq(Int) /\ Len(ids) = n /\ DOMAIN ids = 1 .. n
      /\ \A k \in 1 .. n : ids[k] = c + k - 1
  BY DEF NewIds
<1>2. c \in Nat
  OBVIOUS
<1> HIDE DEF ids, c
<1>3. ToSet(ids) = c .. c + n - 1
  <2>1. \A k \in 1 .. n : c + k - 1 \in c .. c + n - 1
    BY <1>2
  <2>2. ASSUME NEW i \in c .. c + n - 1
        PROVE  i - c + 1 \in 1 .. n /\ i = c + (i - c + 1) - 1
    BY <1>2
  <2> QED
    BY <1>1, <2>1, <2>2 DEF ToSet
<1>4. IsInjective(ids)
  <2>1. ASSUME NEW k \in 1 .. n, NEW l \in 1 .. n, ids[k] = ids[l] PROVE k = l
    <3>1. c + k - 1 = c + l - 1
      BY <1>1, <2>1
    <3> QED
      BY <1>2, <3>1
  <2> QED
    BY <1>1, <2>1 DEF IsInjective
<1>5. Ascending(ids)
  <2>1. ASSUME NEW k \in 1 .. n, NEW l \in 1 .. n, k < l PROVE ids[k] < ids[l]
    <3>1. c + k - 1 < c + l - 1
      BY <1>2, <2>1
    <3> QED
      BY <1>1, <3>1
  <2> QED
    BY <1>1, <2>1 DEF Ascending
<1> QED
  BY <1>1, <1>3, <1>4, <1>5 DEF Lists, ids, c

(* What was made stays, and the new ones follow.                            *)
LEMMA Recorded ==
    ASSUME AttestationsTyped, NEW s \in Subjects, NEW by \in Seq(Attesters),
           NEW data \in Seq(AttestationData), Len(data) = Len(by), Record(s, by, data)
    PROVE  /\ attestation_counter' = attestation_counter + Len(by)
           /\ attestation_counter' \in 0 .. MaxAttestations
           /\ attestation' \in [AttestationIds -> AttestationRecords \cup {NoAttestation}]
           /\ \A i \in AttestationIds :
                 attestation'[i] \in AttestationRecords <=> i < attestation_counter'
           /\ \A i \in Made : attestation'[i] = attestation[i]
           /\ \A k \in 1 .. Len(by) :
                 attestation'[attestation_counter + k - 1]
                   = [said |-> Said(by[k], s, data[k]), revoked |-> FALSE]
           /\ Made' = Made \cup attestation_counter .. attestation_counter + Len(by) - 1
<1> DEFINE c == attestation_counter
           n == Len(by)
           id(k) == c + k - 1
           fresh(k) == [said |-> Said(by[k], s, data[k]), revoked |-> FALSE]
<1>1. /\ c + n <= MaxAttestations /\ attestation_counter' = c + n
      /\ attestation' = [i \in AttestationIds |->
              IF \E k \in 1 .. n : id(k) = i THEN fresh(i - c + 1) ELSE attestation[i]]
  <2>1. DOMAIN by = 1 .. n
    OBVIOUS
  <2>2. /\ c + n <= MaxAttestations /\ attestation_counter' = c + n
        /\ attestation' = [i \in AttestationIds |->
              IF \E k \in DOMAIN by : id(k) = i THEN fresh(i - c + 1) ELSE attestation[i]]
    BY Zenon DEF Record
  <2> HIDE DEF fresh, id, n, c
  <2> QED
    BY <2>1, <2>2
<1>2. c \in 0 .. MaxAttestations /\ c \in Nat /\ n \in Nat
  BY DEF AttestationsTyped
<1>3. attestation_counter' \in 0 .. MaxAttestations
  BY <1>1, <1>2
<1>4. ASSUME NEW k \in 1 .. n
      PROVE  /\ id(k) \in AttestationIds /\ id(k) < c + n /\ ~(id(k) < c)
             /\ id(k) - c + 1 = k
             /\ fresh(k) \in AttestationRecords
  <2>1. by[k] \in Attesters /\ data[k] \in AttestationData
    OBVIOUS
  <2>2. fresh(k) \in AttestationRecords
    BY <2>1 DEF AttestationRecords, Said
  <2>3. /\ id(k) \in AttestationIds /\ id(k) < c + n /\ ~(id(k) < c)
        /\ id(k) - c + 1 = k
    BY <1>1, <1>2 DEF AttestationIds
  <2> QED
    BY <2>2, <2>3
<1>5. ASSUME NEW k \in 1 .. n PROVE attestation'[id(k)] = fresh(k)
  <2> HIDE DEF fresh, c
  <2> QED
    BY <1>1, <1>4
<1>6. ASSUME NEW i \in AttestationIds, i < c \/ ~(i < c + n)
      PROVE  attestation'[i] = attestation[i]
  <2>1. \A k \in 1 .. n : id(k) # i
    <3>1. ASSUME NEW k \in 1 .. n PROVE id(k) # i
      BY <1>2, <1>6 DEF AttestationIds
    <3> QED
      BY <3>1
  <2> HIDE DEF fresh, c
  <2> QED
    BY <1>1, <2>1
<1>7. ASSUME NEW i \in AttestationIds, ~(i < c), i < c + n
      PROVE  \E k \in 1 .. n : id(k) = i
  <2>1. i - c + 1 \in 1 .. n /\ id(i - c + 1) = i
    BY <1>2, <1>7 DEF AttestationIds
  <2> QED
    BY <2>1
<1> HIDE DEF fresh, id
<1>8. \A i \in AttestationIds :
         /\ attestation[i] \in AttestationRecords \cup {NoAttestation}
         /\ attestation[i] \in AttestationRecords <=> i < c
  BY DEF AttestationsTyped
<1>9. \A i \in AttestationIds : i < c => i < c + n
  BY <1>2 DEF AttestationIds
<1>10. attestation' \in [AttestationIds -> AttestationRecords \cup {NoAttestation}]
  <2>1. ASSUME NEW i \in AttestationIds
        PROVE  attestation'[i] \in AttestationRecords \cup {NoAttestation}
    BY <1>4, <1>5, <1>6, <1>7, <1>8
  <2> QED
    BY <1>1, <2>1
<1>11. ASSUME NEW i \in AttestationIds
       PROVE  attestation'[i] \in AttestationRecords <=> i < c + n
  BY <1>4, <1>5, <1>6, <1>7, <1>8, <1>9
<1>12. \A i \in Made : attestation'[i] = attestation[i]
  <2>1. \A i \in Made : i \in AttestationIds /\ i < c
    BY <1>2 DEF Made, AttestationIds
  <2> QED
    BY <1>6, <2>1
<1>13. Made' = Made \cup c .. c + n - 1
  BY <1>1, <1>2 DEF Made
<1> QED
  BY <1>1, <1>3, <1>5, <1>10, <1>11, <1>12, <1>13 DEF id, fresh

(* So each subject's list goes on with its own new ones.                    *)
LEMMA RecordedListed ==
    ASSUME AttestationsInv, NEW s \in Subjects, NEW by \in Seq(Attesters),
           NEW data \in Seq(AttestationData), Len(data) = Len(by), Record(s, by, data)
    PROVE  /\ subject_list' \in [Subjects -> Seq(Int)]
           /\ subject_count' \in [Subjects -> Int]
           /\ \A t \in Subjects : ListedFor(t)'
<1> DEFINE c == attestation_counter
           n == Len(by)
           new == c .. c + n - 1
<1>1. /\ subject_list' = [subject_list EXCEPT ![s] = @ \o NewIds(n)]
      /\ subject_count' = [subject_count EXCEPT ![s] = @ + n]
  <2>1. DOMAIN by = 1 .. n
    OBVIOUS
  <2> QED
    BY <2>1, Zenon DEF Record, NewIds
<1>2. /\ c \in 0 .. MaxAttestations /\ c \in Nat /\ n \in Nat
      /\ subject_list \in [Subjects -> Seq(Int)] /\ subject_count \in [Subjects -> Int]
      /\ AttestationsTyped
  BY DEF AttestationsInv, AttestationsTyped
<1>3. /\ NewIds(n) \in Seq(Int) /\ Len(NewIds(n)) = n /\ Lists(NewIds(n), new)
      /\ Ascending(NewIds(n)) /\ \A k \in 1 .. n : NewIds(n)[k] = c + k - 1
  BY <1>2, NewIdsListed
<1>4. /\ Made' = Made \cup new
      /\ \A i \in Made : attestation'[i] = attestation[i]
      /\ \A k \in 1 .. n : attestation'[c + k - 1]
                                = [said |-> Said(by[k], s, data[k]), revoked |-> FALSE]
  BY <1>2, Recorded
<1>5. \A i \in new : attestation'[i].said.identity = s /\ ~attestation'[i].revoked
  <2>1. ASSUME NEW i \in new
        PROVE  attestation'[i].said.identity = s /\ ~attestation'[i].revoked
    <3>1. i - c + 1 \in 1 .. n /\ c + (i - c + 1) - 1 = i
      BY <1>2
    <3>2. attestation'[i] = [said |-> Said(by[i - c + 1], s, data[i - c + 1]), revoked |-> FALSE]
      BY <1>4, <3>1
    <3> QED
      BY <3>2 DEF Said
  <2> QED
    BY <2>1
<1>6. Made \cap new = {} /\ \A i \in Made : i \in Int /\ i < c
  BY <1>2 DEF Made
<1> HIDE DEF c, n, new
<1>7. ASSUME NEW t \in Subjects
      PROVE  /\ LiveOf(t)' = IF t = s THEN LiveOf(t) \cup new ELSE LiveOf(t)
             /\ LiveOf(t) \subseteq Made
  BY <1>4, <1>5 DEF LiveOf
<1>8. ASSUME NEW t \in Subjects PROVE ListedFor(t)
  BY DEF AttestationsInv
<1>9. /\ subject_list' \in [Subjects -> Seq(Int)] /\ subject_count' \in [Subjects -> Int]
      /\ \A t \in Subjects : ListedFor(t)'
  <2> DEFINE one == subject_list[s]
             two == NewIds(n)
  <2>1. one \in Seq(Int) /\ two \in Seq(Int) /\ Lists(one, LiveOf(s)) /\ Ascending(one)
        /\ Lists(two, new) /\ Ascending(two) /\ LiveOf(s) \cap new = {}
        /\ LiveOf(s)' = LiveOf(s) \cup new
        /\ subject_count[s] = Len(one) /\ Len(two) = n
    BY <1>2, <1>3, <1>6, <1>7, <1>8 DEF ListedFor
  <2>2. \A i \in 1 .. Len(one), k \in 1 .. Len(two) : one[i] < two[k]
    <3>1. \A i \in 1 .. Len(one) : one[i] \in LiveOf(s)
      BY <2>1 DEF Lists, ToSet
    <3>2. \A i \in 1 .. Len(one) : one[i] \in Int /\ one[i] < c
      BY <1>6, <1>7, <3>1
    <3>3. \A k \in 1 .. Len(two) : two[k] \in Int /\ c <= two[k]
      BY <1>2, <1>3, <2>1
    <3>4. ASSUME NEW i \in 1 .. Len(one), NEW k \in 1 .. Len(two) PROVE one[i] < two[k]
      <4> HIDE DEF one, two
      <4> QED
        BY <1>2, <3>2, <3>3
    <3> QED
      BY <3>4
  <2> HIDE DEF one, two
  <2>3. one \o two \in Seq(Int) /\ Lists(one \o two, LiveOf(s) \cup new)
    BY <2>1, ListsConcat
  <2>4. Ascending(one \o two)
    BY <2>1, <2>2, AscendingConcat
  <2>5. Len(one \o two) = Len(one) + n
    BY <2>1, ConcatProperties
  <2>6. /\ subject_list'[s] = one \o two /\ subject_count'[s] = Len(one) + n
    BY <1>1, <1>2, <2>1 DEF one, two
  <2>7. subject_list' \in [Subjects -> Seq(Int)] /\ subject_count' \in [Subjects -> Int]
    BY <1>1, <1>2, <2>3, <2>6 DEF one, two
  <2>8. ListedFor(s)'
    BY <2>1, <2>3, <2>4, <2>5, <2>6 DEF ListedFor
  <2>9. ASSUME NEW t \in Subjects, t # s PROVE ListedFor(t)'
    <3>1. subject_list'[t] = subject_list[t] /\ subject_count'[t] = subject_count[t]
      BY <1>1, <1>2, <2>9
    <3>2. LiveOf(t)' = LiveOf(t)
      BY <1>7, <2>9
    <3> QED
      BY <1>8, <3>1, <3>2 DEF ListedFor
  <2> QED
    BY <2>7, <2>8, <2>9
<1> QED
  BY <1>9

(* The attestations of an attester, and those of them that he revoked.      *)
SaidBy(a) == {i \in Made : attestation[i].said.verifier = a}
TakenBack(a) == {i \in SaidBy(a) : attestation[i].revoked}
CallsCounted(a) == attester_nonce[a] = Cardinality(SaidBy(a)) + Cardinality(TakenBack(a))

LEMMA NoncesByAttester == NoncesCountCalls <=> \A a \in Attesters : CallsCounted(a)
BY Zenon DEF NoncesCountCalls, CallsCounted, SaidBy, TakenBack

LEMMA CallsFinite ==
    ASSUME AttestationsTyped
    PROVE  \A a : /\ IsFiniteSet(SaidBy(a)) /\ IsFiniteSet(TakenBack(a))
                  /\ Cardinality(SaidBy(a)) \in Nat /\ Cardinality(TakenBack(a)) \in Nat
<1>1. IsFiniteSet(Made)
  <2>1. 0 \in Int /\ attestation_counter - 1 \in Int
    BY DEF AttestationsTyped
  <2> QED
    BY <2>1, FS_Interval DEF Made
<1>2. \A a : SaidBy(a) \subseteq Made /\ TakenBack(a) \subseteq Made
  BY DEF SaidBy, TakenBack
<1> QED
  BY <1>1, <1>2, FS_Subset, FS_CardinalityType

(* A nonce moves on by the attestations that are new.                       *)
LEMMA RecordedNonces ==
    ASSUME AttestationsInv, NEW s \in Subjects, NEW by \in Seq(Attesters),
           NEW data \in Seq(AttestationData), Len(data) = Len(by), Record(s, by, data),
           NEW batch, \A a : a \in batch <=> \E k \in 1 .. Len(by) : by[k] = a,
           \A k, l \in 1 .. Len(by) : by[k] = by[l] => k = l,
           attester_nonce' =
              [a \in Attesters |-> attester_nonce[a] + IF a \in batch THEN 1 ELSE 0]
    PROVE  attester_nonce' \in [Attesters -> Int] /\ NoncesCountCalls'
<1> DEFINE c == attestation_counter
           n == Len(by)
           new == c .. c + n - 1
<1>1. /\ c \in Nat /\ n \in Nat /\ attester_nonce \in [Attesters -> Int]
      /\ AttestationsTyped
  BY DEF AttestationsInv, AttestationsTyped
<1>2. /\ Made' = Made \cup new
      /\ \A i \in Made : attestation'[i] = attestation[i]
      /\ \A k \in 1 .. n : attestation'[c + k - 1]
                                = [said |-> Said(by[k], s, data[k]), revoked |-> FALSE]
  BY <1>1, Recorded
<1>3. Made \cap new = {}
  BY <1>1 DEF Made
<1>4. \A k \in 1 .. n : /\ c + k - 1 \in new
                          /\ attestation'[c + k - 1].said.verifier = by[k]
                          /\ ~attestation'[c + k - 1].revoked
  <2>1. ASSUME NEW k \in 1 .. n
        PROVE  /\ c + k - 1 \in new
               /\ attestation'[c + k - 1].said.verifier = by[k]
               /\ ~attestation'[c + k - 1].revoked
    <3>1. c + k - 1 \in new
      BY <1>1
    <3>2. attestation'[c + k - 1] = [said |-> Said(by[k], s, data[k]), revoked |-> FALSE]
      BY <1>2
    <3> QED
      BY <3>1, <3>2 DEF Said
  <2> QED
    BY <2>1
<1>5. \A i \in new : \E k \in 1 .. n : i = c + k - 1
  <2>1. \A i \in new : i - c + 1 \in 1 .. n /\ i = c + (i - c + 1) - 1
    BY <1>1
  <2> QED
    BY <2>1
<1>6. attester_nonce' \in [Attesters -> Int]
  BY <1>1
<1> HIDE DEF new, n
<1>7. ASSUME NEW a \in Attesters PROVE CallsCounted(a)'
  <2>1. TakenBack(a)' = TakenBack(a)
    <3>1. \A i \in new : ~attestation'[i].revoked
      BY <1>4, <1>5
    <3> QED
      BY <1>2, <3>1 DEF TakenBack, SaidBy
  <2>2. CallsCounted(a) /\ Cardinality(SaidBy(a)) \in Nat /\ IsFiniteSet(SaidBy(a))
        /\ Cardinality(TakenBack(a)) \in Nat
    BY <1>1, NoncesByAttester, CallsFinite DEF AttestationsInv
  <2>3. CASE a \in batch
    <3>1. PICK k \in 1 .. n : by[k] = a
      BY <2>3 DEF n
    <3> DEFINE i == c + k - 1
    <3>2. i \in new /\ attestation'[i].said.verifier = a /\ i \notin Made
      BY <1>3, <1>4, <3>1
    <3>3. \A j \in new : attestation'[j].said.verifier = a => j = i
      BY <1>4, <1>5, <3>1 DEF n
    <3> HIDE DEF i
    <3>4. SaidBy(a)' = SaidBy(a) \cup {i} /\ i \notin SaidBy(a)
      BY <1>2, <3>2, <3>3 DEF SaidBy
    <3>5. Cardinality(SaidBy(a) \cup {i}) = Cardinality(SaidBy(a)) + 1
      BY <2>2, <3>4, FS_AddElement
    <3>6. attester_nonce'[a] = attester_nonce[a] + 1
      BY <2>3
    <3> QED
      BY <2>1, <2>2, <3>4, <3>5, <3>6 DEF CallsCounted
  <2>4. CASE a \notin batch
    <3>1. \A j \in new : attestation'[j].said.verifier # a
      BY <1>4, <1>5, <2>4 DEF n
    <3>2. SaidBy(a)' = SaidBy(a)
      BY <1>2, <3>1 DEF SaidBy
    <3>3. attester_nonce'[a] = attester_nonce[a]
      BY <1>1, <2>4
    <3> QED
      BY <2>1, <2>2, <3>2, <3>3 DEF CallsCounted
  <2> QED
    BY <2>3, <2>4
<1>8. NoncesCountCalls'
  <2>1. \A a \in Attesters : CallsCounted(a)'
    BY <1>7
  <2>2. (\A a \in Attesters : CallsCounted(a)') => NoncesCountCalls'
    BY Zenon DEF NoncesCountCalls, CallsCounted, SaidBy, TakenBack
  <2> QED
    BY <2>1, <2>2
<1> QED
  BY <1>6, <1>8

(* A deduplication key is set while its attestation stands.                 *)
LEMMA DedupAfterRecord ==
    ASSUME AttestationsInv, NEW s \in Subjects, NEW by \in Seq(Attesters),
           NEW data \in Seq(AttestationData), Len(data) = Len(by), Record(s, by, data),
           \A said \in dedup' \ dedup : \E k \in 1 .. Len(by) : said = Said(by[k], s, data[k])
    PROVE  DedupKeysHonest'
<1> DEFINE c == attestation_counter
           n == Len(by)
<1>1. AttestationsTyped /\ DedupKeysHonest /\ c \in Nat /\ n \in Nat
  BY DEF AttestationsInv, AttestationsTyped
<1>2. /\ Made' = Made \cup c .. c + n - 1
      /\ \A i \in Made : attestation'[i] = attestation[i]
      /\ \A k \in 1 .. n : attestation'[c + k - 1]
                                = [said |-> Said(by[k], s, data[k]), revoked |-> FALSE]
  BY <1>1, Recorded
<1> SUFFICES ASSUME NEW said \in dedup'
             PROVE  \E i \in Made' : attestation'[i].said = said /\ ~attestation'[i].revoked
  BY DEF DedupKeysHonest
<1>3. CASE said \in dedup
  BY <1>1, <1>2, <1>3 DEF DedupKeysHonest
<1>4. CASE said \notin dedup
  <2>1. PICK k \in 1 .. n : said = Said(by[k], s, data[k])
    BY <1>4
  <2>2. c + k - 1 \in Made'
    BY <1>1, <1>2
  <2>3. /\ attestation'[c + k - 1].said = said
        /\ ~attestation'[c + k - 1].revoked
    <3>1. attestation'[c + k - 1] = [said |-> Said(by[k], s, data[k]), revoked |-> FALSE]
      BY <1>2
    <3> QED
      BY <2>1, <3>1
  <2> QED
    BY <2>2, <2>3
<1> QED
  BY <1>3, <1>4

(* add_attestation, alone or in a batch.                                    *)
LEMMA Added ==
    ASSUME AttestationsInv, NEW s \in Subjects, NEW by \in Seq(Attesters),
           NEW data \in Seq(AttestationData), Len(data) = Len(by), Record(s, by, data),
           NEW batch, \A a : a \in batch <=> \E k \in 1 .. Len(by) : by[k] = a,
           \A k, l \in 1 .. Len(by) : by[k] = by[l] => k = l,
           NEW nonce, ConsumeNonces(batch, nonce),
           \A said \in dedup' \ dedup : \E k \in 1 .. Len(by) : said = Said(by[k], s, data[k])
    PROVE  AttestationsInv'
<1>1. attester_nonce' \in [Attesters -> Int] /\ NoncesCountCalls'
  BY RecordedNonces DEF ConsumeNonces
<1>2. DedupKeysHonest'
  BY DedupAfterRecord
<1>3. /\ subject_list' \in [Subjects -> Seq(Int)] /\ subject_count' \in [Subjects -> Int]
      /\ \A t \in Subjects : ListedFor(t)'
  BY RecordedListed
<1>4. /\ attestation_counter' \in 0 .. MaxAttestations
      /\ attestation' \in [AttestationIds -> AttestationRecords \cup {NoAttestation}]
      /\ \A i \in AttestationIds :
            attestation'[i] \in AttestationRecords <=> i < attestation_counter'
  BY Recorded DEF AttestationsInv
<1>5. AttestationsTyped'
  BY <1>1, <1>3, <1>4 DEF AttestationsTyped
<1>6. (\A t \in Subjects : ListedFor(t))'
  BY <1>3
<1> QED
  BY <1>1, <1>2, <1>5, <1>6 DEF AttestationsInv

LEMMA AddedOne ==
    ASSUME AttestationsInv, NEW a \in Attesters, NEW s \in Subjects,
           NEW data \in AttestationData, NEW nonce, AddAttestation(a, s, data, nonce)
    PROVE  AttestationsInv'
<1> DEFINE by == <<a>>
           said == <<data>>
<1>1. /\ by \in Seq(Attesters) /\ said \in Seq(AttestationData) /\ Len(by) = 1
      /\ Len(said) = 1 /\ by[1] = a
  OBVIOUS
<1>2. Record(s, by, said) /\ ConsumeNonces({a}, nonce) /\ dedup' \ dedup = {}
  BY DEF AddAttestation
<1> HIDE DEF by, said
<1>3. /\ \A x : x \in {a} <=> \E k \in 1 .. Len(by) : by[k] = x
      /\ \A k, l \in 1 .. Len(by) : by[k] = by[l] => k = l
  BY <1>1
<1>4. \A key \in dedup' \ dedup : \E k \in 1 .. Len(by) : key = Said(by[k], s, said[k])
  BY <1>2
<1>5. Len(said) = Len(by)
  BY <1>1
<1> QED
  BY <1>1, <1>2, <1>3, <1>4, <1>5, Added

LEMMA AddedBatch ==
    ASSUME AttestationsInv, NEW s \in Subjects, NEW by \in Seq(Attesters),
           NEW data \in Seq(AttestationData), Len(data) = Len(by),
           \A k, l \in 1 .. Len(by) : by[k] = by[l] => k = l,
           NEW nonce, AddAttestationBatch(s, by, data, nonce)
    PROVE  AttestationsInv'
<1> DEFINE batch == {by[k] : k \in DOMAIN by}
           said == {Said(by[k], s, data[k]) : k \in DOMAIN by}
<1>1. Record(s, by, data) /\ ConsumeNonces(batch, nonce) /\ dedup' = dedup \cup said
  BY DEF AddAttestationBatch
<1>2. DOMAIN by = 1 .. Len(by)
  OBVIOUS
<1>3. \A a : a \in batch <=> \E k \in 1 .. Len(by) : by[k] = a
  BY <1>2
<1>4. \A key \in dedup' \ dedup : \E k \in 1 .. Len(by) : key = Said(by[k], s, data[k])
  BY <1>1, <1>2
<1> HIDE DEF batch, said
<1> QED
  BY <1>1, <1>3, <1>4, Added

LEMMA AddedBatchOfOne ==
    ASSUME AttestationsInv, NEW s \in Subjects, NEW a \in Attesters,
           NEW d \in AttestationData, NEW nonce, AddAttestationBatch(s, <<a>>, <<d>>, nonce)
    PROVE  AttestationsInv'
<1> DEFINE by == <<a>>
           data == <<d>>
<1>1. /\ by \in Seq(Attesters) /\ data \in Seq(AttestationData) /\ Len(data) = Len(by)
      /\ Len(by) = 1
  OBVIOUS
<1>2. AddAttestationBatch(s, by, data, nonce)
  OBVIOUS
<1> HIDE DEF by, data
<1>3. \A k, l \in 1 .. Len(by) : by[k] = by[l] => k = l
  BY <1>1
<1> QED
  BY <1>1, <1>2, <1>3, AddedBatch

(* Two calls of one attester in a batch would leave a batch of one.         *)
LEMMA AddedBatchOfTwo ==
    ASSUME AttestationsInv, NEW s \in Subjects, NEW a \in Attesters, NEW b \in Attesters,
           NEW d \in AttestationData, NEW e \in AttestationData, NEW nonce,
           AddAttestationBatch(s, <<a, b>>, <<d, e>>, nonce)
    PROVE  AttestationsInv'
<1> DEFINE by == <<a, b>>
           data == <<d, e>>
<1>1. /\ by \in Seq(Attesters) /\ data \in Seq(AttestationData) /\ Len(data) = Len(by)
      /\ Len(by) = 2 /\ by[1] = a /\ by[2] = b
  OBVIOUS
<1>2. AddAttestationBatch(s, by, data, nonce)
  OBVIOUS
<1>3. Cardinality({by[k] : k \in DOMAIN by}) = 2
  BY DEF AddAttestationBatch
<1> HIDE DEF by, data
<1>4. DOMAIN by = 1 .. 2
  BY <1>1
<1>5. a # b
  <2> SUFFICES ASSUME a = b PROVE FALSE
    OBVIOUS
  <2>1. {by[k] : k \in DOMAIN by} = {a}
    BY <1>1, <1>4
  <2>2. Cardinality({a}) = 1
    BY FS_Singleton
  <2> QED
    BY <1>3, <2>1, <2>2
<1>6. \A k, l \in 1 .. Len(by) : by[k] = by[l] => k = l
  BY <1>1, <1>5
<1> QED
  BY <1>1, <1>2, <1>6, AddedBatch

(***************************************************************************)
(* A revocation.                                                           *)
(***************************************************************************)
(* revoke_attestation clears the key and leaves the lists.                  *)
LEMMA Revoked ==
    ASSUME AttestationsInv, NEW a \in Attesters, NEW id \in AttestationIds, NEW nonce,
           RevokeAttestation(a, id, nonce)
    PROVE  AttestationsInv'
<1> DEFINE said == attestation[id].said
<1>1. /\ attestation[id] # NoAttestation /\ said.verifier = a /\ ~attestation[id].revoked
      /\ attestation' = [attestation EXCEPT ![id].revoked = TRUE]
      /\ dedup' = dedup \ {said}
      /\ subject_list' = [subject_list EXCEPT ![said.identity] = Without(@, {id})]
      /\ subject_count' = [subject_count EXCEPT ![said.identity] = IF @ = 0 THEN 0 ELSE @ - 1]
      /\ subject_count'[said.identity] = Len(subject_list'[said.identity])
      /\ attestation_counter' = attestation_counter
      /\ attester_nonce' =
            [b \in Attesters |-> attester_nonce[b] + IF b \in {a} THEN 1 ELSE 0]
  BY Zenon DEF RevokeAttestation, Forget, Strike, ConsistentFor, ConsumeNonces
<1>2. /\ AttestationsTyped /\ DedupKeysHonest /\ NoncesCountCalls
      /\ \A t \in Subjects : ListedFor(t)
  BY DEF AttestationsInv
<1>3. /\ attestation[id] \in AttestationRecords /\ id \in Made
      /\ said.identity \in Subjects
  <2>1. attestation[id] \in AttestationRecords /\ id < attestation_counter
    BY <1>1, <1>2 DEF AttestationsTyped
  <2>2. id \in Made
    BY <1>2, <2>1 DEF Made, AttestationIds, AttestationsTyped
  <2> QED
    BY <2>1, <2>2 DEF AttestationRecords
<1>s. PICK s \in Subjects : s = said.identity
  BY <1>3
<1> DEFINE new == [attestation[id] EXCEPT !.revoked = TRUE]
<1>4. /\ new \in AttestationRecords /\ new.said = said /\ new.revoked
  BY <1>3 DEF AttestationRecords
<1>5. attestation' = [attestation EXCEPT ![id] = new]
  BY <1>1
<1> HIDE DEF new
<1>6. /\ attestation'[id] = new
      /\ \A i \in AttestationIds \ {id} : attestation'[i] = attestation[i]
      /\ attestation' \in [AttestationIds -> AttestationRecords \cup {NoAttestation}]
  BY <1>2, <1>4, <1>5 DEF AttestationsTyped
<1>7. Made' = Made /\ Made \subseteq AttestationIds
  BY <1>1, <1>2 DEF Made, AttestationIds, AttestationsTyped
<1>8. \A i \in Made : attestation'[i].said = attestation[i].said
  BY <1>4, <1>6, <1>7
<1>9. \A i \in Made : attestation'[i].revoked <=> i = id \/ attestation[i].revoked
  BY <1>4, <1>6, <1>7
<1>10. ASSUME NEW t \in Subjects
       PROVE  LiveOf(t)' = IF t = s THEN LiveOf(t) \ {id} ELSE LiveOf(t)
  <2>1. t # s => id \notin LiveOf(t)
    BY <1>s DEF LiveOf
  <2>2. LiveOf(t)' = LiveOf(t) \ {id}
    BY <1>7, <1>8, <1>9 DEF LiveOf
  <2> QED
    BY <2>1, <2>2
<1>11. id \in LiveOf(s) /\ s \in Subjects
  BY <1>1, <1>3, <1>s DEF LiveOf
<1>12. \A t \in Subjects : ListedFor(t)'
  <2>1. ASSUME NEW t \in Subjects, t # s PROVE ListedFor(t)'
    <3>1. subject_list'[t] = subject_list[t] /\ subject_count'[t] = subject_count[t]
      BY <1>1, <1>2, <1>s, <2>1 DEF AttestationsTyped
    <3>2. LiveOf(t)' = LiveOf(t)
      BY <1>10, <2>1
    <3> QED
      BY <1>2, <3>1, <3>2 DEF ListedFor
  <2>2. ListedFor(s)'
    <3> DEFINE old == subject_list[s]
    <3>1. old \in Seq(Int) /\ Lists(old, LiveOf(s)) /\ Ascending(old)
      BY <1>2, <1>11 DEF AttestationsTyped, ListedFor
    <3>2. subject_list'[s] = Without(old, {id})
      BY <1>1, <1>2, <1>s DEF AttestationsTyped
    <3> HIDE DEF old
    <3>3. Lists(Without(old, {id}), LiveOf(s) \ {id})
      BY <3>1, ListsWithout
    <3>4. Ascending(Without(old, {id}))
      BY <3>1, AscendingWithout
    <3> QED
      BY <1>1, <1>s, <1>10, <3>2, <3>3, <3>4 DEF ListedFor
  <2> QED
    BY <2>1, <2>2
<1>13. AttestationsTyped'
  <2>1. subject_list' \in [Subjects -> Seq(Int)]
    <3>1. subject_list[s] \in Seq(Int) /\ Lists(subject_list[s], LiveOf(s))
      BY <1>2, <1>11 DEF AttestationsTyped, ListedFor
    <3>2. Without(subject_list[s], {id}) \in Seq(Int)
      BY <3>1, ListsWithout
    <3> QED
      BY <1>1, <1>2, <1>s, <3>2 DEF AttestationsTyped
  <2>2. subject_count' \in [Subjects -> Int]
    <3>1. subject_count \in [Subjects -> Int] /\ subject_count[s] \in Int
      BY <1>2 DEF AttestationsTyped
    <3>2. (IF subject_count[s] = 0 THEN 0 ELSE subject_count[s] - 1) \in Int
      BY <3>1
    <3> QED
      BY <1>1, <1>s, <3>1, <3>2
  <2>4. attester_nonce' \in [Attesters -> Int]
    BY <1>1, <1>2 DEF AttestationsTyped
  <2>3. ASSUME NEW i \in AttestationIds
        PROVE  attestation'[i] \in AttestationRecords <=> i < attestation_counter'
    <3>1. attestation[i] \in AttestationRecords <=> i < attestation_counter
      BY <1>2 DEF AttestationsTyped
    <3> QED
      BY <1>1, <1>3, <1>4, <1>6, <3>1
  <2> QED
    BY <1>1, <1>2, <1>6, <2>1, <2>2, <2>3, <2>4 DEF AttestationsTyped
<1>14. DedupKeysHonest'
  <2> SUFFICES ASSUME NEW key \in dedup \ {said}
               PROVE  \E i \in Made : attestation'[i].said = key /\ ~attestation'[i].revoked
    BY <1>1, <1>7 DEF DedupKeysHonest
  <2>1. PICK i \in Made : attestation[i].said = key /\ ~attestation[i].revoked
    BY <1>2 DEF DedupKeysHonest
  <2>2. i # id
    BY <2>1
  <2> QED
    BY <1>8, <1>9, <2>1, <2>2
<1>15. NoncesCountCalls'
  <2>1. ASSUME NEW b \in Attesters PROVE CallsCounted(b)'
    <3>1. /\ CallsCounted(b) /\ Cardinality(SaidBy(b)) \in Nat
          /\ IsFiniteSet(TakenBack(b)) /\ Cardinality(TakenBack(b)) \in Nat
      BY <1>2, NoncesByAttester, CallsFinite
    <3>2. SaidBy(b)' = SaidBy(b)
      BY <1>7, <1>8 DEF SaidBy
    <3>3. CASE b = a
      <4>1. TakenBack(b)' = TakenBack(b) \cup {id} /\ id \notin TakenBack(b)
        BY <1>1, <1>3, <1>7, <1>8, <1>9, <3>3 DEF TakenBack, SaidBy
      <4>2. Cardinality(TakenBack(b) \cup {id}) = Cardinality(TakenBack(b)) + 1
        BY <3>1, <4>1, FS_AddElement
      <4>3. attester_nonce'[b] = attester_nonce[b] + 1 /\ attester_nonce[b] \in Int
        BY <1>1, <1>2, <3>3 DEF AttestationsTyped
      <4> QED
        BY <3>1, <3>2, <4>1, <4>2, <4>3 DEF CallsCounted
    <3>4. CASE b # a
      <4>1. TakenBack(b)' = TakenBack(b)
        BY <1>1, <1>3, <1>7, <1>8, <1>9, <3>4 DEF TakenBack, SaidBy
      <4>2. attester_nonce'[b] = attester_nonce[b]
        BY <1>1, <1>2, <3>4 DEF AttestationsTyped
      <4> QED
        BY <3>1, <3>2, <4>1, <4>2 DEF CallsCounted
    <3> QED
      BY <3>3, <3>4
  <2>2. (\A b \in Attesters : CallsCounted(b)') => NoncesCountCalls'
    BY Zenon DEF NoncesCountCalls, CallsCounted, SaidBy, TakenBack
  <2> QED
    BY <2>1, <2>2
<1> QED
  BY <1>12, <1>13, <1>14, <1>15 DEF AttestationsInv

(***************************************************************************)
(* The pages, and the theorems.                                            *)
(***************************************************************************)
(* The page that a limit asks for.                                          *)
SubjectPageSize(limit) == IF limit = 0 THEN MaxQueryLimit ELSE Least(limit, MaxQueryLimit)

(* The pages of a subject cover his list.                                   *)
LEMMA SubjectPagesCover ==
    ASSUME NEW s \in Subjects, subject_list[s] \in Seq(Int), NEW limit \in 0 .. MaxQueryLimit + 1
    PROVE  LET read[offset \in 0 .. Len(subject_list[s])] ==
                  LET page == SubjectPage(s, offset, limit)
                  IN  IF page = <<>> THEN page ELSE page \o read[offset + Len(page)]
           IN  read[0] = subject_list[s]
<1> DEFINE seq == subject_list[s]
           size == SubjectPageSize(limit)
           reader == CHOOSE read : Reads(seq, size, read)
<1>1. size \in Nat /\ size # 0
  BY DEF SubjectPageSize, Least
<1> HIDE DEF size
<1>2. \E read : Reads(seq, size, read)
  BY <1>1, PagesReadAll
<1>3. Reads(seq, size, reader)
  BY <1>2
<1> HIDE DEF reader
<1>4. reader[0] = seq
  BY <1>1, <1>3, PagesReadAll
<1> QED
  BY <1>4, Zenon DEF reader, Reads, PageOf, EndOf, SubjectPage, size, SubjectPageSize, Least

(* Every entry point keeps the books.                                       *)
LEMMA AttestationsStep == AttestationsInv /\ [AttestingNext]_AttestingVars => AttestationsInv'
<1> SUFFICES ASSUME AttestationsInv, [AttestingNext]_AttestingVars
             PROVE  AttestationsInv'
  OBVIOUS
<1>1. CASE UNCHANGED attestationBooks
  <2>1. /\ attester_nonce' = attester_nonce /\ attestation_counter' = attestation_counter
        /\ attestation' = attestation /\ subject_list' = subject_list
        /\ subject_count' = subject_count /\ dedup' = dedup
    BY <1>1 DEF attestationBooks
  <2>2. Made' = Made /\ AttestationsTyped' = AttestationsTyped
    BY <2>1 DEF Made, AttestationsTyped
  <2>3. ASSUME NEW s \in Subjects PROVE ListedFor(s)'
    BY <2>1, <2>2 DEF AttestationsInv, ListedFor, LiveOf
  <2>4. DedupKeysHonest'
    BY <2>1, <2>2 DEF AttestationsInv, DedupKeysHonest
  <2>5. NoncesCountCalls'
    <3>1. ASSUME NEW a \in Attesters PROVE CallsCounted(a)'
      <4>1. SaidBy(a)' = SaidBy(a)
        BY <2>1, <2>2 DEF SaidBy
      <4>2. TakenBack(a)' = TakenBack(a)
        BY <2>1, <4>1 DEF TakenBack
      <4>3. CallsCounted(a)
        BY NoncesByAttester DEF AttestationsInv
      <4> QED
        BY <2>1, <4>1, <4>2, <4>3 DEF CallsCounted
    <3>2. (\A a \in Attesters : CallsCounted(a)') => NoncesCountCalls'
      BY Zenon DEF NoncesCountCalls, CallsCounted, SaidBy, TakenBack
    <3> QED
      BY <3>1, <3>2
  <2> QED
    BY <2>2, <2>3, <2>4, <2>5 DEF AttestationsInv
<1>2. ASSUME NEW a \in Attesters, RegisterAttester(a) \/ UnregisterAttester(a)
      PROVE  UNCHANGED attestationBooks
  BY <1>2 DEF RegisterAttester, UnregisterAttester
<1>3. ASSUME NEW admin \in BondAdmins, NEW a \in Attesters, NEW amount \in Stakes,
             SetAttesterStake(admin, a, amount)
      PROVE  UNCHANGED attestationBooks
  BY <1>3 DEF SetAttesterStake
<1>4. ASSUME NEW admin \in BondAdmins, NEW m \in Multipliers, NEW w \in WeightCaps,
             SetWeightConfig(admin, m, w)
      PROVE  UNCHANGED attestationBooks
  BY <1>4 DEF SetWeightConfig
<1>5. ASSUME NEW current \in BondAdmins, NEW new \in BondAdmins, TransferAdmin(current, new)
      PROVE  UNCHANGED attestationBooks
  BY <1>5 DEF TransferAdmin
<1>6. CASE UNCHANGED AttestingVars
  BY <1>1, <1>6 DEF AttestingVars, attestationVars
<1>7. CASE AttestationsNext
  BY <1>1, <1>2, <1>3, <1>4, <1>5, <1>7, AddedOne, AddedBatchOfOne, AddedBatchOfTwo, Revoked
  DEF AttestationsNext
<1>8. CASE VerifiersNext /\ UNCHANGED <<bond_admin, weight_config, attestationBooks>>
  BY <1>1, <1>8
<1> QED
  BY <1>6, <1>7, <1>8 DEF AttestingNext

(* The lists, keys and nonces of the attestations stay right through every  *)
(* addition, batch and revocation.                                          *)
THEOREM AttestationsInvariant == AttestingSpec => []AttestationsInv
<1> QED
  BY AttestationsStart, AttestationsStep, PTL DEF AttestingSpec, AttestingInit

(* get_subject_attestations: a subject's list has exactly the attestations  *)
(* made about him, each once and ascending, his count is that of the ones   *)
(* not revoked, and the pages cover the list at any limit.                  *)
THEOREM SubjectBooksKept == AttestingSpec => []SubjectBooksAgree
<1>1. AttestationsInv => SubjectBooksAgree
  <2> SUFFICES ASSUME AttestationsInv, NEW s \in Subjects
               PROVE  /\ Lists(subject_list[s], LiveOf(s)) /\ Ascending(subject_list[s])
                      /\ subject_count[s] = Cardinality(LiveOf(s))
                      /\ \A limit \in 0 .. MaxQueryLimit + 1 :
                            LET read[offset \in 0 .. Len(subject_list[s])] ==
                                    LET page == SubjectPage(s, offset, limit)
                                    IN  IF page = <<>> THEN page
                                        ELSE page \o read[offset + Len(page)]
                            IN  read[0] = subject_list[s]
    BY Zenon DEF SubjectBooksAgree
  <2>1. ListedFor(s) /\ subject_list[s] \in Seq(Int)
    BY DEF AttestationsInv, AttestationsTyped
  <2>2. Cardinality(LiveOf(s)) = Len(subject_list[s])
    BY <2>1, ListsLen DEF ListedFor
  <2>3. ASSUME NEW limit \in 0 .. MaxQueryLimit + 1
        PROVE  LET read[offset \in 0 .. Len(subject_list[s])] ==
                       LET page == SubjectPage(s, offset, limit)
                       IN  IF page = <<>> THEN page ELSE page \o read[offset + Len(page)]
               IN  read[0] = subject_list[s]
    BY <2>1, SubjectPagesCover
  <2> QED
    BY <2>1, <2>2, <2>3, Zenon DEF ListedFor
<1> QED
  BY <1>1, AttestationsInvariant, PTL

(* The key of verifier, identity and data in add_attestation and            *)
(* revoke_attestation points to the attestation that stands under it,       *)
(* through re-attesting and batches.                                        *)
THEOREM DedupKeysKept == AttestingSpec => []DedupKeysHonest
<1>1. AttestationsInv => DedupKeysHonest
  BY DEF AttestationsInv
<1> QED
  BY <1>1, AttestationsInvariant, PTL

(* The nonce of an attester in nonce.rs counts his accepted calls, whatever *)
(* mix of single calls, batches and revocations they were.                  *)
THEOREM NoncesKept == AttestingSpec => []NoncesCountCalls
<1>1. AttestationsInv => NoncesCountCalls
  BY DEF AttestationsInv
<1> QED
  BY <1>1, AttestationsInvariant, PTL

HIDE AttestationsAssumption

-----------------------------------------------------------------------------
(***************************************************************************)
(* Scanner: the registry of holders.                                       *)
(***************************************************************************)
(* The holders with a slot who count.                                       *)
Counted == {h \in Holders : Listed(h) /\ holder_active[h]}

(* Slots and holders point to each other; the size is that of the set.      *)
SlotsInv ==
    /\ bond_holders \in Seq(Holders) /\ holder_active \in [Holders -> BOOLEAN]
    /\ \E S \in SUBSET Holders : Lists(bond_holders, S)
    /\ registry_size = Cardinality(Counted)

LEMMA SlotsStart == ScannerInit => SlotsInv
<1> SUFFICES ASSUME ScannerInit PROVE SlotsInv
  OBVIOUS
<1>1. Lists(bond_holders, {})
  BY ListsEmpty DEF ScannerInit
<1>2. \A h : ~Listed(h)
  <2>1. bond_holders \in Seq(Holders)
    BY DEF ScannerInit
  <2> QED
    BY <1>1, <2>1, ListsContains DEF Listed
<1>3. Counted = {}
  BY <1>2 DEF Counted
<1> QED
  BY <1>1, <1>3, FS_EmptySet DEF SlotsInv, ScannerInit

(* A holder more or less in the set.                                        *)
LEMMA HolderCounts ==
    ASSUME SlotsInv
    PROVE  IsFiniteSet(Counted) /\ registry_size \in Nat /\ registry_size = Cardinality(Counted)
BY ScannerAssumption, FS_Subset, FS_CardinalityType DEF SlotsInv, Counted

(* A new holder has a slot at the end, one who comes back has his old one.  *)
LEMMA HolderJoins ==
    ASSUME SlotsInv, NEW h \in Holders, RegisterBondHolder(h)
    PROVE  SlotsInv'
<1>1. PICK S \in SUBSET Holders : Lists(bond_holders, S)
  BY DEF SlotsInv
<1>2. \A x : Listed(x) <=> x \in S
  BY <1>1, ListsContains DEF SlotsInv, Listed
<1>3. /\ h \notin Counted
      /\ bond_holders' \in Seq(Holders) /\ Lists(bond_holders', S \cup {h})
  <2>1. CASE Listed(h)
    <3>1. S \cup {h} = S
      BY <1>2, <2>1
    <3> QED
      BY <1>1, <2>1, <3>1 DEF RegisterBondHolder, SlotsInv, Counted
  <2>2. CASE ~Listed(h)
    <3>1. bond_holders' = Append(bond_holders, h) /\ h \notin S
      BY <1>2, <2>2 DEF RegisterBondHolder
    <3> QED
      BY <1>1, <2>2, <3>1, ListsAppend DEF SlotsInv, Counted
  <2> QED
    BY <2>1, <2>2
<1>4. \A x : Listed(x)' <=> x \in S \cup {h}
  BY <1>3, ListsContains DEF Listed
<1>5. holder_active' = [holder_active EXCEPT ![h] = TRUE]
  BY DEF RegisterBondHolder
<1>6. Counted' = Counted \cup {h}
  BY <1>2, <1>4, <1>5 DEF Counted, SlotsInv
<1>7. Cardinality(Counted \cup {h}) = Cardinality(Counted) + 1
  BY <1>3, HolderCounts, FS_AddElement
<1>8. registry_size' = registry_size + 1
  BY DEF RegisterBondHolder
<1>9. registry_size' = Cardinality(Counted')
  BY <1>6, <1>7, <1>8, HolderCounts
<1>10. S \cup {h} \in SUBSET Holders
  OBVIOUS
<1> QED
  BY <1>3, <1>5, <1>9, <1>10 DEF SlotsInv

(* A holder who leaves keeps his slot.                                      *)
LEMMA HolderLeaves ==
    ASSUME SlotsInv, NEW h \in Holders, DeregisterBondHolder(h)
    PROVE  SlotsInv'
<1>1. /\ Listed(h) /\ holder_active[h] /\ bond_holders' = bond_holders
      /\ holder_active' = [holder_active EXCEPT ![h] = FALSE]
      /\ registry_size' = IF registry_size > 0 THEN registry_size - 1 ELSE 0
  BY DEF DeregisterBondHolder
<1>2. Counted' = Counted \ {h} /\ h \in Counted
  BY <1>1 DEF Counted, SlotsInv, Listed
<1>3. Cardinality(Counted \ {h}) = Cardinality(Counted) - 1
  BY <1>2, HolderCounts, FS_RemoveElement
<1>4. IsFiniteSet(Counted \ {h}) /\ Cardinality(Counted \ {h}) \in Nat
  BY HolderCounts, FS_Subset, FS_CardinalityType
<1>5. registry_size' = Cardinality(Counted')
  BY <1>1, <1>2, <1>3, <1>4, HolderCounts
<1> QED
  BY <1>1, <1>5 DEF SlotsInv

(* liquidation_scanner.rs: the size that keepers are told is the number of  *)
(* holders in it, each with one slot, for any holders and any scans.        *)
THEOREM SizeKept == ScannerSpec => []SizeCountsHolders
<1>1. SlotsInv /\ [ScannerNext]_scannerVars => SlotsInv'
  <2> SUFFICES ASSUME SlotsInv, [ScannerNext]_scannerVars PROVE SlotsInv'
    OBVIOUS
  <2>1. ASSUME UNCHANGED <<bond_holders, holder_active, registry_size>> PROVE SlotsInv'
    BY <2>1 DEF SlotsInv, Counted, Listed
  <2>2. CASE UNCHANGED scannerVars
    BY <2>1, <2>2 DEF scannerVars
  <2>3. ASSUME NEW h \in Holders, BondMoves(h) PROVE SlotsInv'
    BY <2>1, <2>3 DEF BondMoves
  <2>4. ASSUME NEW k, NEW cursor, NEW max, Scan(k, cursor, max) PROVE SlotsInv'
    BY <2>1, <2>4 DEF Scan
  <2>5. ASSUME NEW k, ScanOn(k) PROVE SlotsInv'
    BY <2>4, <2>5 DEF ScanOn
  <2>6. ASSUME NEW k, NEW next, AdvanceKeeperCursor(k, next) PROVE SlotsInv'
    BY <2>1, <2>6 DEF AdvanceKeeperCursor
  <2> QED
    BY <2>2, <2>3, <2>4, <2>5, <2>6, HolderJoins, HolderLeaves DEF ScannerNext
<1>2. SlotsInv => SizeCountsHolders
  <2> SUFFICES ASSUME SlotsInv PROVE SizeCountsHolders
    OBVIOUS
  <2>1. PICK S \in SUBSET Holders : Lists(bond_holders, S)
    BY DEF SlotsInv
  <2>2. S = {h \in Holders : Listed(h)}
    BY <2>1, ListsContains DEF SlotsInv, Listed
  <2> QED
    BY <2>1, <2>2 DEF SizeCountsHolders, SlotsInv, Counted
<1> QED
  BY <1>1, <1>2, SlotsStart, PTL DEF ScannerSpec

-----------------------------------------------------------------------------
(***************************************************************************)
(* Claims: pages, queues, totals and records.                              *)
(***************************************************************************)
USE LedgerAssumption, ClaimsAssumption

(***************************************************************************)
(* The pages.                                                              *)
(***************************************************************************)
(* The claims that claims.rs can queue.                                     *)
ClaimSet == [id : ClaimIds, type : ClaimTypes, amount : Nat, expires_at : Nat]

(* Oldest first.                                                            *)
ById(seq) == \A i, j \in 1 .. Len(seq) : i < j => seq[i].id < seq[j].id

(* The page that a limit asks for.                                          *)
ClaimsPageSize(limit) == IF limit < MaxClaimsPage THEN limit ELSE MaxClaimsPage

(* The fields of a queued claim.                                            *)
LEMMA ClaimFields ==
    ASSUME NEW seq \in Seq(ClaimSet)
    PROVE  \A i \in 1 .. Len(seq) : /\ seq[i] \in ClaimSet
                                    /\ seq[i].id \in Int /\ seq[i].id >= 1 /\ seq[i].id # 0
                                    /\ seq[i].id \in ClaimIds
                                    /\ seq[i].amount \in Nat /\ seq[i].expires_at \in Nat
<1>1. \A i \in 1 .. Len(seq) : seq[i] \in ClaimSet
  OBVIOUS
<1> QED
  BY <1>1 DEF ClaimSet, ClaimIds

(* A cursor cuts the queue in two.                                          *)
LEMMA CursorCuts ==
    ASSUME NEW seq \in Seq(ClaimSet), ById(seq), NEW cursor \in Int
    PROVE  \E k \in 0 .. Len(seq) : \A j \in 1 .. Len(seq) : seq[j].id <= cursor <=> j <= k
<1> DEFINE n == Len(seq)
           P == {k \in 0 .. n : k = n \/ seq[k + 1].id > cursor}
<1>1. P \in SUBSET Nat /\ P # {} /\ n \in Nat
  <2>1. n \in P
    OBVIOUS
  <2> QED
    BY <2>1
<1>2. PICK k \in P : \A m \in P : k <= m
  <2> HIDE DEF P
  <2> QED
    BY <1>1, LeastNumber
<1>3. ASSUME NEW j \in 1 .. n PROVE seq[j].id <= cursor <=> j <= k
  <2>1. seq[j].id \in Int /\ k \in 0 .. n /\ j - 1 \in 0 .. n /\ (j - 1) + 1 = j /\ j - 1 # n
    BY <1>1, <1>2, ClaimFields
  <2>2. ASSUME j <= k PROVE seq[j].id <= cursor
    <3>1. j - 1 \notin P
      <4>1. j - 1 \in Int /\ k \in Int /\ j \in Int /\ ~(k <= j - 1)
        BY <2>1, <2>2
      <4> HIDE DEF P
      <4> QED
        BY <1>2, <4>1
    <3> QED
      BY <2>1, <3>1
  <2>3. ASSUME ~(j <= k) PROVE seq[j].id > cursor
    <3>1. k # n /\ k + 1 \in 1 .. n /\ k + 1 <= j
      BY <1>1, <2>1, <2>3
    <3>2. seq[k + 1].id > cursor /\ seq[k + 1].id \in Int
      BY <1>2, <3>1, ClaimFields
    <3>3. k + 1 < j => seq[k + 1].id < seq[j].id
      BY <3>1 DEF ById
    <3>4. k + 1 < j \/ k + 1 = j
      BY <2>1, <3>1
    <3> QED
      BY <2>1, <3>2, <3>3, <3>4
  <2> QED
    BY <2>1, <2>2, <2>3
<1> QED
  BY <1>2, <1>3

(* What is after a cursor, and after the cursor that is an entry's.         *)
LEMMA AfterCut ==
    ASSUME NEW u \in Users, pending[u] \in Seq(ClaimSet), NEW cursor, NEW k \in 0 .. Len(pending[u]),
           \A j \in 1 .. Len(pending[u]) : pending[u][j].id <= cursor <=> j <= k
    PROVE  After(u, cursor) = SubSeq(pending[u], k + 1, Len(pending[u]))
<1> DEFINE gone == {c \in Queued(u) : c.id <= cursor}
<1>1. \A j \in 1 .. Len(pending[u]) : pending[u][j] \in gone <=> j <= k
  <2>1. \A j \in 1 .. Len(pending[u]) : pending[u][j] \in Queued(u)
    BY DEF Queued, ToSet
  <2> QED
    BY <2>1
<1> HIDE DEF gone
<1>2. Without(pending[u], gone) = SubSeq(pending[u], k + 1, Len(pending[u]))
  BY <1>1, WithoutFirst
<1> QED
  BY <1>2 DEF After, gone

(* The identifier of an entry cuts the queue behind it.                     *)
LEMMA EntryCuts ==
    ASSUME NEW seq \in Seq(ClaimSet), ById(seq), NEW i \in 1 .. Len(seq)
    PROVE  \A j \in 1 .. Len(seq) : seq[j].id <= seq[i].id <=> j <= i
<1>1. ASSUME NEW j \in 1 .. Len(seq) PROVE seq[j].id <= seq[i].id <=> j <= i
  <2>1. seq[i].id \in Int /\ seq[j].id \in Int
    BY ClaimFields
  <2>2. /\ i < j => seq[i].id < seq[j].id
        /\ j < i => seq[j].id < seq[i].id
    BY DEF ById
  <2> QED
    BY <2>1, <2>2
<1> QED
  BY <1>1

(* The page behind the first k entries, and the cursor it gives.            *)
LEMMA ClaimsPageAt ==
    ASSUME NEW u \in Users, pending[u] \in Seq(ClaimSet), ById(pending[u]),
           NEW limit \in Nat, limit # 0, NEW cursor, NEW k \in 0 .. Len(pending[u]),
           \A j \in 1 .. Len(pending[u]) : pending[u][j].id <= cursor <=> j <= k
    PROVE  /\ Len(pending[u]) < k + ClaimsPageSize(limit) =>
                /\ ClaimsPage(u, cursor, limit).claims = SubSeq(pending[u], k + 1, Len(pending[u]))
                /\ ClaimsPage(u, cursor, limit).next = 0
           /\ ~(Len(pending[u]) < k + ClaimsPageSize(limit)) =>
                /\ k + ClaimsPageSize(limit) \in k + 1 .. Len(pending[u])
                /\ ClaimsPage(u, cursor, limit).claims
                      = SubSeq(pending[u], k + 1, k + ClaimsPageSize(limit))
                /\ ClaimsPage(u, cursor, limit).next = pending[u][k + ClaimsPageSize(limit)].id
<1> DEFINE seq == pending[u]
           n == Len(seq)
           size == ClaimsPageSize(limit)
           rest == After(u, cursor)
<1>1. /\ size \in Nat /\ size # 0 /\ n \in Nat /\ k \in Nat /\ k <= n /\ seq \in Seq(ClaimSet)
  BY DEF ClaimsPageSize
<1>2. rest = SubSeq(seq, k + 1, n)
  BY AfterCut
<1>3. /\ rest \in Seq(ClaimSet) /\ Len(rest) = n - k
      /\ \A i \in 1 .. n - k : rest[i] = seq[k + i]
  <2>1. n \in k .. n /\ k \in 0 .. n
    BY <1>1
  <2>2. PICK queue : queue = seq
    OBVIOUS
  <2>3. queue \in Seq(ClaimSet) /\ k \in 0 .. Len(queue) /\ n \in k .. Len(queue)
    BY <1>1, <2>1, <2>2
  <2>4. /\ SubSeq(queue, k + 1, n) \in Seq(ClaimSet)
        /\ Len(SubSeq(queue, k + 1, n)) = n - k
        /\ \A i \in 1 .. n - k : SubSeq(queue, k + 1, n)[i] = queue[k + i]
    BY ONLY <2>3, PageNotEmpty
  <2> HIDE DEF rest
  <2> QED
    BY <1>2, <2>2, <2>4
<1>4. ClaimsPage(u, cursor, limit) =
        IF size = 0 THEN [claims |-> <<>>, next |-> 0]
        ELSE IF Len(rest) < size THEN [claims |-> rest, next |-> 0]
        ELSE [claims |-> SubSeq(rest, 1, size), next |-> rest[size].id]
  BY Zenon DEF ClaimsPage, ClaimsPageSize
<1> HIDE DEF rest, size
<1>5. CASE n < k + size
  <2>1. Len(rest) < size
    BY <1>1, <1>3, <1>5
  <2> QED
    BY <1>1, <1>2, <1>4, <1>5, <2>1 DEF size
<1>6. CASE ~(n < k + size)
  <2>1. ~(Len(rest) < size) /\ size \in 1 .. n - k /\ k + size \in k + 1 .. n
    BY <1>1, <1>3, <1>6
  <2>2. SubSeq(rest, 1, size) = SubSeq(seq, k + 1, k + size)
    <3>1. /\ k + 1 \in 1 .. Len(seq) /\ n \in 1 .. Len(seq)
          /\ 1 \in 1 .. n - (k + 1) + 1 /\ size \in 1 .. n - (k + 1) + 1
          /\ k + 1 + 1 - 1 = k + 1 /\ k + 1 + size - 1 = k + size
      BY <1>1, <2>1
    <3>2. SubSeq(SubSeq(seq, k + 1, n), 1, size) = SubSeq(seq, k + 1 + 1 - 1, k + 1 + size - 1)
      BY <1>1, <3>1, SubSeqOfSubSeq
    <3> QED
      BY <1>2, <3>1, <3>2
  <2>3. rest[size] = seq[k + size]
    BY <1>3, <2>1
  <2>4. PICK claims, next : claims = SubSeq(seq, k + 1, k + size) /\ next = seq[k + size].id
    OBVIOUS
  <2>5. ClaimsPage(u, cursor, limit) = [claims |-> claims, next |-> next]
    BY <1>1, <1>4, <2>1, <2>2, <2>3, <2>4
  <2>6. ClaimsPage(u, cursor, limit).claims = claims /\ ClaimsPage(u, cursor, limit).next = next
    BY <2>5
  <2> HIDE DEF seq
  <2> QED
    BY <1>6, <2>1, <2>4, <2>6 DEF size, seq
<1> QED
  BY <1>5, <1>6 DEF size

(* Reading on from the cursor that each page gives.                         *)
ClaimsReader(u, limit, read) ==
    read = [cursor \in {0} \cup ClaimIds |->
              ClaimsPage(u, cursor, limit).claims
                \o (IF ClaimsPage(u, cursor, limit).next = 0 THEN <<>>
                    ELSE read[ClaimsPage(u, cursor, limit).next])]

(* The function that reads page after page exists: it gives what is behind  *)
(* its cursor...                                                            *)
LEMMA ClaimsReaderExists ==
    ASSUME NEW u \in Users, pending[u] \in Seq(ClaimSet), ById(pending[u]),
           NEW limit \in Nat, limit # 0
    PROVE  \E read : ClaimsReader(u, limit, read)
<1> DEFINE seq == pending[u]
           n == Len(seq)
           size == ClaimsPageSize(limit)
           read == [cursor \in {0} \cup ClaimIds |-> After(u, cursor)]
           page(cursor) == ClaimsPage(u, cursor, limit)
<1>1. size \in Nat /\ size # 0 /\ n \in Nat /\ seq \in Seq(ClaimSet)
  BY DEF ClaimsPageSize
<1>2. ASSUME NEW cursor \in {0} \cup ClaimIds
      PROVE  read[cursor]
               = page(cursor).claims
                   \o (IF page(cursor).next = 0 THEN <<>> ELSE read[page(cursor).next])
  <2>1. cursor \in Int
    BY DEF ClaimIds
  <2>2. PICK k \in 0 .. n : \A j \in 1 .. n : seq[j].id <= cursor <=> j <= k
    BY <2>1, CursorCuts
  <2>3. read[cursor] = SubSeq(seq, k + 1, n)
    BY <2>2, AfterCut
  <2> HIDE DEF read, size, page
  <2>4. CASE n < k + size
    <3>1. page(cursor).claims = SubSeq(seq, k + 1, n) /\ page(cursor).next = 0
      BY <2>2, <2>4, ClaimsPageAt DEF size, page
    <3>2. SubSeq(seq, k + 1, n) \in Seq(ClaimSet)
      <4>1. n \in k .. n
        BY <1>1
      <4> QED
        BY <1>1, <4>1, PageNotEmpty
    <3> QED
      BY <2>3, <3>1, <3>2, ConcatEmptySeq
  <2>5. CASE ~(n < k + size)
    <3> DEFINE m == k + size
    <3>1. /\ m \in k + 1 .. n
          /\ page(cursor).claims = SubSeq(seq, k + 1, m) /\ page(cursor).next = seq[m].id
      BY <2>2, <2>5, ClaimsPageAt DEF size, page
    <3>2. m \in 1 .. n /\ m \in k .. n /\ m \in 0 .. n
      BY <1>1, <3>1
    <3> HIDE DEF m
    <3>3. seq[m].id \in ClaimIds /\ seq[m].id # 0
      BY <1>1, <3>2, ClaimFields
    <3>4. \A j \in 1 .. n : seq[j].id <= seq[m].id <=> j <= m
      BY <1>1, <3>2, EntryCuts
    <3>5. read[seq[m].id] = SubSeq(seq, m + 1, n)
      <4>1. After(u, seq[m].id) = SubSeq(seq, m + 1, n)
        BY <1>1, <3>2, <3>4, AfterCut
      <4> QED
        BY <3>3, <4>1 DEF read
    <3>6. SubSeq(seq, k + 1, n) = SubSeq(seq, k + 1, m) \o SubSeq(seq, m + 1, n)
      <4>1. k + 1 \in 1 .. Len(seq) + 1 /\ m \in (k + 1) - 1 .. Len(seq) /\ n \in m .. Len(seq)
        BY <1>1, <3>1, <3>2
      <4> QED
        BY <1>1, <4>1, ConcatAdjacentSubSeq
    <3> QED
      BY <2>3, <3>1, <3>3, <3>5, <3>6
  <2> QED
    BY <2>4, <2>5
<1>3. ClaimsReader(u, limit, read)
  BY <1>2 DEF ClaimsReader
<1> QED
  BY <1>3

(* ...and every such function reads the whole queue from cursor 0.          *)
LEMMA ClaimsReadAll ==
    ASSUME NEW u \in Users, pending[u] \in Seq(ClaimSet), ById(pending[u]),
           NEW limit \in Nat, limit # 0, NEW read, ClaimsReader(u, limit, read)
    PROVE  read[0] = pending[u]
<1> DEFINE seq == pending[u]
           n == Len(seq)
           size == ClaimsPageSize(limit)
           at == [o \in 0 .. n |-> IF o = 0 THEN 0 ELSE seq[o].id]
           from == [o \in 0 .. n |-> read[at[o]]]
           end == [o \in 0 .. n |-> IF o + size <= n THEN o + size ELSE n]
           page(cursor) == ClaimsPage(u, cursor, limit)
<1>1. size \in Nat /\ size # 0 /\ n \in Nat /\ seq \in Seq(ClaimSet)
  BY DEF ClaimsPageSize
<1> HIDE DEF size
<1>2. \A cursor \in {0} \cup ClaimIds :
         read[cursor] = page(cursor).claims
                          \o (IF page(cursor).next = 0 THEN <<>> ELSE read[page(cursor).next])
  BY DEF ClaimsReader
<1>3. ASSUME NEW o \in 0 .. n
      PROVE  /\ at[o] \in {0} \cup ClaimIds
             /\ \A j \in 1 .. n : seq[j].id <= at[o] <=> j <= o
  <2>1. CASE o = 0
    <3>1. at[o] = 0
      BY <1>1, <2>1
    <3>2. \A j \in 1 .. n : ~(seq[j].id <= 0) /\ ~(j <= 0)
      BY <1>1, ClaimFields
    <3> QED
      BY <2>1, <3>1, <3>2
  <2>2. CASE o # 0
    <3>1. o \in 1 .. n /\ at[o] = seq[o].id
      BY <1>1, <2>2
    <3>2. seq[o].id \in ClaimIds
      BY <1>1, <3>1, ClaimFields
    <3>3. \A j \in 1 .. n : seq[j].id <= seq[o].id <=> j <= o
      BY <1>1, <3>1, EntryCuts
    <3> QED
      BY <3>1, <3>2, <3>3
  <2> QED
    BY <2>1, <2>2
<1>4. \A o \in 1 .. n : at[o] = seq[o].id /\ at[o] # 0
  BY <1>1, ClaimFields
<1>5. \A o \in 0 .. n : from[o] = read[at[o]]
  OBVIOUS
<1>6. at[0] = 0
  BY <1>1
<1> HIDE DEF at, from, page
<1>7. ASSUME NEW o \in 0 .. n, n < o + size PROVE from[o] = SubSeq(seq, o + 1, n)
  <2>1. page(at[o]).claims = SubSeq(seq, o + 1, n) /\ page(at[o]).next = 0
    BY <1>1, <1>3, <1>7, ClaimsPageAt DEF size, page
  <2>2. SubSeq(seq, o + 1, n) \in Seq(ClaimSet)
    <3>1. n \in o .. n
      BY <1>1
    <3> QED
      BY <1>1, <3>1, PageNotEmpty
  <2>3. from[o] = SubSeq(seq, o + 1, n) \o <<>>
    BY <1>2, <1>3, <1>5, <2>1
  <2> QED
    BY <2>2, <2>3, ConcatEmptySeq
<1>8. ASSUME NEW o \in 0 .. n, ~(n < o + size)
      PROVE  /\ o + size \in o + 1 .. n
             /\ from[o] = SubSeq(seq, o + 1, o + size) \o from[o + size]
  <2>1. /\ o + size \in o + 1 .. n
        /\ page(at[o]).claims = SubSeq(seq, o + 1, o + size)
        /\ page(at[o]).next = seq[o + size].id
    <3>1. PICK cursor : cursor = at[o]
      OBVIOUS
    <3>2. \A j \in 1 .. n : seq[j].id <= cursor <=> j <= o
      BY <1>3, <3>1
    <3>3. ~(n < o + ClaimsPageSize(limit))
      BY <1>8 DEF size
    <3>4. /\ o + ClaimsPageSize(limit) \in o + 1 .. n
          /\ ClaimsPage(u, cursor, limit).claims = SubSeq(seq, o + 1, o + ClaimsPageSize(limit))
          /\ ClaimsPage(u, cursor, limit).next = seq[o + ClaimsPageSize(limit)].id
      BY <3>2, <3>3, ClaimsPageAt
    <3>5. ClaimsPage(u, cursor, limit) = page(at[o]) /\ ClaimsPageSize(limit) = size
      BY <3>1 DEF size, page
    <3> QED
      BY <3>4, <3>5
  <2>2. o + size \in 1 .. n /\ o + size \in 0 .. n
    BY <1>1, <2>1
  <2>3. seq[o + size].id = at[o + size] /\ at[o + size] # 0
    BY <1>4, <2>2
  <2>4. from[o] = SubSeq(seq, o + 1, o + size) \o read[at[o + size]]
    <3>1. PICK cursor \in {0} \cup ClaimIds : cursor = at[o]
      BY <1>3
    <3>2. page(cursor).claims = SubSeq(seq, o + 1, o + size) /\ page(cursor).next = at[o + size]
      BY <2>1, <2>3, <3>1
    <3>3. page(cursor).next # 0
      BY <2>3, <3>2
    <3>4. read[cursor] = page(cursor).claims \o read[page(cursor).next]
      BY <1>2, <3>3
    <3> QED
      BY <1>5, <3>1, <3>2, <3>4
  <2> QED
    BY <1>5, <2>1, <2>2, <2>4
<1>9. from[n] = <<>>
  <2>1. n \in 0 .. n /\ n < n + size /\ n + 1 \in Int /\ n \in Int /\ n < n + 1
    BY <1>1
  <2>2. SubSeq(seq, n + 1, n) = <<>>
    BY <2>1, SubSeqEmpty
  <2> QED
    BY <1>7, <2>1, <2>2
<1>10. ASSUME NEW o \in 0 .. n - 1
       PROVE  /\ end[o] \in o + 1 .. n
              /\ from[o] = SubSeq(seq, o + 1, end[o])
                             \o (IF end[o] = n THEN <<>> ELSE from[end[o]])
  <2>1. o \in 0 .. n /\ o < n /\ end[o] = IF o + size <= n THEN o + size ELSE n
    BY <1>1
  <2> HIDE DEF end
  <2>2. CASE n < o + size
    <3>1. end[o] = n /\ end[o] \in o + 1 .. n
      BY <1>1, <2>1, <2>2
    <3>2. from[o] = SubSeq(seq, o + 1, n)
      BY <1>7, <2>1, <2>2
    <3>3. SubSeq(seq, o + 1, n) \in Seq(ClaimSet)
      <4>1. n \in o .. n
        BY <1>1, <2>1
      <4> QED
        BY <1>1, <2>1, <4>1, PageNotEmpty
    <3>4. SubSeq(seq, o + 1, n) = SubSeq(seq, o + 1, n) \o <<>>
      BY <3>3, ConcatEmptySeq
    <3> QED
      BY <3>1, <3>2, <3>4
  <2>3. CASE ~(n < o + size)
    <3>1. end[o] = o + size /\ end[o] \in o + 1 .. n
      BY <1>1, <2>1, <2>3
    <3>2. from[o] = SubSeq(seq, o + 1, end[o]) \o from[end[o]]
      BY <1>8, <2>1, <2>3, <3>1
    <3> QED
      BY <1>9, <3>1, <3>2
  <2> QED
    BY <2>2, <2>3
<1> HIDE DEF end
<1>11. CASE n = 0
  <2>1. 0 \in 0 .. n /\ from[0] = <<>> /\ seq = <<>>
    BY <1>1, <1>9, <1>11
  <2> QED
    BY <1>5, <1>6, <2>1
<1>12. CASE n # 0
  <2>1. 0 \in 0 .. n - 1 /\ 0 \in 0 .. n
    BY <1>1, <1>12
  <2>2. \A o \in 0 .. n - 1 : from[o] = SubSeq(seq, o + 1, n)
    <3>1. PICK queue, starts, ends : queue = seq /\ starts = from /\ ends = end
      OBVIOUS
    <3>2. /\ queue \in Seq(ClaimSet)
          /\ \A o \in 0 .. Len(queue) - 1 :
                /\ ends[o] \in o + 1 .. Len(queue)
                /\ starts[o] = SubSeq(queue, o + 1, ends[o])
                                 \o (IF ends[o] = Len(queue) THEN <<>> ELSE starts[ends[o]])
      BY <1>1, <1>10, <3>1
    <3>3. \A o \in 0 .. Len(queue) - 1 : starts[o] = SubSeq(queue, o + 1, Len(queue))
      BY ONLY <3>2, PagesRead
    <3> QED
      BY <3>1, <3>3
  <2>3. from[0] = SubSeq(seq, 1, n)
    BY <2>1, <2>2
  <2> QED
    BY <1>1, <1>5, <1>6, <2>1, <2>3, SubSeqFull
<1> QED
  BY <1>11, <1>12

(***************************************************************************)
(* The queues.                                                             *)
(***************************************************************************)
(* Claims that leave a queue leave it in order.                             *)
LEMMA ByIdWithout ==
    ASSUME NEW seq \in Seq(ClaimSet), ById(seq), NEW gone
    PROVE  /\ Without(seq, gone) \in Seq(ClaimSet) /\ ById(Without(seq, gone))
           /\ ToSet(Without(seq, gone)) = ToSet(seq) \ gone
<1> DEFINE new == Without(seq, gone)
<1>1. new \in Seq(ClaimSet) /\ \E m : Embeds(m, new, seq, Len(seq), gone)
  BY WithoutEmbeds
<1> HIDE DEF new
<1>2. PICK m : Embeds(m, new, seq, Len(seq), gone)
  BY <1>1
<1>3. /\ \A k \in 1 .. Len(new) : m[k] \in 1 .. Len(seq) /\ new[k] = seq[m[k]]
      /\ \A k, l \in 1 .. Len(new) : k < l => m[k] < m[l]
  BY <1>2 DEF Embeds
<1>4. ById(new)
  BY <1>3 DEF ById
<1>5. IsInjective(seq)
  <2>1. ASSUME NEW i \in 1 .. Len(seq), NEW j \in 1 .. Len(seq), seq[i] = seq[j] PROVE i = j
    <3>1. seq[i].id \in Int /\ seq[i].id = seq[j].id
      BY <2>1, ClaimFields
    <3>2. /\ i < j => seq[i].id < seq[j].id
          /\ j < i => seq[j].id < seq[i].id
      BY DEF ById
    <3> QED
      BY <3>1, <3>2
  <2> QED
    BY <2>1 DEF IsInjective
<1>6. Lists(seq, ToSet(seq))
  BY <1>5 DEF Lists
<1>7. Lists(new, ToSet(seq) \ gone)
  BY <1>6, ListsWithout DEF new
<1> QED
  BY <1>1, <1>4, <1>7 DEF new, Lists

(* A claim with a greater identifier goes to the end.                       *)
LEMMA ByIdAppend ==
    ASSUME NEW seq \in Seq(ClaimSet), ById(seq), NEW c \in ClaimSet,
           \A i \in 1 .. Len(seq) : seq[i].id < c.id
    PROVE  /\ Append(seq, c) \in Seq(ClaimSet) /\ ById(Append(seq, c))
           /\ ToSet(Append(seq, c)) = ToSet(seq) \cup {c}
<1> DEFINE new == Append(seq, c)
<1>1. /\ new \in Seq(ClaimSet) /\ Len(new) = Len(seq) + 1
      /\ \A i \in 1 .. Len(seq) : new[i] = seq[i]
      /\ new[Len(seq) + 1] = c
      /\ Len(seq) \in Nat
  BY AppendProperties
<1> HIDE DEF new
<1>2. DOMAIN new = 1 .. Len(seq) + 1 /\ DOMAIN seq = 1 .. Len(seq)
  BY <1>1
<1>3. \A i \in 1 .. Len(seq) + 1 : i \in 1 .. Len(seq) \/ i = Len(seq) + 1
  BY <1>1
<1>4. \A i \in 1 .. Len(seq) : i \in 1 .. Len(seq) + 1
  BY <1>1
<1>5. Len(seq) + 1 \in 1 .. Len(seq) + 1
  BY <1>1
<1>6. ToSet(new) = ToSet(seq) \cup {c}
  BY <1>1, <1>2, <1>3, <1>4, <1>5 DEF ToSet
<1>7. ASSUME NEW i \in 1 .. Len(seq) + 1, NEW j \in 1 .. Len(seq) + 1, i < j
      PROVE  new[i].id < new[j].id
  <2>1. i \in 1 .. Len(seq)
    BY <1>1, <1>7
  <2>2. CASE j \in 1 .. Len(seq)
    BY <1>1, <1>7, <2>1, <2>2 DEF ById
  <2>3. CASE j = Len(seq) + 1
    BY <1>1, <2>1, <2>3
  <2> QED
    BY <1>3, <2>2, <2>3
<1>8. ById(new)
  BY <1>1, <1>7 DEF ById
<1> QED
  BY <1>1, <1>6, <1>8 DEF new

(***************************************************************************)
(* The totals.                                                             *)
(***************************************************************************)
(* The worth of some claims, summed over any set they are from.             *)
LEMMA WorthIsSum ==
    ASSUME NEW S, IsFiniteSet(S), \A c \in S : c.amount \in Nat, NEW T \in SUBSET S
    PROVE  Worth(T) = SumFunctionOnSet([c \in S |-> c.amount], T)
<1> DEFINE w == [c \in S |-> c.amount]
           x == [c \in T |-> c.amount]
<1>1. IsFiniteSet(T)
  BY FS_Subset
<1>2. \A c \in T : x[c] \in Int /\ w[c] = x[c]
  OBVIOUS
<1>3. DOMAIN x = T
  OBVIOUS
<1> HIDE DEF w, x
<1>4. SumFunctionOnSet(x, T) = SumFunctionOnSet(w, T)
  BY <1>1, <1>2, SumAgree
<1>5. SumFunction(x) = SumFunctionOnSet(x, T)
  BY <1>3 DEF SumFunction
<1> QED
  BY <1>4, <1>5 DEF Worth, w, x

(* The worth of a set is that of a part and of the rest.                    *)
LEMMA WorthParts ==
    ASSUME NEW S, IsFiniteSet(S), \A c \in S : c.amount \in Nat
    PROVE  /\ Worth(S) \in Nat
           /\ \A T \in SUBSET S : Worth(T) \in Nat /\ Worth(T) <= Worth(S)
                                  /\ Worth(S) = Worth(T) + Worth(S \ T)
<1> DEFINE w == [c \in S |-> c.amount]
<1>1. \A c \in S : w[c] \in Int
  OBVIOUS
<1>2. \A T \in SUBSET S : Worth(T) = SumFunctionOnSet(w, T)
  BY WorthIsSum
<1>3. ASSUME NEW T \in SUBSET S PROVE Worth(T) \in Nat
  <2> DEFINE x == [c \in T |-> c.amount]
  <2>1. x \in [T -> Nat] /\ IsFiniteSet(T)
    BY FS_Subset
  <2> HIDE DEF x
  <2>2. SumFunction(x) \in Nat
    BY <2>1, SumNat
  <2> QED
    BY <2>2 DEF Worth, x
<1> HIDE DEF w
<1>4. ASSUME NEW T \in SUBSET S PROVE Worth(S) = Worth(T) + Worth(S \ T)
  <2>1. SumFunctionOnSet(w, S) = SumFunctionOnSet(w, T) + SumFunctionOnSet(w, S \ T)
    BY <1>1, SumSplit
  <2> QED
    BY <1>2, <2>1
<1>5. ASSUME NEW T \in SUBSET S PROVE Worth(T) <= Worth(S)
  <2>1. Worth(T) \in Nat /\ Worth(S \ T) \in Nat
    BY <1>3
  <2> QED
    BY <1>4, <2>1
<1> QED
  BY <1>3, <1>4, <1>5

(***************************************************************************)
(* The claims.                                                             *)
(***************************************************************************)
(* What is stored of a claim, and whether it waits in a queue.              *)
ClaimRecords == [claim : ClaimSet, processed : BOOLEAN]
Waits(c) == \E u \in Users : \E q \in Queued(u) : q.id = c

(* What claims.rs stores.                                                   *)
ClaimsTyped ==
    /\ now \in Nat /\ claim_counter \in 0 .. MaxClaims
    /\ pending \in [Users -> Seq(ClaimSet)] /\ claimable \in [Users -> Int]
    /\ claim_by_id \in [ClaimIds -> ClaimRecords \cup {NoClaim}]
    /\ payouts \in [ClaimIds -> Nat]

(* A queue is in order, and the record of each entry is not yet processed.  *)
QueueOf(u) ==
    /\ ById(pending[u])
    /\ \A q \in Queued(u) : /\ q.id \in 1 .. claim_counter
                             /\ claim_by_id[q.id] = [claim |-> q, processed |-> FALSE]
(* A claim waits in one queue only.                                         *)
OneQueue == \A u, v \in Users : \A q \in Queued(u), r \in Queued(v) : q.id = r.id => u = v

(* A claim was paid once if its record says so and else waits or expired.   *)
RecordOf(c) ==
    /\ c > claim_counter => payouts[c] = 0
    /\ c <= claim_counter =>
          /\ claim_by_id[c] \in ClaimRecords
          /\ payouts[c] = IF claim_by_id[c].processed THEN 1 ELSE 0
          /\ claim_by_id[c].processed \/ Waits(c) \/ Expired(claim_by_id[c].claim)

(* The cached total covers the queue and is cleared with it.                *)
CoverOf(u) ==
    /\ claimable[u] >= Worth(Queued(u))
    /\ pending[u] = <<>> => claimable[u] = 0

ClaimsInv ==
    /\ ClaimsTyped
    /\ \A u \in Users : QueueOf(u) /\ CoverOf(u)
    /\ OneQueue
    /\ \A c \in ClaimIds : RecordOf(c)

LEMMA WorthOfNone == Worth({}) = 0
<1>1. DOMAIN [c \in {} |-> c.amount] = {}
  OBVIOUS
<1> QED
  BY <1>1, SumEmpty DEF Worth, SumFunction

LEMMA ClaimsStart == LedgerInit /\ ClaimsInit => ClaimsInv
<1> SUFFICES ASSUME LedgerInit, ClaimsInit PROVE ClaimsInv
  OBVIOUS
<1>1. /\ now = 1 /\ pending = [u \in Users |-> <<>>] /\ claimable = [u \in Users |-> 0]
      /\ claim_counter = 0 /\ claim_by_id = [c \in ClaimIds |-> NoClaim]
      /\ payouts = [c \in ClaimIds |-> 0]
  BY DEF LedgerInit, ClaimsInit
<1>2. ClaimsTyped
  BY <1>1 DEF ClaimsTyped
<1>3. \A u \in Users : Queued(u) = {} /\ pending[u] = <<>> /\ claimable[u] = 0
  BY <1>1 DEF Queued, ToSet
<1>4. \A u \in Users : QueueOf(u) /\ CoverOf(u)
  <2> TAKE u \in Users
  <2>1. Queued(u) = {} /\ pending[u] = <<>> /\ claimable[u] = 0
    BY <1>3
  <2>2. ById(<<>>)
    BY DEF ById
  <2>3. QueueOf(u)
    BY <2>1, <2>2 DEF QueueOf
  <2>4. CoverOf(u)
    BY <2>1, WorthOfNone DEF CoverOf
  <2> QED
    BY <2>3, <2>4
<1>5. OneQueue
  BY <1>3 DEF OneQueue
<1>6. \A c \in ClaimIds : RecordOf(c)
  BY <1>1 DEF RecordOf, ClaimIds
<1> QED
  BY <1>2, <1>4, <1>5, <1>6 DEF ClaimsInv

LEMMA QueueFinite ==
    ASSUME NEW seq \in Seq(ClaimSet), ById(seq)
    PROVE  /\ IsFiniteSet(ToSet(seq)) /\ ToSet(seq) \subseteq ClaimSet
           /\ \A c \in ToSet(seq) : c.amount \in Nat
<1>1. IsInjective(seq)
  <2>1. ASSUME NEW i \in 1 .. Len(seq), NEW j \in 1 .. Len(seq), seq[i] = seq[j] PROVE i = j
    <3>1. seq[i].id \in Int /\ seq[i].id = seq[j].id
      BY <2>1, ClaimFields
    <3>2. /\ i < j => seq[i].id < seq[j].id
          /\ j < i => seq[j].id < seq[i].id
      BY DEF ById
    <3> QED
      BY <3>1, <3>2
  <2> QED
    BY <2>1 DEF IsInjective
<1>2. Lists(seq, ToSet(seq))
  BY <1>1 DEF Lists
<1>3. IsFiniteSet(ToSet(seq))
  BY <1>2, ListsLen
<1>4. ToSet(seq) \subseteq ClaimSet
  BY DEF ToSet
<1> QED
  BY <1>3, <1>4 DEF ClaimSet

(* Claims leave one queue, and no more than their worth the total.          *)
LEMMA Left ==
    ASSUME ClaimsInv, NEW u \in Users, NEW gone, gone \subseteq Queued(u),
           NEW taken \in Int, taken <= Worth(gone), Leave(u, gone, taken)
    PROVE  /\ pending' \in [Users -> Seq(ClaimSet)] /\ claimable' \in [Users -> Int]
           /\ \A v \in Users : /\ ById(pending'[v]) /\ CoverOf(v)'
                               /\ Queued(v)' = IF v = u THEN Queued(v) \ gone ELSE Queued(v)
<1> DEFINE rest == Without(pending[u], gone)
<1>1. /\ pending' = [pending EXCEPT ![u] = rest]
      /\ claimable' = [claimable EXCEPT ![u] = IF rest = <<>> THEN 0 ELSE @ - taken]
  BY DEF Leave
<1>2. /\ pending \in [Users -> Seq(ClaimSet)] /\ claimable \in [Users -> Int]
      /\ \A v \in Users : ById(pending[v]) /\ CoverOf(v)
  BY DEF ClaimsInv, ClaimsTyped, QueueOf
<1>3. rest \in Seq(ClaimSet) /\ ById(rest) /\ ToSet(rest) = Queued(u) \ gone
  BY <1>2, ByIdWithout DEF Queued
<1>4. pending'[u] = rest /\ \A v \in Users \ {u} : pending'[v] = pending[v]
  BY <1>1, <1>2
<1>5. /\ claimable'[u] = IF rest = <<>> THEN 0 ELSE claimable[u] - taken
      /\ \A v \in Users \ {u} : claimable'[v] = claimable[v]
  BY <1>1, <1>2
<1>6. pending' \in [Users -> Seq(ClaimSet)]
  BY <1>1, <1>2, <1>3
<1>7. claimable[u] \in Int /\ claimable' \in [Users -> Int]
  <2>1. claimable[u] \in Int
    BY <1>2
  <2>2. (IF rest = <<>> THEN 0 ELSE claimable[u] - taken) \in Int
    BY <2>1
  <2> HIDE DEF rest
  <2> QED
    BY <1>1, <1>2, <2>1, <2>2
<1>8. Worth(Queued(u)) = Worth(gone) + Worth(Queued(u) \ gone)
      /\ Worth(Queued(u)) \in Nat /\ Worth(gone) \in Nat /\ Worth(Queued(u) \ gone) \in Nat
  <2>1. IsFiniteSet(Queued(u)) /\ \A c \in Queued(u) : c.amount \in Nat
    BY <1>2, QueueFinite DEF Queued
  <2>2. gone \in SUBSET Queued(u) /\ Queued(u) \ gone \in SUBSET Queued(u)
    OBVIOUS
  <2> QED
    BY <2>1, <2>2, WorthParts
<1>9. PICK left : left = rest
  OBVIOUS
<1> HIDE DEF rest
<1>10. Queued(u)' = Queued(u) \ gone
  BY <1>3, <1>4 DEF Queued
<1>11. CoverOf(u)'
  <2>1. CASE rest = <<>>
    <3>1. Queued(u) \ gone = {} /\ claimable'[u] = 0
      BY <1>3, <1>5, <2>1 DEF ToSet
    <3> QED
      BY <1>10, <3>1, WorthOfNone DEF CoverOf
  <2>2. CASE rest # <<>>
    <3>1. claimable'[u] = claimable[u] - taken /\ pending'[u] # <<>>
      BY <1>4, <1>5, <2>2
    <3>2. claimable[u] >= Worth(Queued(u))
      BY <1>2 DEF CoverOf
    <3>3. claimable[u] - taken >= Worth(Queued(u) \ gone)
      BY <1>7, <1>8, <3>2
    <3> QED
      BY <1>10, <3>1, <3>3 DEF CoverOf
  <2> QED
    BY <2>1, <2>2
<1>12. ASSUME NEW v \in Users, v # u
       PROVE  ById(pending'[v]) /\ CoverOf(v)' /\ Queued(v)' = Queued(v)
  <2>1. pending'[v] = pending[v] /\ claimable'[v] = claimable[v]
    BY <1>4, <1>5, <1>12
  <2>2. Queued(v)' = Queued(v)
    BY <2>1 DEF Queued
  <2> QED
    BY <1>2, <2>1, <2>2 DEF CoverOf
<1>13. ById(pending'[u])
  BY <1>3, <1>4
<1> QED
  BY <1>6, <1>7, <1>10, <1>11, <1>12, <1>13

(* Those that are paid are recorded, the others have expired.               *)
LEMMA ClaimsLeave ==
    ASSUME ClaimsInv, NEW u \in Users, NEW gone, gone \subseteq Queued(u),
           NEW paid, paid \subseteq gone, \A q \in gone \ paid : Expired(q),
           NEW taken \in Int, taken <= Worth(gone), Leave(u, gone, taken),
           now' = now, claim_counter' = claim_counter,
           claim_by_id' = [c \in ClaimIds |-> IF \E p \in paid : p.id = c
                             THEN [claim_by_id[c] EXCEPT !.processed = TRUE] ELSE claim_by_id[c]],
           payouts' = [c \in ClaimIds |-> payouts[c] + (IF \E p \in paid : p.id = c THEN 1 ELSE 0)]
    PROVE  ClaimsInv'
<1>1. /\ pending' \in [Users -> Seq(ClaimSet)] /\ claimable' \in [Users -> Int]
      /\ \A v \in Users : /\ ById(pending'[v]) /\ CoverOf(v)'
                          /\ Queued(v)' = IF v = u THEN Queued(v) \ gone ELSE Queued(v)
  BY Left
<1>2. \A v \in Users : Queued(v)' \subseteq Queued(v)
  BY <1>1
<1>3. /\ ClaimsTyped /\ OneQueue
      /\ \A v \in Users : \A q \in Queued(v) :
            /\ q.id \in 1 .. claim_counter
            /\ claim_by_id[q.id] = [claim |-> q, processed |-> FALSE]
      /\ \A c \in ClaimIds : RecordOf(c)
  BY DEF ClaimsInv, QueueOf
<1>4. 1 .. claim_counter \subseteq ClaimIds /\ claim_counter \in Nat /\ now \in Nat
  BY <1>3 DEF ClaimsTyped, ClaimIds
<1>5. /\ claim_by_id \in [ClaimIds -> ClaimRecords \cup {NoClaim}]
      /\ payouts \in [ClaimIds -> Nat]
  BY <1>3 DEF ClaimsTyped
<1>6. ASSUME NEW p \in paid
      PROVE  /\ p \in Queued(u) /\ p \in gone /\ p.id \in 1 .. claim_counter /\ p.id \in ClaimIds
             /\ claim_by_id[p.id] = [claim |-> p, processed |-> FALSE]
  BY <1>3, <1>4
<1>7. ASSUME NEW c \in ClaimIds, \E p \in paid : p.id = c
      PROVE  /\ claim_by_id'[c] \in ClaimRecords /\ claim_by_id'[c].processed = TRUE
             /\ payouts'[c] = 1 /\ c <= claim_counter
  <2>1. PICK p \in paid : p.id = c
    BY <1>7
  <2>2. /\ p \in Queued(u) /\ c \in 1 .. claim_counter
        /\ claim_by_id[c] = [claim |-> p, processed |-> FALSE]
    BY <1>6, <2>1
  <2>3. p \in ClaimSet
    <3>1. pending[u] \in Seq(ClaimSet) /\ ById(pending[u])
      BY DEF ClaimsInv, ClaimsTyped, QueueOf
    <3> QED
      BY <2>2, <3>1, QueueFinite DEF Queued
  <2>4. PICK record \in ClaimRecords : record = [claim |-> p, processed |-> FALSE]
    BY <2>3 DEF ClaimRecords
  <2>5. /\ claim_by_id'[c] = [record EXCEPT !.processed = TRUE]
        /\ [record EXCEPT !.processed = TRUE] \in ClaimRecords
        /\ [record EXCEPT !.processed = TRUE].processed = TRUE
    <3>1. claim_by_id'[c] = [claim_by_id[c] EXCEPT !.processed = TRUE]
      BY <1>7
    <3>2. /\ [record EXCEPT !.processed = TRUE] \in ClaimRecords
          /\ [record EXCEPT !.processed = TRUE].processed = TRUE
      BY DEF ClaimRecords
    <3> QED
      BY <2>2, <2>4, <3>1, <3>2
  <2>9. payouts[c] = 0
    <3>1. c <= claim_counter /\ claim_by_id[c].processed = FALSE
      BY <1>4, <2>2
    <3> QED
      BY <1>3, <3>1 DEF RecordOf
  <2>6. payouts'[c] = 1
    BY <1>7, <2>9
  <2>7. c <= claim_counter
    BY <1>4, <2>2
  <2> QED
    BY <2>5, <2>6, <2>7
<1>8. ASSUME NEW c \in ClaimIds, ~ \E p \in paid : p.id = c
      PROVE  claim_by_id'[c] = claim_by_id[c] /\ payouts'[c] = payouts[c]
  BY <1>5, <1>8
<1>9. ClaimsTyped'
  <2>1. ASSUME NEW c \in ClaimIds
        PROVE  claim_by_id'[c] \in ClaimRecords \cup {NoClaim} /\ payouts'[c] \in Nat
    <3>1. CASE \E p \in paid : p.id = c
      <4>1. claim_by_id'[c] \in ClaimRecords /\ payouts'[c] = 1
        BY <1>7, <3>1
      <4> QED
        BY <4>1
    <3>2. CASE ~ \E p \in paid : p.id = c
      <4>1. claim_by_id[c] \in ClaimRecords \cup {NoClaim} /\ payouts[c] \in Nat
        BY <1>5
      <4> QED
        BY <1>8, <3>2, <4>1
    <3> QED
      BY <3>1, <3>2
  <2>2. /\ claim_by_id' \in [ClaimIds -> ClaimRecords \cup {NoClaim}]
        /\ payouts' \in [ClaimIds -> Nat]
    BY <2>1
  <2> QED
    BY <1>1, <1>3, <2>2 DEF ClaimsTyped
<1>10. ASSUME NEW v \in Users PROVE QueueOf(v)'
  <2>1. ASSUME NEW q \in Queued(v)'
        PROVE  /\ q.id \in 1 .. claim_counter
               /\ claim_by_id'[q.id] = [claim |-> q, processed |-> FALSE]
    <3>1. /\ q \in Queued(v) /\ q.id \in 1 .. claim_counter /\ q.id \in ClaimIds
          /\ claim_by_id[q.id] = [claim |-> q, processed |-> FALSE]
      BY <1>2, <1>3, <1>4, <2>1
    <3>2. ASSUME NEW p \in paid, p.id = q.id PROVE FALSE
      <4>1. v = u
        BY <1>3, <1>6, <3>1, <3>2 DEF OneQueue
      <4>2. [claim |-> p, processed |-> FALSE] = [claim |-> q, processed |-> FALSE]
        BY <1>6, <3>1, <3>2
      <4>3. p = q
        BY <4>2
      <4> QED
        BY <1>1, <1>6, <2>1, <4>1, <4>3
    <3> QED
      BY <1>8, <3>1, <3>2
  <2> QED
    BY <1>1, <2>1 DEF QueueOf
<1>11. OneQueue'
  BY <1>2, <1>3 DEF OneQueue
<1>12. ASSUME NEW c \in ClaimIds PROVE RecordOf(c)'
  <2>1. CASE \E p \in paid : p.id = c
    <3>1. claim_by_id'[c] \in ClaimRecords /\ claim_by_id'[c].processed = TRUE
          /\ payouts'[c] = 1 /\ c <= claim_counter
      BY <1>7, <2>1
    <3>2. ~(c > claim_counter)
      BY <1>4, <3>1 DEF ClaimIds
    <3> QED
      BY <3>1, <3>2 DEF RecordOf
  <2>2. CASE ~ \E p \in paid : p.id = c
    <3>1. claim_by_id'[c] = claim_by_id[c] /\ payouts'[c] = payouts[c] /\ RecordOf(c)
      BY <1>3, <1>8, <2>2
    <3>2. ASSUME c <= claim_counter, Waits(c) PROVE Waits(c)' \/ Expired(claim_by_id[c].claim)
      <4>1. PICK v \in Users : \E q \in Queued(v) : q.id = c
        BY <3>2 DEF Waits
      <4>0. PICK q \in Queued(v) : q.id = c
        BY <4>1
      <4>2. CASE q \in Queued(v)'
        BY <4>0, <4>2 DEF Waits
      <4>3. CASE q \notin Queued(v)'
        <5>1. q \in gone \ paid
          BY <1>1, <2>2, <4>0, <4>3
        <5>2. claim_by_id[c] = [claim |-> q, processed |-> FALSE]
          BY <1>3, <4>0
        <5>3. claim_by_id[c].claim = q /\ Expired(q)
          BY <5>1, <5>2
        <5> QED
          BY <5>3
      <4> QED
        BY <4>2, <4>3
    <3> QED
      BY <3>1, <3>2 DEF RecordOf, Expired
  <2> QED
    BY <2>1, <2>2
<1> QED
  BY <1>1, <1>9, <1>10, <1>11, <1>12 DEF ClaimsInv

(* Expired ones leave with all their worth.                                 *)
LEMMA ExpiredLeave ==
    ASSUME ClaimsInv, NEW u \in Users, NEW gone, gone \subseteq Queued(u),
           \A q \in gone : Expired(q), Leave(u, gone, Worth(gone)),
           now' = now, UNCHANGED <<claim_counter, claim_by_id, payouts>>
    PROVE  ClaimsInv'
<1>1. /\ claim_by_id \in [ClaimIds -> ClaimRecords \cup {NoClaim}]
      /\ payouts \in [ClaimIds -> Nat]
      /\ pending[u] \in Seq(ClaimSet) /\ ById(pending[u])
  BY DEF ClaimsInv, ClaimsTyped, QueueOf
<1>2. Worth(gone) \in Int /\ Worth(gone) <= Worth(gone)
  <2>1. IsFiniteSet(Queued(u)) /\ \A c \in Queued(u) : c.amount \in Nat
    BY <1>1, QueueFinite DEF Queued
  <2>2. Worth(gone) \in Nat
    BY <2>1, WorthParts
  <2> QED
    BY <2>2
<1>3. PICK paid : paid = {}
  OBVIOUS
<1>4. claim_by_id' = [c \in ClaimIds |-> IF \E p \in paid : p.id = c
                        THEN [claim_by_id[c] EXCEPT !.processed = TRUE] ELSE claim_by_id[c]]
  BY <1>1, <1>3
<1>5. payouts' = [c \in ClaimIds |-> payouts[c] + (IF \E p \in paid : p.id = c THEN 1 ELSE 0)]
  BY <1>1, <1>3
<1> QED
  BY <1>2, <1>3, <1>4, <1>5, ClaimsLeave

(* cleanup_expired_claims and expire_claims.                                *)
LEMMA SweepKeeps ==
    ASSUME ClaimsInv, now' = now, NEW u \in Users, CleanupExpiredClaims(u) \/ Sweep(u)
    PROVE  ClaimsInv'
<1>1. CASE CleanupExpiredClaims(u)
  <2> DEFINE gone == {c \in Queued(u) : Expired(c)}
  <2>1. Leave(u, gone, Worth(gone)) /\ UNCHANGED <<claim_counter, claim_by_id, payouts>>
    BY <1>1 DEF CleanupExpiredClaims
  <2>2. gone \subseteq Queued(u) /\ \A q \in gone : Expired(q)
    OBVIOUS
  <2>3. PICK set : set = gone
    OBVIOUS
  <2> HIDE DEF gone
  <2>4. /\ set \subseteq Queued(u) /\ (\A q \in set : Expired(q)) /\ Leave(u, set, Worth(set))
    BY <2>1, <2>2, <2>3
  <2> QED
    BY <2>1, <2>4, ExpiredLeave
<1>2. CASE Sweep(u)
  <2>1. PICK max \in ClaimLimits : ExpireClaims(u, max)
    BY <1>2 DEF Sweep
  <2> DEFINE gone == {c \in {pending[u][i] : i \in {j \in DOMAIN pending[u] : j <= Limit(max)}} :
                         Expired(c)}
  <2>2. Leave(u, gone, Worth(gone)) /\ UNCHANGED <<claim_counter, claim_by_id, payouts>>
    BY <2>1 DEF ExpireClaims
  <2>3. gone \subseteq Queued(u) /\ \A q \in gone : Expired(q)
    BY DEF Queued, ToSet
  <2>4. PICK set : set = gone
    OBVIOUS
  <2> HIDE DEF gone
  <2>5. /\ set \subseteq Queued(u) /\ (\A q \in set : Expired(q)) /\ Leave(u, set, Worth(set))
    BY <2>2, <2>3, <2>4
  <2> QED
    BY <2>2, <2>5, ExpiredLeave
<1> QED
  BY <1>1, <1>2

(* process_claims and its variants by type.                                 *)
LEMMA ProcessKeeps ==
    ASSUME ClaimsInv, now' = now, NEW u \in Users, NEW types, NEW max, ProcessClaims(u, types, max)
    PROVE  ClaimsInv'
<1> DEFINE met == {pending[u][i] : i \in Scanned(u, types, Limit(max))}
           paid == {c \in met : Wanted(c, types)}
           gone == paid \cup {c \in met : Expired(c)}
<1>1. /\ claim_by_id' = [c \in ClaimIds |-> IF \E p \in paid : p.id = c
                            THEN [claim_by_id[c] EXCEPT !.processed = TRUE] ELSE claim_by_id[c]]
      /\ payouts' = [c \in ClaimIds |-> payouts[c] + (IF \E p \in paid : p.id = c THEN 1 ELSE 0)]
      /\ Leave(u, gone, Worth(paid))
      /\ claim_counter' = claim_counter
  BY Zenon DEF ProcessClaims
<1>2. met \subseteq Queued(u)
  BY DEF Scanned, Queued, ToSet
<1>3. /\ gone \subseteq Queued(u) /\ paid \subseteq gone
      /\ \A q \in gone \ paid : Expired(q)
  BY <1>2
<1>4. PICK p, g : p = paid /\ g = gone
  OBVIOUS
<1> HIDE DEF met, paid, gone
<1>5. /\ claim_by_id' = [c \in ClaimIds |-> IF \E q \in p : q.id = c
                            THEN [claim_by_id[c] EXCEPT !.processed = TRUE] ELSE claim_by_id[c]]
      /\ payouts' = [c \in ClaimIds |-> payouts[c] + (IF \E q \in p : q.id = c THEN 1 ELSE 0)]
      /\ Leave(u, g, Worth(p))
      /\ claim_counter' = claim_counter
      /\ g \subseteq Queued(u) /\ p \subseteq g
      /\ \A q \in g \ p : Expired(q)
  BY <1>1, <1>3, <1>4
<1>6. Worth(p) \in Int /\ Worth(p) <= Worth(g)
  <2>1. pending[u] \in Seq(ClaimSet) /\ ById(pending[u])
    BY DEF ClaimsInv, ClaimsTyped, QueueOf
  <2>2. IsFiniteSet(Queued(u)) /\ \A c \in Queued(u) : c.amount \in Nat
    BY <2>1, QueueFinite DEF Queued
  <2>3. IsFiniteSet(g) /\ \A c \in g : c.amount \in Nat
    BY <1>5, <2>2, FS_Subset
  <2>4. Worth(p) \in Nat /\ Worth(p) <= Worth(g)
    BY <1>5, <2>3, WorthParts
  <2> QED
    BY <2>4
<1> QED
  BY <1>5, <1>6, ClaimsLeave

(* The new claim has the greatest identifier, so it ends its queue.         *)
LEMMA AddKeeps ==
    ASSUME ClaimsInv, now' = now, NEW u \in Users, NEW type \in ClaimTypes,
           NEW amount \in ClaimAmounts, AddPendingClaim(u, type, amount)
    PROVE  ClaimsInv'
<1>1. PICK id, claim : id = claim_counter + 1
        /\ claim = [id |-> id, type |-> type, amount |-> amount, expires_at |-> now + ClaimExpiry]
  OBVIOUS
<1>2. /\ amount > 0 /\ claim_counter < MaxClaims
      /\ claim_counter' = id
      /\ claim_by_id' = [claim_by_id EXCEPT ![id] = [claim |-> claim, processed |-> FALSE]]
      /\ pending' = [pending EXCEPT ![u] = Append(@, claim)]
      /\ claimable' = [claimable EXCEPT ![u] = @ + amount]
      /\ payouts' = payouts
  BY <1>1 DEF AddPendingClaim
<1>3. /\ now \in Nat /\ claim_counter \in 0 .. MaxClaims
      /\ pending \in [Users -> Seq(ClaimSet)] /\ claimable \in [Users -> Int]
      /\ claim_by_id \in [ClaimIds -> ClaimRecords \cup {NoClaim}]
      /\ payouts \in [ClaimIds -> Nat]
      /\ OneQueue
      /\ \A v \in Users : /\ ById(pending[v]) /\ CoverOf(v)
                          /\ \A q \in Queued(v) :
                                /\ q.id \in 1 .. claim_counter
                                /\ claim_by_id[q.id] = [claim |-> q, processed |-> FALSE]
      /\ \A c \in ClaimIds : RecordOf(c)
  BY DEF ClaimsInv, ClaimsTyped, QueueOf
<1>4. /\ amount \in Nat /\ id \in Nat /\ id \in ClaimIds /\ id \in 0 .. MaxClaims
      /\ claim_counter < id /\ claim_counter \in Nat /\ now + ClaimExpiry \in Nat
  BY <1>1, <1>2, <1>3 DEF ClaimIds
<1>5. claim \in ClaimSet /\ claim.id = id /\ claim.amount = amount
  BY <1>1, <1>4 DEF ClaimSet
<1>6. ASSUME NEW v \in Users, NEW q \in Queued(v)
      PROVE  q.id \in ClaimIds /\ q.id < id /\ q.id # id
  <2>1. q.id \in 1 .. claim_counter
    BY <1>3
  <2> QED
    BY <1>3, <1>4, <2>1 DEF ClaimIds
<1>7. /\ pending'[u] \in Seq(ClaimSet) /\ ById(pending'[u])
      /\ Queued(u)' = Queued(u) \cup {claim}
  <2>1. pending'[u] = Append(pending[u], claim)
    BY <1>2, <1>3
  <2>2. \A i \in 1 .. Len(pending[u]) : pending[u][i].id < claim.id
    <3>1. \A i \in 1 .. Len(pending[u]) : pending[u][i] \in Queued(u)
      BY <1>3 DEF Queued, ToSet
    <3> QED
      BY <1>5, <1>6, <3>1
  <2>3. pending[u] \in Seq(ClaimSet) /\ ById(pending[u])
    BY <1>3
  <2>4. /\ Append(pending[u], claim) \in Seq(ClaimSet) /\ ById(Append(pending[u], claim))
        /\ ToSet(Append(pending[u], claim)) = ToSet(pending[u]) \cup {claim}
    BY <1>5, <2>2, <2>3, ByIdAppend
  <2> QED
    BY <2>1, <2>4 DEF Queued
<1>8. ASSUME NEW v \in Users, v # u
      PROVE  /\ pending'[v] = pending[v] /\ claimable'[v] = claimable[v]
             /\ Queued(v)' = Queued(v)
  <2>1. pending'[v] = pending[v] /\ claimable'[v] = claimable[v]
    BY <1>2, <1>3, <1>8
  <2> QED
    BY <2>1 DEF Queued
<1>9. /\ claim_by_id'[id] = [claim |-> claim, processed |-> FALSE]
      /\ claim_by_id'[id] \in ClaimRecords
      /\ \A c \in ClaimIds : c # id => claim_by_id'[c] = claim_by_id[c]
  BY <1>2, <1>3, <1>4, <1>5 DEF ClaimRecords
<1>10. ClaimsTyped'
  <2>1. claim_by_id' \in [ClaimIds -> ClaimRecords \cup {NoClaim}]
    <3>1. [claim |-> claim, processed |-> FALSE] \in ClaimRecords
      BY <1>5 DEF ClaimRecords
    <3> QED
      BY <1>2, <1>3, <3>1
  <2>2. pending' \in [Users -> Seq(ClaimSet)]
    BY <1>2, <1>3, <1>7
  <2>3. claimable' \in [Users -> Int]
    BY <1>2, <1>3, <1>4
  <2> QED
    BY <1>2, <1>3, <1>4, <2>1, <2>2, <2>3 DEF ClaimsTyped
<1>11. ASSUME NEW v \in Users PROVE QueueOf(v)'
  <2>1. ASSUME NEW q \in Queued(v)
        PROVE  /\ q.id \in 1 .. id
               /\ claim_by_id'[q.id] = [claim |-> q, processed |-> FALSE]
    <3>1. q.id \in 1 .. claim_counter
      BY <1>3
    <3>2. q.id \in 1 .. id
      BY <1>3, <1>4, <3>1
    <3> QED
      BY <1>3, <1>6, <1>9, <3>2
  <2>2. CASE v = u
    <3>1. claim.id \in 1 .. id /\ claim_by_id'[claim.id] = [claim |-> claim, processed |-> FALSE]
      BY <1>4, <1>5, <1>9 DEF ClaimIds
    <3>2. \A q \in Queued(u)' : q.id \in 1 .. id
                                 /\ claim_by_id'[q.id] = [claim |-> q, processed |-> FALSE]
      BY <1>7, <2>1, <2>2, <3>1
    <3> QED
      BY <1>2, <1>7, <2>2, <3>2 DEF QueueOf
  <2>3. CASE v # u
    BY <1>2, <1>3, <1>8, <2>1, <2>3 DEF QueueOf
  <2> QED
    BY <2>2, <2>3
<1>12. ASSUME NEW v \in Users PROVE CoverOf(v)'
  <2>1. CASE v = u
    <3> DEFINE more == Queued(u) \cup {claim}
    <3>1. IsFiniteSet(Queued(u)) /\ \A c \in Queued(u) : c.amount \in Nat
      BY <1>3, QueueFinite DEF Queued
    <3>2. IsFiniteSet(more) /\ \A c \in more : c.amount \in Nat
      BY <1>4, <1>5, <3>1, FS_AddElement
    <3>3. claim \notin Queued(u)
      BY <1>5, <1>6
    <3>4. Worth(more) = Worth(Queued(u)) + amount /\ Worth(Queued(u)) \in Nat
      <4>1. PICK S : S = more
        OBVIOUS
      <4>2. IsFiniteSet(S) /\ \A c \in S : c.amount \in Nat
        BY <3>2, <4>1
      <4>3. Queued(u) \in SUBSET S /\ S \ Queued(u) = {claim} /\ {claim} \in SUBSET S
        BY <3>3, <4>1
      <4>4. Worth(S) = Worth(Queued(u)) + Worth({claim}) /\ Worth(Queued(u)) \in Nat
        BY <4>2, <4>3, WorthParts
      <4>5. Worth({claim}) = amount
        <5>1. IsFiniteSet({claim}) /\ \A c \in {claim} : c.amount \in Nat
          BY <1>4, <1>5, FS_Singleton
        <5> DEFINE w == [c \in {claim} |-> c.amount]
        <5>2. Worth({claim}) = SumFunctionOnSet(w, {claim})
          BY <5>1, WorthIsSum
        <5>3. (\A c \in {claim} : w[c] \in Int) /\ w[claim] = amount
          BY <1>4, <1>5
        <5> HIDE DEF w
        <5>4. SumFunctionOnSet(w, {claim}) = w[claim] + SumFunctionOnSet(w, {claim} \ {claim})
          BY <5>1, <5>3, SumTake
        <5>5. {claim} \ {claim} = {} /\ SumFunctionOnSet(w, {}) = 0
          BY SumEmpty
        <5>6. SumFunctionOnSet(w, {claim}) = amount + 0
          BY <5>3, <5>4, <5>5
        <5> QED
          BY <1>4, <5>2, <5>6
      <4> QED
        BY <4>1, <4>4, <4>5
    <3>5. claimable'[u] = claimable[u] + amount /\ claimable[u] \in Int
      BY <1>2, <1>3
    <3>6. claimable[u] >= Worth(Queued(u))
      BY <1>3 DEF CoverOf
    <3>7. pending'[u] # <<>>
      <4>1. claim \in ToSet(pending'[u])
        BY <1>7 DEF Queued
      <4> QED
        BY <4>1 DEF ToSet
    <3>8. claimable'[u] >= Worth(more)
      BY <1>4, <3>4, <3>5, <3>6
    <3> QED
      BY <1>7, <2>1, <3>7, <3>8 DEF CoverOf
  <2>2. CASE v # u
    BY <1>3, <1>8, <2>2 DEF CoverOf
  <2> QED
    BY <2>1, <2>2
<1>13. OneQueue'
  <2>1. ASSUME NEW v \in Users, NEW w \in Users, NEW q, q \in Queued(v)',
               NEW r, r \in Queued(w)', q.id = r.id
        PROVE  v = w
    <3>1. (q \in Queued(v) \/ (v = u /\ q = claim)) /\ (r \in Queued(w) \/ (w = u /\ r = claim))
      BY <1>7, <1>8, <2>1
    <3> QED
      BY <1>3, <1>5, <1>6, <2>1, <3>1 DEF OneQueue
  <2> QED
    BY <2>1 DEF OneQueue
<1>14. ASSUME NEW c \in ClaimIds PROVE RecordOf(c)'
  <2>1. c \in Nat /\ RecordOf(c)
    BY <1>3 DEF ClaimIds
  <2>2. \A v \in Users : Queued(v) \subseteq Queued(v)'
    BY <1>7, <1>8
  <2>3. CASE c = id
    <3>1. Waits(c)'
      <4>1. claim \in Queued(u)'
        BY <1>7
      <4> QED
        BY <1>5, <2>3, <4>1 DEF Waits
    <3>2. payouts[c] = 0
      BY <1>4, <2>1, <2>3 DEF RecordOf
    <3>3. claim_by_id'[c].processed = FALSE /\ ~(c > id)
      BY <1>4, <1>9, <2>3
    <3> QED
      BY <1>2, <1>9, <2>3, <3>1, <3>2, <3>3 DEF RecordOf
  <2>4. CASE c # id
    <3>1. /\ c > id => c > claim_counter
          /\ c <= id => c <= claim_counter
      BY <1>1, <1>3, <2>1, <2>4
    <3>2. Waits(c) => Waits(c)'
      BY <2>2 DEF Waits
    <3>3. claim_by_id'[c] = claim_by_id[c] /\ payouts'[c] = payouts[c] /\ claim_counter' = id
      BY <1>2, <1>9, <2>4
    <3> QED
      BY <2>1, <3>1, <3>2, <3>3 DEF RecordOf, Expired
  <2> QED
    BY <2>3, <2>4
<1> QED
  BY <1>10, <1>11, <1>12, <1>13, <1>14 DEF ClaimsInv

(* What has expired stays expired.                                          *)
LEMMA ClaimsTickKeeps ==
    ASSUME ClaimsInv, Tick, UNCHANGED claimsVars
    PROVE  ClaimsInv'
<1>1. /\ now' = now + 1 /\ pending' = pending /\ claimable' = claimable
      /\ claim_counter' = claim_counter /\ claim_by_id' = claim_by_id /\ payouts' = payouts
  BY DEF Tick, claimsVars
<1>2. now \in Nat /\ claim_counter \in Nat /\ ClaimsTyped'
  BY <1>1 DEF ClaimsInv, ClaimsTyped
<1>3. /\ \A u \in Users : QueueOf(u)' /\ CoverOf(u)'
      /\ OneQueue'
  BY <1>1 DEF ClaimsInv, QueueOf, CoverOf, OneQueue, Queued
<1>4. ASSUME NEW c \in ClaimIds PROVE RecordOf(c)'
  <2>1. RecordOf(c) /\ (Waits(c) => Waits(c)')
    BY <1>1 DEF ClaimsInv, Waits, Queued
  <2>2. ASSUME c <= claim_counter, Expired(claim_by_id[c].claim)
        PROVE  Expired(claim_by_id[c].claim)'
    <3>1. claim_by_id[c] \in ClaimRecords
      BY <2>1, <2>2 DEF RecordOf
    <3>2. claim_by_id[c].claim.expires_at \in Nat
      BY <3>1 DEF ClaimRecords, ClaimSet
    <3> QED
      BY <1>1, <1>2, <2>2, <3>2 DEF Expired
  <2> QED
    BY <1>1, <2>1, <2>2 DEF RecordOf
<1> QED
  BY <1>2, <1>3, <1>4 DEF ClaimsInv

(* Every entry point, and the clock, keeps the queues.                      *)
LEMMA ClaimsStep ==
    ASSUME ClaimsInv, [\/ ClaimsNext /\ UNCHANGED now
                       \/ Tick /\ UNCHANGED claimsVars]_<<now, claimsVars>>
    PROVE  ClaimsInv'
<1>1. CASE ClaimsNext /\ UNCHANGED now
  <2>1. PICK u \in Users :
          \/ \E type \in ClaimTypes, amount \in ClaimAmounts : AddPendingClaim(u, type, amount)
          \/ \E types \in SUBSET ClaimTypes, max \in ClaimLimits : ProcessClaims(u, types, max)
          \/ CleanupExpiredClaims(u)
          \/ Sweep(u)
    BY <1>1 DEF ClaimsNext
  <2> QED
    BY <1>1, <2>1, AddKeeps, ProcessKeeps, SweepKeeps
<1>2. CASE Tick /\ UNCHANGED claimsVars
  BY <1>2, ClaimsTickKeeps
<1>3. CASE UNCHANGED <<now, claimsVars>>
  BY <1>3 DEF ClaimsInv, ClaimsTyped, QueueOf, CoverOf, OneQueue, RecordOf, Waits, Queued,
              Expired, claimsVars
<1> QED
  BY <1>1, <1>2, <1>3

(* The queues, the records and the cached totals of claims.rs stay right    *)
(* through every call and every closing ledger.                             *)
THEOREM ClaimsInvariant == ClaimsSpec => []ClaimsInv
<1>1. ClaimsInv /\ [\/ ClaimsNext /\ UNCHANGED now
                    \/ Tick /\ UNCHANGED claimsVars]_<<now, claimsVars>> => ClaimsInv'
  BY ClaimsStep
<1> QED
  BY ClaimsStart, <1>1, PTL DEF ClaimsSpec

(* process_claims, cleanup_expired_claims and expire_claims: a claim is paid*)
(* at most once, its record says whether it was, and until then it waits in *)
(* one queue unless it has expired, for any limits and types.               *)
THEOREM ClaimsAccountedKept == ClaimsSpec => []ClaimsAccounted
<1>1. ClaimsInv => ClaimsAccounted
  <2> SUFFICES ASSUME ClaimsInv, NEW c \in 1 .. claim_counter
               PROVE  /\ payouts[c] = IF claim_by_id[c].processed THEN 1 ELSE 0
                      /\ Cardinality(Waiting(c)) <= IF claim_by_id[c].processed THEN 0 ELSE 1
                      /\ claim_by_id[c].processed \/ Waiting(c) # {}
                                                  \/ Expired(claim_by_id[c].claim)
    BY DEF ClaimsAccounted
  <2>1. c \in ClaimIds /\ c <= claim_counter
    BY DEF ClaimsInv, ClaimsTyped, ClaimIds
  <2>2. RecordOf(c) /\ (Waits(c) <=> Waiting(c) # {})
    BY <2>1 DEF ClaimsInv, Waits, Waiting
  <2>3. ASSUME NEW u \in Waiting(c) PROVE ~claim_by_id[c].processed /\ Waiting(c) = {u}
    <3>1. PICK q \in Queued(u) : q.id = c /\ u \in Users
      BY DEF Waiting
    <3>2. claim_by_id[c] = [claim |-> q, processed |-> FALSE]
      BY <3>1 DEF ClaimsInv, QueueOf
    <3>3. \A v \in Waiting(c) : v = u
      BY <3>1 DEF ClaimsInv, OneQueue, Waiting
    <3> QED
      BY <3>2, <3>3
  <2>4. Cardinality(Waiting(c)) <= IF claim_by_id[c].processed THEN 0 ELSE 1
    <3>1. CASE Waiting(c) = {}
      BY <3>1, FS_EmptySet
    <3>2. CASE Waiting(c) # {}
      <4>1. PICK u : u \in Waiting(c)
        BY <3>2
      <4>2. ~claim_by_id[c].processed /\ Waiting(c) = {u}
        BY <2>3, <4>1
      <4>3. Cardinality({u}) = 1
        BY FS_Singleton
      <4> QED
        BY <4>2, <4>3
    <3> QED
      BY <3>1, <3>2
  <2> QED
    BY <2>1, <2>2, <2>4 DEF RecordOf
<1> QED
  BY <1>1, ClaimsInvariant, PTL

(* ClaimableAmount is never less than what waits in the queue and is zero   *)
(* for an empty one, though process_claims takes off only what it paid.     *)
THEOREM ClaimableKept == ClaimsSpec => []ClaimableCovers
<1>1. ClaimsInv => ClaimableCovers
  BY DEF ClaimsInv, CoverOf, ClaimableCovers
<1> QED
  BY <1>1, ClaimsInvariant, PTL

(* get_pending_claims_page: reading on from each cursor gives the whole     *)
(* queue, at every limit and whatever has left its middle.                  *)
THEOREM ClaimPagesKept == ClaimsSpec => []ClaimPagesCover
<1>1. ClaimsInv => ClaimPagesCover
  <2> SUFFICES ASSUME ClaimsInv, NEW u \in Users, NEW limit \in 1 .. MaxClaimsPage + 1
               PROVE  (CHOOSE read : ClaimsReader(u, limit, read))[0] = pending[u]
    BY Zenon DEF ClaimPagesCover, ClaimsReader
  <2>1. limit \in Nat /\ limit # 0
    OBVIOUS
  <2>2. pending[u] \in Seq(ClaimSet) /\ ById(pending[u])
    BY DEF ClaimsInv, ClaimsTyped, QueueOf
  <2>3. \E read : ClaimsReader(u, limit, read)
    BY <2>1, <2>2, ClaimsReaderExists
  <2>4. PICK read : read = CHOOSE r : ClaimsReader(u, limit, r)
    OBVIOUS
  <2>5. ClaimsReader(u, limit, read)
    BY <2>3, <2>4, Zenon
  <2>6. read[0] = pending[u]
    BY <2>1, <2>2, <2>5, ClaimsReadAll
  <2> QED
    BY <2>4, <2>6
<1> QED
  BY <1>1, ClaimsInvariant, PTL

HIDE ClaimsAssumption
HIDE LedgerAssumption

-----------------------------------------------------------------------------
(***************************************************************************)
(* Together on one ledger.                                                 *)
(***************************************************************************)
(* Nine contracts and parts of contracts on one ledger: what is proved of   *)
(* each contract by itself, and with it every property that the run of      *)
(* MCContracts checks, holds of all of them together, for any number of     *)
(* addresses, calls and times, whatever the order in which the calls come.  *)
THEOREM ContractsKept ==
    Spec => /\ [](/\ RostersAgree /\ DirectoryConsistent
                  /\ BenchIsListed /\ OneBallotEach /\ VerdictStands
                  /\ UpgradeBooksAgree
                  /\ SubjectBooksAgree /\ DedupKeysHonest /\ NoncesCountCalls
                  /\ StakesAreLocked /\ VerdictsMatchVoices
                  /\ EvidenceFiledOnce /\ DrainsApart)
            /\ RanksAreGranted /\ ImplementsDirectory
BY EachContractAlone, RostersKept, RanksOnlyGranted, DirectoryKept, RegistryIsADirectory,
   BenchKept, BallotsKept,
   VerdictStandsKept, UpgradeBooksKept, SubjectBooksKept, DedupKeysKept, NoncesKept,
   StakesKept, VerdictsKept, EvidenceKeptOnce, DrainsKeptApart, PTL

(* Claims and the scanner beside each other, and keepers who may come or    *)
(* not: the safety properties of MCServices need nobody to come.            *)
THEOREM ServicesKept ==
    ServicesSpec => [](ClaimsAccounted /\ ClaimableCovers /\ ClaimPagesCover /\ SizeCountsHolders)
<1>1. ServicesInit => LedgerInit /\ ClaimsInit /\ ScannerInit
  BY DEF ServicesInit
<1>2. [ServicesNext]_servicesVars
        => [\/ ClaimsNext /\ UNCHANGED now
            \/ Tick /\ UNCHANGED claimsVars]_<<now, claimsVars>>
  BY Zenon DEF ServicesNext, servicesVars
<1>3. [ServicesNext]_servicesVars => [ScannerNext]_scannerVars
  BY Zenon DEF ServicesNext, servicesVars
<1>4. ServicesSpec => ClaimsSpec /\ ScannerSpec
  BY <1>1, <1>2, <1>3, PTL DEF ServicesSpec, ClaimsSpec, ScannerSpec
<1> QED
  BY <1>4, ClaimsAccountedKept, ClaimableKept, ClaimPagesKept, SizeKept, PTL
=============================================================================
