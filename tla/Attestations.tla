---------------------------- MODULE Attestations ----------------------------
(***************************************************************************)
(* credence_bond, attestations: registered attesters vouch for subjects,   *)
(* one at a time or several in one call, and revoke what they said.        *)
(*                                                                         *)
(* The subject of an attestation is kept in a list and in a counter, and   *)
(* the contract refuses to go on when the two differ.  Every call of an    *)
(* attester carries his next nonce.  The grace window is left out (only    *)
(* calls with a deadline read it, and these have none), and so are the     *)
(* time and the weight stored with an attestation: nothing reads them back.*)
(***************************************************************************)
EXTENDS LedgerClock

CONSTANTS
    BondAdmins, FirstBondAdmin,  \* holders of DataKey::Admin; named to initialize
    Attesters, Subjects, AttestationData,
    AttestationNonces,        \* arguments nonce
    Stakes,                   \* values of DataKey::AttesterStake, in units
    Multipliers, MaxMultiplier,  \* multiplier_bps, in weight per unit; its cap
    WeightCaps,               \* arguments max_weight
    MaxWeight,                \* MAX_ATTESTATION_WEIGHT
    MaxBatchAttestations,     \* MAX_BATCH_ATTESTATION_SIZE
    MaxQueryLimit,            \* MAX_QUERY_LIMIT
    MaxAttestations,          \* bound: attestations made
    NoAttestation             \* an id not given out

ASSUME AttestationsAssumption ==
    /\ Stakes \subseteq Int /\ Multipliers \subseteq Nat /\ WeightCaps \subseteq Nat
    /\ FirstBondAdmin \in BondAdmins
    /\ MaxMultiplier \in Nat /\ {MaxWeight, MaxQueryLimit} \subseteq Nat \ {0}
    /\ MaxAttestations \in Nat /\ AttestationNonces \subseteq Nat
    /\ NoAttestation \notin
          [said : [verifier : Attesters, identity : Subjects, data : AttestationData],
           revoked : BOOLEAN]

VARIABLES
    bond_admin,          \* DataKey::Admin
    attesters,           \* the keys DataKey::Attester
    attester_stake,      \* DataKey::AttesterStake
    weight_config,       \* weight_cfg
    attester_nonce,      \* DataKey::Nonce
    attestation_counter, \* DataKey::AttestationCounter
    attestation,         \* DataKey::Attestation
    subject_list,        \* DataKey::SubjectAttestations
    subject_count,       \* DataKey::SubjectAttestationCount
    dedup                \* the keys AttestationDedupKey

attestationBooks == <<attester_nonce, attestation_counter, attestation, subject_list,
                      subject_count, dedup>>
attestationConfig == <<bond_admin, attesters, attester_stake, weight_config>>
attestationVars == <<attestationConfig, attestationBooks>>

AttestationIds == 0 .. MaxAttestations - 1

(* The state after initialize, with the default weights.                    *)
AttestationsInit ==
    /\ bond_admin = FirstBondAdmin /\ attesters = {}
    /\ attester_stake = [a \in Attesters |-> 0]
    /\ weight_config = [multiplier |-> 1, max_weight |-> MaxWeight]
    /\ attester_nonce = [a \in Attesters |-> 0] /\ attestation_counter = 0
    /\ attestation = [i \in AttestationIds |-> NoAttestation]
    /\ subject_list = [s \in Subjects |-> <<>>] /\ subject_count = [s \in Subjects |-> 0]
    /\ dedup = {}

-----------------------------------------------------------------------------
(* The calls of the admin.                                                  *)
RegisterAttester(a) ==
    /\ attesters' = attesters \cup {a}
    /\ UNCHANGED <<bond_admin, attester_stake, weight_config, attestationBooks>>

UnregisterAttester(a) ==
    /\ attesters' = attesters \ {a}
    /\ UNCHANGED <<bond_admin, attester_stake, weight_config, attestationBooks>>

SetAttesterStake(admin, a, amount) ==
    /\ admin = bond_admin /\ amount >= 0
    /\ attester_stake' = [attester_stake EXCEPT ![a] = amount]
    /\ UNCHANGED <<bond_admin, attesters, weight_config, attestationBooks>>

Least(x, y) == IF x <= y THEN x ELSE y

SetWeightConfig(admin, multiplier, max_weight) ==
    /\ admin = bond_admin
    /\ weight_config' = [multiplier |-> Least(multiplier, MaxMultiplier),
                         max_weight |-> Least(max_weight, MaxWeight)]
    /\ UNCHANGED <<bond_admin, attesters, attester_stake, attestationBooks>>

TransferAdmin(current, new) ==
    /\ current = bond_admin /\ new # bond_admin /\ bond_admin' = new
    /\ UNCHANGED <<attesters, attester_stake, weight_config, attestationBooks>>

-----------------------------------------------------------------------------
(* The calls of the attesters.                                              *)

(* compute_weight: at least the default weight 1, whatever the caps.        *)
ComputeWeight(a) ==
    LET raw == attester_stake[a] * weight_config.multiplier
        capped == Least(raw, weight_config.max_weight)
    IN  IF attester_stake[a] <= 0 \/ capped < 1 THEN 1 ELSE capped

(* consume_nonce, for each member of S.                                     *)
Fault_ConsumeNonces(S, nonce) ==
    /\ \A a \in S : attester_nonce[a] = nonce[a]
    /\ \E a \in S : attester_nonce' = [attester_nonce EXCEPT ![a] = @ + 1]
ConsumeNonces(S, nonce) ==
    /\ \A a \in S : attester_nonce[a] = nonce[a]
    /\ attester_nonce' = [a \in Attesters |-> attester_nonce[a] + IF a \in S THEN 1 ELSE 0]

Said(a, s, data) == [verifier |-> a, identity |-> s, data |-> data]

(* The attesters in said, in that order, say the data of said of s.         *)
Record(s, by, data) ==
    LET id(k) == attestation_counter + k - 1
    IN  /\ attestation_counter + Len(by) <= MaxAttestations
        /\ attestation_counter' = attestation_counter + Len(by)
        /\ attestation' = [i \in AttestationIds |->
              IF \E k \in DOMAIN by : id(k) = i
              THEN LET k == i - attestation_counter + 1
                   IN  [said |-> Said(by[k], s, data[k]), revoked |-> FALSE]
              ELSE attestation[i]]
        /\ subject_list' = [subject_list EXCEPT ![s] = @ \o [k \in DOMAIN by |-> id(k)]]
        /\ subject_count' = [subject_count EXCEPT ![s] = @ + Len(by)]

(* check_attestation_count_consistent: the call fails if the books differ.  *)
ConsistentFor(s) == subject_count'[s] = Len(subject_list'[s])

(* The key is looked up, but not set.                                       *)
AddAttestation(a, s, data, nonce) ==
    /\ a \in attesters
    /\ ConsumeNonces({a}, nonce)
    /\ Said(a, s, data) \notin dedup
    /\ Record(s, <<a>>, <<data>>)
    /\ ConsistentFor(s)
    /\ UNCHANGED <<attestationConfig, dedup>>

AddAttestationBatch(s, by, data, nonce) ==
    LET batch == {by[k] : k \in DOMAIN by}
        said == {Said(by[k], s, data[k]) : k \in DOMAIN by}
    IN  /\ Len(by) \in 1 .. MaxBatchAttestations /\ Cardinality(batch) = Len(by)
        /\ batch \subseteq attesters
        /\ ConsumeNonces(batch, nonce)
        /\ said \cap dedup = {}
        /\ MapThenSumSet(ComputeWeight, batch) <= weight_config.max_weight
        /\ Record(s, by, data)
        /\ dedup' = dedup \cup said
        /\ ConsistentFor(s)
        /\ UNCHANGED attestationConfig

(* An attester need not be registered any more to revoke.                   *)
Fault_Forget(said) == UNCHANGED dedup
Forget(said) == dedup' = dedup \ {said}

Fault_Strike(s, id) ==
    /\ subject_list' = [subject_list EXCEPT ![s] = SubSeq(@, 1, Len(@) - 1)]
    /\ subject_count' = [subject_count EXCEPT ![s] = IF @ = 0 THEN 0 ELSE @ - 1]
Strike(s, id) ==
    /\ subject_list' = [subject_list EXCEPT ![s] = Without(@, {id})]
    /\ subject_count' = [subject_count EXCEPT ![s] = IF @ = 0 THEN 0 ELSE @ - 1]

RevokeAttestation(a, id, nonce) ==
    /\ ConsumeNonces({a}, nonce)
    /\ id \in AttestationIds /\ attestation[id] # NoAttestation
    /\ LET said == attestation[id].said
       IN  /\ said.verifier = a /\ ~attestation[id].revoked
           /\ attestation' = [attestation EXCEPT ![id].revoked = TRUE]
           /\ Forget(said)
           /\ Strike(said.identity, id)
           /\ ConsistentFor(said.identity)
    /\ UNCHANGED <<attestationConfig, attestation_counter>>

-----------------------------------------------------------------------------
(* The attestations of a subject from an offset, counted from 0.            *)
SubjectPage(s, offset, limit) ==
    LET size == IF limit = 0 THEN MaxQueryLimit ELSE Least(limit, MaxQueryLimit)
    IN  SubSeq(subject_list[s], offset + 1, Least(offset + size, Len(subject_list[s])))

AttestationsNext ==
    \/ \E a \in Attesters : RegisterAttester(a) \/ UnregisterAttester(a)
    \/ \E admin \in BondAdmins, a \in Attesters, amount \in Stakes :
            SetAttesterStake(admin, a, amount)
    \/ \E admin \in BondAdmins, m \in Multipliers, w \in WeightCaps :
            SetWeightConfig(admin, m, w)
    \/ \E current, new \in BondAdmins : TransferAdmin(current, new)
    \/ \E nonce \in [Attesters -> AttestationNonces], s \in Subjects :
        \/ \E a \in Attesters, data \in AttestationData : AddAttestation(a, s, data, nonce)
        \/ \E a, b \in Attesters, d, e \in AttestationData :
              \/ AddAttestationBatch(s, <<a>>, <<d>>, nonce)
              \/ AddAttestationBatch(s, <<a, b>>, <<d, e>>, nonce)
    \/ \E nonce \in [Attesters -> AttestationNonces], a \in Attesters, id \in AttestationIds :
            RevokeAttestation(a, id, nonce)

-----------------------------------------------------------------------------
(* Properties.                                                              *)

Made == 0 .. attestation_counter - 1
LiveOf(s) == {i \in Made : attestation[i].said.identity = s /\ ~attestation[i].revoked}

(* The list of a subject holds what was said of him and not revoked, once   *)
(* each and oldest first, and the counter says how much that is (the check  *)
(* of invariants.rs sees the lengths only).  Who reads it in pages, each    *)
(* from where the last one ended, reads it all.                             *)
SubjectBooksAgree == \A s \in Subjects :
    /\ Lists(subject_list[s], LiveOf(s))
    /\ Ascending(subject_list[s])
    /\ subject_count[s] = Cardinality(LiveOf(s))
    /\ \A limit \in 0 .. MaxQueryLimit + 1 :
          LET read[offset \in 0 .. Len(subject_list[s])] ==
                  LET page == SubjectPage(s, offset, limit)
                  IN  IF page = <<>> THEN page ELSE page \o read[offset + Len(page)]
          IN  read[0] = subject_list[s]

(* What is marked as said by a batch is said by an attestation that stands: *)
(* nobody is refused as a duplicate of something revoked.                   *)
DedupKeysHonest == \A said \in dedup :
    \E i \in Made : attestation[i].said = said /\ ~attestation[i].revoked

(* An attester's nonce counts his attestations and his revocations, also    *)
(* those made within batches: no signed call took effect twice.             *)
NoncesCountCalls == \A a \in Attesters : LET mine == {i \in Made : attestation[i].said.verifier = a}
    IN  attester_nonce[a] = Cardinality(mine) + Cardinality({i \in mine : attestation[i].revoked})

(* docs/attestations.md: a duplicate of an attestation that stands (same    *)
(* attester, subject and data) is rejected.                                 *)
NoDuplicateAttestations == \A i, j \in Made :
    i # j /\ attestation[i].said = attestation[j].said =>
        attestation[i].revoked \/ attestation[j].revoked
=============================================================================
