------------------------------ MODULE Evidence ------------------------------
(***************************************************************************)
(* credence_bond, evidence.rs: the evidence handed in for the proposals to *)
(* slash.  A piece is filed under its identifier and under its proposal,   *)
(* and its hash is remembered so that no piece is filed twice, for this    *)
(* proposal or another.                                                    *)
(*                                                                         *)
(* The callers answer for the submitter.  The kind of the hash and the     *)
(* time are only reported; that the hash is there and the description not  *)
(* too long is one condition on the arguments.                             *)
(***************************************************************************)
EXTENDS LedgerClock

CONSTANTS
    Cases,               \* proposal identifiers
    Hashes,              \* evidence hashes
    Submitters,
    MaxEvidence,         \* bound: pieces of evidence
    NoEvidence           \* an identifier not given out

ASSUME EvidenceAssumption ==
    /\ MaxEvidence \in Nat
    /\ NoEvidence \notin [case : Cases, hash : Hashes, by : Submitters]

VARIABLES
    evidence_counter,    \* DataKey::EvidenceCounter
    evidence,            \* DataKey::Evidence
    case_evidence,       \* DataKey::ProposalEvidence
    hash_seen            \* the keys DataKey::HashExists

evidenceVars == <<evidence_counter, evidence, case_evidence, hash_seen>>

EvidenceIds == 0 .. MaxEvidence - 1

EvidenceInit ==
    /\ evidence_counter = 0 /\ evidence = [id \in EvidenceIds |-> NoEvidence]
    /\ case_evidence = [p \in Cases |-> <<>>] /\ hash_seen = {}

Fault_SubmitEvidence(by, p, hash, valid) ==
    /\ valid /\ ~\E id \in 0 .. evidence_counter - 1 : evidence[id].case = p /\ evidence[id].hash = hash
    /\ evidence_counter < MaxEvidence
    /\ evidence_counter' = evidence_counter + 1
    /\ evidence' = [evidence EXCEPT ![evidence_counter] = [case |-> p, hash |-> hash, by |-> by]]
    /\ case_evidence' = [case_evidence EXCEPT ![p] = Append(@, evidence_counter)]
    /\ hash_seen' = hash_seen \cup {hash}
SubmitEvidence(by, p, hash, valid) ==
    /\ valid /\ hash \notin hash_seen
    /\ evidence_counter < MaxEvidence
    /\ evidence_counter' = evidence_counter + 1
    /\ evidence' = [evidence EXCEPT ![evidence_counter] = [case |-> p, hash |-> hash, by |-> by]]
    /\ case_evidence' = [case_evidence EXCEPT ![p] = Append(@, evidence_counter)]
    /\ hash_seen' = hash_seen \cup {hash}

(* get_proposal_evidence_details: each identifier of the list is looked up. *)
Details(p) == [i \in DOMAIN case_evidence[p] |-> evidence[case_evidence[p][i]]]

EvidenceNext == \E by \in Submitters, p \in Cases, hash \in Hashes, valid \in BOOLEAN :
    SubmitEvidence(by, p, hash, valid)

(* The evidence alone: nothing in it reads the time.                        *)
EvidenceSpec == EvidenceInit /\ [][EvidenceNext]_evidenceVars

-----------------------------------------------------------------------------
(* Properties.                                                              *)

(* The evidence of the proposals is all the evidence there is, each piece   *)
(* under one proposal, its own, in the order it came, and no hash occurs    *)
(* twice among all of them (submit_evidence, get_proposal_evidence_details).*)
EvidenceFiledOnce ==
    LET filed == {id \in EvidenceIds : evidence[id] # NoEvidence}
    IN  /\ filed = 0 .. evidence_counter - 1
        /\ \A p \in Cases :
              /\ Lists(case_evidence[p], {id \in filed : evidence[id].case = p})
              /\ Ascending(case_evidence[p])
              /\ \A i, j \in DOMAIN Details(p) :
                    i < j => Details(p)[i].hash # Details(p)[j].hash
        /\ hash_seen = {evidence[id].hash : id \in filed}
        /\ Cardinality(hash_seen) = evidence_counter
=============================================================================
