--------------------------- MODULE MultiSigProofs ---------------------------
(***************************************************************************)
(* Proofs about MultiSig, for every value of its constants: execute-once,  *)
(* that signatures belong to the operation they are counted for, that the  *)
(* cached tallies are right, that decisions are final, that the three      *)
(* records of the signers agree and that every execution had its quorum.   *)
(*                                                                         *)
(* What makes signatures, tallies and decisions inductive is Unused: until *)
(* initialize is called a second time, identifiers not yet handed out      *)
(* carry neither a proposal nor a signature.  What the records of the      *)
(* signers and the quorum need is Members: a list without duplicates names *)
(* only stored signers, each once, so that as many entries as signed are   *)
(* as many addresses.                                                      *)
(***************************************************************************)
EXTENDS MultiSig, Lemmas, TLAPS, FiniteSetTheorems

USE PauseSortsAssumption, MultiSigSortsAssumption, MultiSigNumbersAssumption

Typed ==
    /\ now \in Nat /\ inits \in Nat /\ counter \in 0..MaxProposals
    /\ proposal \in [Ids -> Proposal \cup {NoProposal}]
    /\ signatures \in [Ids -> SUBSET Signers]
    /\ signature_count = [id \in Ids |-> signature_count[id]]
    /\ executed_op \subseteq Hashes /\ executions \in [Hashes -> Nat]
    /\ signed_for \in [Ids -> [Signers -> Hashes \cup {NoHash}]]

(* Before the first initialize there is no admin, signer or proposal.       *)
Untouched ==
    inits = 0 => admin = NoAdmin /\ signers = {} /\ counter = 0

Unused ==
    fresh => \A id \in Ids :
        id >= counter => proposal[id] = NoProposal /\ signatures[id] = {}

IInv ==
    /\ Typed /\ Untouched /\ Unused
    /\ ExecutedOnce /\ SignedWhatItExecutes /\ TalliesHonest

(* The steps that touch neither ballots nor the record of executions.       *)
Quiet ==
    /\ UNCHANGED <<ballots, ledger, history, admin>>
    /\ now' \in Nat
    /\ admin = NoAdmin => signers' = signers

-----------------------------------------------------------------------------
(* Pausing never replaces the admin.                                        *)
LEMMA PauseKeepsAdmin == PauseNext => admin' = admin
BY DEF PauseNext, SetPauseSigner, SetPauseThreshold, PauseDirectly, ProposePause,
       ApprovePauseProposal, ExecutePauseProposal

(* Every step is quiet or one of the six that are not.                      *)
LEMMA StepKinds ==
  ASSUME now \in Nat, [Next]_vars
  PROVE  \/ Quiet
         \/ \E a \in Admins, list \in SignerLists, t \in 1..Cardinality(Signers) :
               Initialize(a, list, t)
         \/ \E s \in Signers, h \in Hashes, expiry \in Expiries : SubmitProposal(s, h, expiry)
         \/ \E s \in Signers, id \in Ids : SignProposal(s, id)
         \/ \E id \in Ids : ExecuteProposal(id)
         \/ \E a \in Admins, id \in Ids : RejectProposal(a, id)
         \/ \E start \in Ids, max_iter \in Sweeps : PruneExpiredProposals(start, max_iter)
<1>1. CASE PauseNext /\ UNCHANGED multiSigVars
  BY <1>1, PauseKeepsAdmin DEF Quiet, multiSigVars, members, ballots, ledger, history
<1>2. ASSUME NEW a \in Admins, NEW s \in Signers, AddSigner(a, s) \/ RemoveSigner(a, s)
      PROVE  Quiet
  BY <1>2 DEF Quiet, AddSigner, RemoveSigner, Governs, StoredAdmin, pauseVars
<1>3. ASSUME NEW a \in Admins, NEW t \in 1..Cardinality(Signers), SetThreshold(a, t)
      PROVE  Quiet
  BY <1>3 DEF Quiet, SetThreshold, pauseVars
<1>4. CASE Tick
  BY <1>4 DEF Quiet, Tick, pauseVars, members
<1>5. CASE UNCHANGED vars
  BY <1>5 DEF Quiet, vars, pauseVars, multiSigVars, members, ballots, ledger, history
<1> QED
  BY <1>1, <1>2, <1>3, <1>4, <1>5 DEF Next, AdminNext, SignerNext

-----------------------------------------------------------------------------
LEMMA InitIInv == Init => IInv
<1> SUFFICES ASSUME Init PROVE IInv
  OBVIOUS
<1>1. Typed
  BY DEF Init, Typed, Ids
<1>2. Untouched
  BY DEF Init, PauseInit, Untouched
<1>3. Unused /\ SignedWhatItExecutes /\ TalliesHonest
  BY DEF Init, Unused, SignedWhatItExecutes, TalliesHonest
<1>4. ExecutedOnce
  BY DEF Init, ExecutedOnce
<1> QED
  BY <1>1, <1>2, <1>3, <1>4 DEF IInv

LEMMA QuietIInv == ASSUME IInv, Quiet PROVE IInv'
<1>1. UNCHANGED <<counter, proposal, signatures, signature_count, executed_op,
                  executions, inits, signed_for, admin>>
  BY DEF Quiet, ballots, ledger, history
<1>2. Typed'
  BY <1>1 DEF IInv, Typed, Quiet
<1>3. Untouched'
  BY <1>1 DEF IInv, Untouched, Quiet
<1>4. Unused' /\ SignedWhatItExecutes' /\ TalliesHonest'
  BY <1>1 DEF IInv, Unused, SignedWhatItExecutes, TalliesHonest, fresh
<1>5. ExecutedOnce'
  BY <1>1 DEF IInv, ExecutedOnce
<1> QED
  BY <1>2, <1>3, <1>4, <1>5 DEF IInv

(* The first initialize finds nothing; a second one ends `fresh`.           *)
LEMMA InitializeIInv ==
  ASSUME IInv, NEW a \in Admins, NEW list \in SignerLists,
         NEW t \in 1..Cardinality(Signers), Initialize(a, list, t)
  PROVE  IInv'
<1>1. /\ counter' = 0 /\ inits' = inits + 1 /\ inits \in Nat
      /\ UNCHANGED <<now, proposal, signatures, signature_count, executed_op,
                     executions, signed_for>>
  BY DEF Initialize, ledger, IInv, Typed
<1>2. Typed'
  BY <1>1 DEF IInv, Typed
<1>3. Untouched'
  BY <1>1 DEF Untouched
<1>4. fresh' => fresh /\ counter = 0
  BY <1>1 DEF fresh, IInv, Untouched
<1>5. Unused' /\ SignedWhatItExecutes' /\ TalliesHonest'
  BY <1>1, <1>4 DEF IInv, Unused, SignedWhatItExecutes, TalliesHonest
<1>6. ExecutedOnce'
  BY <1>1 DEF IInv, ExecutedOnce
<1> QED
  BY <1>2, <1>3, <1>5, <1>6 DEF IInv

(* A new proposal takes an identifier nobody has signed.                    *)
LEMMA SubmitIInv ==
  ASSUME IInv, NEW s \in Signers, NEW h \in Hashes, NEW expiry \in Expiries,
         SubmitProposal(s, h, expiry)
  PROVE  IInv'
<1> DEFINE p == [proposer |-> s, expires_at |-> expiry, op_hash |-> h, status |-> "Pending"]
<1>1. /\ s \in signers /\ counter \in Ids /\ counter' = counter + 1 /\ counter \in Nat
      /\ proposal' = [proposal EXCEPT ![counter] = p]
      /\ signature_count' = [signature_count EXCEPT ![counter] = 0]
      /\ UNCHANGED <<now, admin, signers, signatures, executed_op, executions,
                     inits, signed_for>>
  BY DEF SubmitProposal, NextId, IInv, Typed, Ids, pauseVars, members, ledger, history
<1>2. p \in Proposal
  BY DEF Proposal, Statuses
<1> HIDE DEF p
<1>3. /\ proposal \in [Ids -> Proposal \cup {NoProposal}]
      /\ signature_count = [id \in Ids |-> signature_count[id]]
      /\ signatures \in [Ids -> SUBSET Signers]
  BY DEF IInv, Typed
<1>4. /\ proposal'[counter] = p /\ signature_count'[counter] = 0
      /\ \A id \in Ids : id # counter => /\ proposal'[id] = proposal[id]
                                         /\ signature_count'[id] = signature_count[id]
  BY <1>1, <1>3
<1>5. Typed'
  <2>1. proposal' \in [Ids -> Proposal \cup {NoProposal}]
    BY <1>1, <1>2, <1>3
  <2>2. signature_count' = [id \in Ids |-> signature_count'[id]]
    BY <1>1, <1>3
  <2>3. counter' \in 0..MaxProposals
    BY <1>1 DEF Ids
  <2> QED
    BY <2>1, <2>2, <2>3, <1>1 DEF IInv, Typed
<1>6. Untouched'
  BY <1>1 DEF IInv, Untouched
<1>7. Unused'
  <2> SUFFICES ASSUME fresh', NEW id \in Ids, id >= counter'
               PROVE  proposal'[id] = NoProposal /\ signatures'[id] = {}
    BY DEF Unused
  <2>1. fresh /\ id \in Int /\ id # counter /\ id >= counter
    BY <1>1 DEF fresh, Ids
  <2>2. proposal[id] = NoProposal /\ signatures[id] = {}
    BY <2>1 DEF IInv, Unused
  <2> QED
    BY <1>1, <1>4, <2>1, <2>2
<1>8. fresh' => signatures[counter] = {}
  BY <1>1 DEF IInv, Unused, fresh
<1>9. SignedWhatItExecutes'
  BY <1>1, <1>4, <1>8 DEF IInv, SignedWhatItExecutes, fresh
<1>10. TalliesHonest'
  <2>1. Cardinality({}) = 0
    BY FS_EmptySet
  <2> QED
    BY <2>1, <1>1, <1>4, <1>8 DEF IInv, TalliesHonest, fresh
<1>11. ExecutedOnce'
  BY <1>1 DEF IInv, ExecutedOnce
<1> QED
  BY <1>5, <1>6, <1>7, <1>9, <1>10, <1>11 DEF IInv

(* A signature is new, and given for the operation stored at that moment.   *)
LEMMA SignIInv ==
  ASSUME IInv, NEW s \in Signers, NEW id \in Ids, SignProposal(s, id)
  PROVE  IInv'
<1>1. /\ s \in signers /\ Open(id) /\ s \notin signatures[id]
      /\ signatures' = [signatures EXCEPT ![id] = @ \cup {s}]
      /\ signature_count' = [signature_count EXCEPT ![id] = @ + 1]
      /\ signed_for' = [signed_for EXCEPT ![id][s] = proposal[id].op_hash]
      /\ UNCHANGED <<now, admin, signers, counter, proposal, executed_op, executions, inits>>
  BY DEF SignProposal, CanSign, pauseVars, members, ledger
<1>2. /\ proposal \in [Ids -> Proposal \cup {NoProposal}]
      /\ signatures \in [Ids -> SUBSET Signers]
      /\ signature_count = [i \in Ids |-> signature_count[i]]
      /\ signed_for \in [Ids -> [Signers -> Hashes \cup {NoHash}]]
  BY DEF IInv, Typed
<1>3. proposal[id] \in Proposal /\ proposal[id].op_hash \in Hashes
  <2>1. proposal[id] \in Proposal
    BY <1>1, <1>2 DEF Open
  <2> QED
    BY <2>1 DEF Proposal
<1>4. /\ signatures'[id] = signatures[id] \cup {s}
      /\ signature_count'[id] = signature_count[id] + 1
      /\ signed_for'[id][s] = proposal[id].op_hash
      /\ \A r \in Signers : r # s => signed_for'[id][r] = signed_for[id][r]
      /\ \A i \in Ids : i # id => /\ signatures'[i] = signatures[i]
                                  /\ signature_count'[i] = signature_count[i]
                                  /\ signed_for'[i] = signed_for[i]
  BY <1>1, <1>2
<1>5. Typed'
  <2>1. signatures' \in [Ids -> SUBSET Signers]
    BY <1>1, <1>2
  <2>2. signature_count' = [i \in Ids |-> signature_count'[i]]
    BY <1>1, <1>2
  <2>3. signed_for' \in [Ids -> [Signers -> Hashes \cup {NoHash}]]
    BY <1>1, <1>2, <1>3
  <2> QED
    BY <2>1, <2>2, <2>3, <1>1 DEF IInv, Typed
<1>6. Untouched'
  BY <1>1 DEF IInv, Untouched
<1>7. Unused'
  <2> SUFFICES ASSUME fresh', NEW i \in Ids, i >= counter'
               PROVE  proposal'[i] = NoProposal /\ signatures'[i] = {}
    BY DEF Unused
  <2>1. proposal[i] = NoProposal /\ signatures[i] = {}
    BY <1>1 DEF IInv, Unused, fresh
  <2>2. i # id
    BY <2>1, <1>1 DEF Open
  <2> QED
    BY <2>1, <2>2, <1>1, <1>4
<1>8. SignedWhatItExecutes'
  <2> SUFFICES ASSUME fresh', NEW i \in Ids, proposal'[i] # NoProposal,
                      NEW r \in signatures'[i]
               PROVE  signed_for'[i][r] = proposal'[i].op_hash
    BY DEF SignedWhatItExecutes
  <2>1. CASE i = id /\ r = s
    BY <2>1, <1>1, <1>4
  <2>2. CASE i # id \/ r # s
    <3>1. r \in signatures[i] /\ r \in Signers
      BY <2>2, <1>2, <1>4
    <3>2. signed_for[i][r] = proposal[i].op_hash
      BY <3>1, <1>1 DEF IInv, SignedWhatItExecutes, fresh
    <3> QED
      BY <3>1, <3>2, <2>2, <1>1, <1>4
  <2> QED
    BY <2>1, <2>2
<1>9. TalliesHonest'
  <2>1. signatures[id] \subseteq Signers /\ IsFiniteSet(signatures[id])
    BY <1>2, FS_Subset
  <2>2. Cardinality(signatures[id] \cup {s}) = Cardinality(signatures[id]) + 1
    BY <2>1, <1>1, FS_AddElement
  <2> QED
    BY <2>2, <1>1, <1>4 DEF IInv, TalliesHonest, fresh, Open
<1>10. ExecutedOnce'
  BY <1>1 DEF IInv, ExecutedOnce
<1> QED
  BY <1>5, <1>6, <1>7, <1>8, <1>9, <1>10 DEF IInv

(* An operation whose hash is already recorded is not executed again.       *)
LEMMA ExecuteIInv ==
  ASSUME IInv, NEW id \in Ids, ExecuteProposal(id)
  PROVE  IInv'
<1> DEFINE h == proposal[id].op_hash
           p == [proposal[id] EXCEPT !.status = "Executed"]
<1>1. /\ Open(id) /\ h \notin executed_op
      /\ signature_count' = [signature_count EXCEPT ![id] = ActiveSignatures(id)]
      /\ executed_op' = executed_op \cup {h}
      /\ executions' = [executions EXCEPT ![h] = @ + 1]
      /\ proposal' = [proposal EXCEPT ![id] = p]
      /\ UNCHANGED <<now, admin, signers, counter, signatures, inits, signed_for>>
  BY DEF ExecuteProposal, CanExecute, pauseVars, members, history
<1>2. /\ proposal \in [Ids -> Proposal \cup {NoProposal}]
      /\ signature_count = [i \in Ids |-> signature_count[i]]
      /\ executed_op \subseteq Hashes /\ executions \in [Hashes -> Nat]
  BY DEF IInv, Typed
<1>3. proposal[id] \in Proposal /\ proposal[id] # NoProposal
  BY <1>1, <1>2 DEF Open
<1>4. p \in Proposal /\ h \in Hashes /\ p.op_hash = h /\ p.status = "Executed"
  BY <1>3 DEF Proposal, Statuses
<1>5. h = proposal[id].op_hash
  OBVIOUS
<1> HIDE DEF p, h
<1>6. /\ proposal'[id] = p
      /\ \A i \in Ids : i # id => /\ proposal'[i] = proposal[i]
                                  /\ signature_count'[i] = signature_count[i]
  BY <1>1, <1>2
<1>7. Typed'
  <2>1. proposal' \in [Ids -> Proposal \cup {NoProposal}]
    BY <1>1, <1>2, <1>4
  <2>2. signature_count' = [i \in Ids |-> signature_count'[i]]
    BY <1>1, <1>2
  <2>3. executed_op' \subseteq Hashes /\ executions' \in [Hashes -> Nat]
    BY <1>1, <1>2, <1>4
  <2> QED
    BY <2>1, <2>2, <2>3, <1>1 DEF IInv, Typed
<1>8. Untouched'
  BY <1>1 DEF IInv, Untouched
<1>9. Unused'
  BY <1>1, <1>3, <1>6 DEF IInv, Unused, fresh
<1>10. SignedWhatItExecutes' /\ TalliesHonest'
  <2>1. SignedWhatItExecutes'
    BY <1>1, <1>3, <1>4, <1>5, <1>6 DEF IInv, SignedWhatItExecutes, fresh
  <2>2. TalliesHonest'
    BY <1>1, <1>4, <1>6 DEF IInv, TalliesHonest, fresh
  <2> QED
    BY <2>1, <2>2
<1>11. ExecutedOnce'
  <2>1. executions[h] = 0
    BY <1>1, <1>2, <1>4 DEF IInv, ExecutedOnce
  <2>2. /\ executions'[h] = 1
        /\ \A g \in Hashes : g # h => executions'[g] = executions[g]
    BY <2>1, <1>1, <1>2, <1>4
  <2> QED
    BY <2>2, <1>1, <1>4 DEF IInv, ExecutedOnce
<1> QED
  BY <1>7, <1>8, <1>9, <1>10, <1>11 DEF IInv

LEMMA RejectIInv ==
  ASSUME IInv, NEW a \in Admins, NEW id \in Ids, RejectProposal(a, id)
  PROVE  IInv'
<1> DEFINE p == [proposal[id] EXCEPT !.status = "Rejected"]
<1>1. /\ proposal[id] # NoProposal
      /\ proposal' = [proposal EXCEPT ![id] = p]
      /\ UNCHANGED <<now, admin, signers, counter, signatures, signature_count,
                     executed_op, executions, inits, signed_for>>
  BY DEF RejectProposal, pauseVars, members, ledger, history
<1>2. proposal \in [Ids -> Proposal \cup {NoProposal}]
  BY DEF IInv, Typed
<1>3. p \in Proposal /\ p.op_hash = proposal[id].op_hash /\ p.status = "Rejected"
  <2>1. proposal[id] \in Proposal
    BY <1>1, <1>2
  <2> QED
    BY <2>1 DEF Proposal, Statuses
<1> HIDE DEF p
<1>4. /\ proposal'[id] = p
      /\ \A i \in Ids : i # id => proposal'[i] = proposal[i]
  BY <1>1, <1>2
<1>5. Typed'
  <2>1. proposal' \in [Ids -> Proposal \cup {NoProposal}]
    BY <1>1, <1>2, <1>3
  <2> QED
    BY <2>1, <1>1 DEF IInv, Typed
<1>6. Untouched'
  BY <1>1 DEF IInv, Untouched
<1>7. Unused'
  BY <1>1, <1>4 DEF IInv, Unused, fresh
<1>8. SignedWhatItExecutes' /\ TalliesHonest'
  BY <1>1, <1>3, <1>4 DEF IInv, SignedWhatItExecutes, TalliesHonest, fresh
<1>9. ExecutedOnce'
  BY <1>1 DEF IInv, ExecutedOnce
<1> QED
  BY <1>5, <1>6, <1>7, <1>8, <1>9 DEF IInv

(* Pruning only takes away.                                                 *)
LEMMA PruneIInv ==
  ASSUME IInv, NEW start \in Ids, NEW max_iter \in Sweeps,
         PruneExpiredProposals(start, max_iter)
  PROVE  IInv'
<1>1. PICK pruned \in SUBSET Ids, erased \in [Ids -> SUBSET (Range(signer_list) \cup Signers)] :
        /\ proposal' = [id \in Ids |-> IF id \in pruned THEN NoProposal ELSE proposal[id]]
        /\ signatures' = [id \in Ids |-> signatures[id] \ erased[id]]
        /\ signature_count' = [id \in Ids |->
             IF id \in pruned THEN 0 ELSE signature_count[id]]
        /\ signed_for' = [id \in Ids |-> [s \in Signers |->
             IF s \in erased[id] THEN NoHash ELSE signed_for[id][s]]]
        /\ \A id \in Ids : id \notin pruned => erased[id] = {}
  <2> DEFINE dead == {id \in Ids : /\ start <= id /\ id < start + Sweep(max_iter)
                                   /\ proposal[id] # NoProposal /\ Dead(proposal[id])}
             gone(id) == IF id \in dead
                         THEN Range(signer_list) \cup {proposal[id].proposer} ELSE {}
             erasing == [id \in Ids |-> gone(id)]
  <2>1. /\ proposal' = [id \in Ids |-> IF id \in dead THEN NoProposal ELSE proposal[id]]
        /\ signatures' = [id \in Ids |-> signatures[id] \ gone(id)]
        /\ signature_count' = [id \in Ids |-> IF id \in dead THEN 0 ELSE signature_count[id]]
        /\ signed_for' = [id \in Ids |-> [s \in Signers |->
             IF s \in gone(id) THEN NoHash ELSE signed_for[id][s]]]
    BY DEF PruneExpiredProposals
  <2>2. \A id \in dead : proposal[id] \in Proposal /\ proposal[id].proposer \in Signers
    <3>1. \A id \in dead : proposal[id] \in Proposal
      BY DEF IInv, Typed
    <3> QED
      BY <3>1 DEF Proposal
  <2>3. dead \in SUBSET Ids
    OBVIOUS
  <2> HIDE DEF dead
  <2>4. erasing \in [Ids -> SUBSET (Range(signer_list) \cup Signers)]
    BY <2>2
  <2>5. \A id \in Ids : erasing[id] = gone(id) /\ (id \notin dead => erasing[id] = {})
    OBVIOUS
  <2> HIDE DEF erasing, gone
  <2>6. /\ signatures' = [id \in Ids |-> signatures[id] \ erasing[id]]
        /\ signed_for' = [id \in Ids |-> [s \in Signers |->
             IF s \in erasing[id] THEN NoHash ELSE signed_for[id][s]]]
    BY <2>1, <2>5
  <2> WITNESS dead \in SUBSET Ids, erasing \in [Ids -> SUBSET (Range(signer_list) \cup Signers)]
  <2> QED
    BY <2>1, <2>5, <2>6
<1>2. UNCHANGED <<now, admin, signers, counter, executed_op, executions, inits>>
  BY DEF PruneExpiredProposals, pauseVars, members, ledger
<1>3. /\ proposal \in [Ids -> Proposal \cup {NoProposal}]
      /\ signatures \in [Ids -> SUBSET Signers]
      /\ signed_for \in [Ids -> [Signers -> Hashes \cup {NoHash}]]
  BY DEF IInv, Typed
<1>4. \A id \in Ids : /\ proposal'[id] # NoProposal =>
                            /\ id \notin pruned /\ proposal'[id] = proposal[id]
                            /\ signatures'[id] = signatures[id]
                            /\ signature_count'[id] = signature_count[id]
                            /\ \A s \in Signers : signed_for'[id][s] = signed_for[id][s]
                      /\ proposal[id] = NoProposal => proposal'[id] = NoProposal
                      /\ signatures'[id] \subseteq signatures[id]
  BY <1>1, <1>3
<1>5. Typed'
  <2>1. proposal' \in [Ids -> Proposal \cup {NoProposal}]
    BY <1>1, <1>3
  <2>2. signatures' \in [Ids -> SUBSET Signers]
    BY <1>1, <1>3
  <2>3. signature_count' = [id \in Ids |-> signature_count'[id]]
    BY <1>1
  <2>4. signed_for' \in [Ids -> [Signers -> Hashes \cup {NoHash}]]
    BY <1>1, <1>3
  <2> QED
    BY <2>1, <2>2, <2>3, <2>4, <1>2 DEF IInv, Typed
<1>6. Untouched'
  BY <1>2 DEF IInv, Untouched
<1>7. Unused'
  BY <1>2, <1>4 DEF IInv, Unused, fresh
<1>8. SignedWhatItExecutes'
  <2> SUFFICES ASSUME fresh', NEW id \in Ids, proposal'[id] # NoProposal,
                      NEW s \in signatures'[id]
               PROVE  signed_for'[id][s] = proposal'[id].op_hash
    BY DEF SignedWhatItExecutes
  <2>1. proposal[id] # NoProposal /\ s \in signatures[id] /\ s \in Signers
    BY <1>3, <1>4
  <2>2. signed_for[id][s] = proposal[id].op_hash
    BY <2>1, <1>2 DEF IInv, SignedWhatItExecutes, fresh
  <2> QED
    BY <2>1, <2>2, <1>4
<1>9. TalliesHonest'
  BY <1>2, <1>4 DEF IInv, TalliesHonest, fresh
<1>10. ExecutedOnce'
  BY <1>2 DEF IInv, ExecutedOnce
<1> QED
  BY <1>5, <1>6, <1>7, <1>8, <1>9, <1>10 DEF IInv

LEMMA NextIInv == IInv /\ [Next]_vars => IInv'
<1> SUFFICES ASSUME IInv, [Next]_vars PROVE IInv'
  OBVIOUS
<1>1. now \in Nat
  BY DEF IInv, Typed
<1> QED
  BY <1>1, StepKinds, QuietIInv, InitializeIInv, SubmitIInv, SignIInv, ExecuteIInv,
     RejectIInv, PruneIInv

LEMMA Invariance == Spec => []IInv
BY InitIInv, NextIInv, PTL DEF Spec

-----------------------------------------------------------------------------
(* docs/multisig.md, execute-once, for any number of signers, operations,   *)
(* proposals and re-initializations.                                        *)
THEOREM OnceKept == Spec => []ExecutedOnce
<1>1. IInv => ExecutedOnce
  BY DEF IInv
<1> QED
  BY <1>1, Invariance, PTL

(* Every signature counted was given for the operation it helps execute.    *)
THEOREM SignaturesKept == Spec => []SignedWhatItExecutes
<1>1. IInv => SignedWhatItExecutes
  BY DEF IInv
<1> QED
  BY <1>1, Invariance, PTL

(* The cached tally of an open proposal is the number of its signatures.    *)
THEOREM TalliesKept == Spec => []TalliesHonest
<1>1. IInv => TalliesHonest
  BY DEF IInv
<1> QED
  BY <1>1, Invariance, PTL

(* Executed proposals keep their record and rejected ones their status      *)
(* whatever is submitted, signed, rejected or pruned around them.           *)
THEOREM DecisionsKept == Spec => DecisionsAreFinal
<1>1. IInv /\ [Next]_vars => [\A id \in Ids : StaysDecided(id)]_vars
  <2> SUFFICES ASSUME IInv, [Next]_vars, NEW id \in Ids,
                      fresh', proposal[id] # NoProposal
               PROVE  StaysDecided(id)
    BY DEF StaysDecided
  <2>1. /\ proposal \in [Ids -> Proposal \cup {NoProposal}]
        /\ now \in Nat /\ inits \in Nat /\ counter \in Nat
    BY DEF IInv, Typed
  <2>2. CASE proposal' = proposal
    BY <2>2 DEF StaysDecided
  <2>3. ASSUME NEW i \in Ids, proposal[i] # NoProposal, proposal[i].status = "Pending",
               NEW s \in Statuses, proposal' = [proposal EXCEPT ![i].status = s]
        PROVE  StaysDecided(id)
    <3>1. CASE i # id
      BY <3>1, <2>1, <2>3 DEF StaysDecided
    <3>2. CASE i = id
      <4>1. proposal'[id] = [proposal[id] EXCEPT !.status = s]
        BY <3>2, <2>1, <2>3
      <4>2. proposal'[id] \in Proposal
        BY <4>1, <2>1 DEF Proposal
      <4> QED
        BY <4>2, <3>2, <2>3 DEF StaysDecided, Settled
    <3> QED
      BY <3>1, <3>2
  <2>4. CASE Quiet
    BY <2>4, <2>2 DEF Quiet, ballots
  <2>5. ASSUME NEW a \in Admins, NEW list \in SignerLists,
               NEW t \in 1..Cardinality(Signers), Initialize(a, list, t)
        PROVE  StaysDecided(id)
    BY <2>5, <2>2 DEF Initialize
  <2>6. ASSUME NEW s \in Signers, NEW h \in Hashes, NEW expiry \in Expiries,
               SubmitProposal(s, h, expiry)
        PROVE  StaysDecided(id)
    <3>1. fresh /\ id # counter
      <4>1. inits' = inits
        BY <2>6 DEF SubmitProposal, history
      <4>2. fresh
        BY <4>1 DEF fresh
      <4> QED
        BY <4>2, <2>1 DEF IInv, Unused
    <3>2. proposal'[id] = proposal[id]
      BY <3>1, <2>1, <2>6 DEF SubmitProposal
    <3> QED
      BY <3>2 DEF StaysDecided
  <2>7. ASSUME NEW s \in Signers, NEW i \in Ids, SignProposal(s, i)
        PROVE  StaysDecided(id)
    BY <2>7, <2>2 DEF SignProposal
  <2>8. ASSUME NEW i \in Ids, ExecuteProposal(i) PROVE StaysDecided(id)
    <3>1. "Executed" \in Statuses
      BY DEF Statuses
    <3> QED
      BY <3>1, <2>3, <2>8 DEF ExecuteProposal, CanExecute, Open
  <2>9. ASSUME NEW a \in Admins, NEW i \in Ids, RejectProposal(a, i)
        PROVE  StaysDecided(id)
    <3>1. "Rejected" \in Statuses
      BY DEF Statuses
    <3> QED
      BY <3>1, <2>3, <2>9 DEF RejectProposal
  <2>10. ASSUME NEW start \in Ids, NEW max_iter \in Sweeps,
                PruneExpiredProposals(start, max_iter)
         PROVE  StaysDecided(id)
    <3>1. \/ proposal'[id] = proposal[id]
          \/ proposal'[id] = NoProposal /\ Dead(proposal[id])
      BY <2>10 DEF PruneExpiredProposals
    <3> QED
      BY <3>1 DEF StaysDecided, Dead
  <2> QED
    BY <2>1, StepKinds, <2>4, <2>5, <2>6, <2>7, <2>8, <2>9, <2>10
<1> QED
  BY <1>1, Invariance, PTL DEF Spec, DecisionsAreFinal

-----------------------------------------------------------------------------
(* The signers' records keep their types, and a list without duplicates     *)
(* names only stored signers, each once.                                    *)
Members ==
    /\ signers \subseteq Signers /\ signer_list \in Seq(Signers)
    /\ signer_count \in Nat /\ threshold \in Nat
    /\ distinct \in BOOLEAN
    /\ distinct => /\ Lists(signer_list, ToSet(signer_list))
                   /\ ToSet(signer_list) \subseteq signers

MembersInv == IInv /\ Members /\ SignerBooksAgree

(* Five operations touch these records.                                     *)
LEMMA MemberSteps ==
  ASSUME [Next]_vars
  PROVE  \/ UNCHANGED <<members, inits, distinct>>
         \/ \E a \in Admins, list \in SignerLists, t \in 1..Cardinality(Signers) :
               Initialize(a, list, t)
         \/ \E a \in Admins, s \in Signers : AddSigner(a, s)
         \/ \E a \in Admins, s \in Signers : RemoveSigner(a, s)
         \/ \E a \in Admins, t \in 1..Cardinality(Signers) : SetThreshold(a, t)
<1>1. CASE PauseNext /\ UNCHANGED multiSigVars
  BY <1>1 DEF multiSigVars, history
<1>2. ASSUME NEW s \in Signers, NEW h \in Hashes, NEW expiry \in Expiries,
             SubmitProposal(s, h, expiry)
      PROVE  UNCHANGED <<members, inits, distinct>>
  BY <1>2 DEF SubmitProposal, history
<1>3. ASSUME NEW s \in Signers, NEW id \in Ids, SignProposal(s, id)
      PROVE  UNCHANGED <<members, inits, distinct>>
  BY <1>3 DEF SignProposal
<1>4. ASSUME NEW id \in Ids, ExecuteProposal(id)
      PROVE  UNCHANGED <<members, inits, distinct>>
  BY <1>4 DEF ExecuteProposal, history
<1>5. ASSUME NEW a \in Admins, NEW id \in Ids, RejectProposal(a, id)
      PROVE  UNCHANGED <<members, inits, distinct>>
  BY <1>5 DEF RejectProposal, history
<1>6. ASSUME NEW start \in Ids, NEW max_iter \in Sweeps,
             PruneExpiredProposals(start, max_iter)
      PROVE  UNCHANGED <<members, inits, distinct>>
  BY <1>6 DEF PruneExpiredProposals
<1>7. CASE Tick
  BY <1>7 DEF Tick, history
<1>8. CASE UNCHANGED vars
  BY <1>8 DEF vars, multiSigVars, history
<1> QED
  BY <1>1, <1>2, <1>3, <1>4, <1>5, <1>6, <1>7, <1>8 DEF Next, AdminNext, SignerNext

LEMMA RangeIsToSet == \A seq : Range(seq) = ToSet(seq)
BY DEF Range, ToSet

LEMMA InitMembers == Init => Members /\ SignerBooksAgree
<1> SUFFICES ASSUME Init PROVE Members /\ SignerBooksAgree
  OBVIOUS
<1>1. ToSet(<<>>) = {} /\ <<>> \in Seq(Signers)
  BY DEF ToSet
<1>2. /\ signers = {} /\ signer_list = <<>> /\ signer_count = 0 /\ threshold = 0
      /\ distinct = TRUE /\ inits = 0
  BY DEF Init
<1>3. Lists(signer_list, ToSet(signer_list))
  BY <1>1, <1>2, ListsEmpty
<1>4. Members
  BY <1>1, <1>2, <1>3 DEF Members
<1>5. SignerBooksAgree
  BY <1>2 DEF SignerBooksAgree
<1> QED
  BY <1>4, <1>5

(* What the books say of a list that was just built.                        *)
LEMMA BooksOf ==
  ASSUME NEW seq \in Seq(Signers), NEW S \in SUBSET Signers, Lists(seq, S)
  PROVE  /\ Lists(seq, ToSet(seq)) /\ ToSet(seq) = S
         /\ Len(seq) = Cardinality(S) /\ IsFiniteSet(S)
<1>1. ToSet(seq) = S
  BY DEF Lists
<1>2. IsFiniteSet(S) /\ Cardinality(S) = Len(seq)
  BY ListsLen
<1> QED
  BY <1>1, <1>2

(* A first initialize finds no signer stored; a second one ends `fresh`.    *)
LEMMA InitializeMembers ==
  ASSUME MembersInv, NEW a \in Admins, NEW list \in SignerLists,
         NEW t \in 1..Cardinality(Signers), Initialize(a, list, t)
  PROVE  Members' /\ SignerBooksAgree'
<1>0. t \in Int
  OBVIOUS
<1>1. /\ 0 < t /\ t <= Len(list)
      /\ inits' = inits + 1 /\ distinct' = IsInjective(list)
      /\ signers' = signers \cup Range(list) /\ signer_list' = list
      /\ signer_count' = Len(list) /\ threshold' = t
  BY DEF Initialize
<1>2. list \in Seq(Signers) /\ Len(list) \in Nat /\ Range(list) = ToSet(list)
  BY RangeIsToSet
<1>3. ToSet(list) \subseteq Signers
  BY <1>2 DEF ToSet
<1>4. IsInjective(list) => Lists(list, ToSet(list))
  BY DEF Lists
<1>5. IsInjective(list) \in BOOLEAN
  BY DEF IsInjective
<1>6. Members'
  BY <1>0, <1>1, <1>2, <1>3, <1>4, <1>5 DEF MembersInv, Members
<1>7. SignerBooksAgree'
  <2> SUFFICES ASSUME fresh' PROVE SignerBooksAgree'
    BY DEF SignerBooksAgree
  <2>1. inits = 0 /\ signers = {}
    BY <1>1 DEF fresh, MembersInv, IInv, Typed, Untouched
  <2> QED
    BY <2>1, <1>1, <1>2 DEF SignerBooksAgree
<1> QED
  BY <1>6, <1>7

LEMMA AddMembers ==
  ASSUME MembersInv, NEW a \in Admins, NEW s \in Signers, AddSigner(a, s)
  PROVE  Members' /\ SignerBooksAgree'
<1>1. /\ s \notin signers /\ signers' = signers \cup {s}
      /\ signer_count' = signer_count + 1 /\ signer_list' = Append(signer_list, s)
      /\ UNCHANGED <<threshold, inits, distinct>>
  BY DEF AddSigner, history
<1>2. /\ signers \subseteq Signers /\ signer_list \in Seq(Signers)
      /\ signer_count \in Nat /\ threshold \in Nat /\ distinct \in BOOLEAN
      /\ distinct => /\ Lists(signer_list, ToSet(signer_list))
                     /\ ToSet(signer_list) \subseteq signers
  BY DEF MembersInv, Members
<1>3. signer_list' \in Seq(Signers) /\ Len(signer_list') = Len(signer_list) + 1
      /\ Len(signer_list) \in Nat
  BY <1>1, <1>2
<1>4. ASSUME distinct
      PROVE  /\ Lists(signer_list', ToSet(signer_list'))
             /\ ToSet(signer_list') = ToSet(signer_list) \cup {s}
  <2>1. Lists(Append(signer_list, s), ToSet(signer_list) \cup {s})
    BY <1>1, <1>2, <1>4, ListsAppend
  <2> QED
    BY <2>1, <1>1 DEF Lists
<1>5. Members'
  BY <1>1, <1>2, <1>3, <1>4 DEF Members
<1>6. SignerBooksAgree'
  BY <1>1, <1>2, <1>3, <1>4, RangeIsToSet DEF MembersInv, SignerBooksAgree, fresh
<1> QED
  BY <1>5, <1>6

(* The list is built anew without the signer; the threshold follows.        *)
LEMMA RemoveMembers ==
  ASSUME MembersInv, NEW a \in Admins, NEW s \in Signers, RemoveSigner(a, s)
  PROVE  Members' /\ SignerBooksAgree'
<1>1. /\ s \in signers /\ signer_count > 1 /\ signers' = signers \ {s}
      /\ signer_count' = signer_count - 1
      /\ signer_list' = Without(signer_list, {s})
      /\ threshold' = Smaller(threshold, signer_count')
      /\ UNCHANGED <<inits, distinct>>
  BY DEF RemoveSigner, CanRemove, Unlisted, history
<1>2. /\ signers \subseteq Signers /\ signer_list \in Seq(Signers)
      /\ signer_count \in Nat /\ threshold \in Nat /\ distinct \in BOOLEAN
      /\ distinct => /\ Lists(signer_list, ToSet(signer_list))
                     /\ ToSet(signer_list) \subseteq signers
  BY DEF MembersInv, Members
<1>3. signer_list' \in Seq(Signers)
  BY <1>1, <1>2, WithoutEmbeds
<1>4. ASSUME distinct
      PROVE  /\ Lists(signer_list', ToSet(signer_list'))
             /\ ToSet(signer_list') = ToSet(signer_list) \ {s}
  <2>1. Lists(Without(signer_list, {s}), ToSet(signer_list) \ {s})
    BY <1>2, <1>4, ListsWithout
  <2> QED
    BY <2>1, <1>1 DEF Lists
<1>5. /\ signer_count' \in Nat /\ threshold' \in Nat /\ threshold' <= signer_count'
      /\ threshold >= 1 => threshold' >= 1
  BY <1>1, <1>2 DEF Smaller
<1>6. Members'
  BY <1>1, <1>2, <1>3, <1>4, <1>5 DEF Members
<1>7. SignerBooksAgree'
  <2> SUFFICES ASSUME fresh', inits' > 0, distinct'
               PROVE  /\ Range(signer_list') = signers'
                      /\ signer_count' = Len(signer_list')
                      /\ 1 <= threshold' /\ threshold' <= signer_count'
    BY DEF SignerBooksAgree
  <2>1. /\ Range(signer_list) = signers /\ signer_count = Len(signer_list)
        /\ 1 <= threshold
    BY <1>1 DEF MembersInv, SignerBooksAgree, fresh
  <2>2. /\ Lists(signer_list, signers) /\ Lists(signer_list', signers')
        /\ Range(signer_list') = signers'
    BY <1>1, <1>2, <1>4, <2>1, RangeIsToSet
  <2>3. /\ IsFiniteSet(signers) /\ Cardinality(signers) = signer_count
        /\ Cardinality(signers') = Len(signer_list')
    BY <1>2, <1>3, <2>1, <2>2, ListsLen
  <2>4. Cardinality(signers') = Cardinality(signers) - 1
    BY <1>1, <2>3, FS_RemoveElement
  <2> QED
    BY <1>1, <1>2, <1>5, <2>1, <2>2, <2>3, <2>4
<1> QED
  BY <1>6, <1>7

LEMMA NextMembers == MembersInv /\ [Next]_vars => MembersInv'
<1> SUFFICES ASSUME MembersInv, [Next]_vars PROVE MembersInv'
  OBVIOUS
<1>1. IInv'
  BY NextIInv DEF MembersInv
<1>2. CASE UNCHANGED <<members, inits, distinct>>
  BY <1>1, <1>2 DEF MembersInv, Members, SignerBooksAgree, fresh, members
<1>3. ASSUME NEW a \in Admins, NEW t \in 1..Cardinality(Signers), SetThreshold(a, t)
      PROVE  MembersInv'
  <2>1. /\ 0 < t /\ t <= signer_count /\ threshold' = t /\ t \in Nat
        /\ UNCHANGED <<signers, signer_list, signer_count, inits, distinct>>
    BY <1>3, FS_CardinalityType DEF SetThreshold, history
  <2> QED
    BY <1>1, <2>1 DEF MembersInv, Members, SignerBooksAgree, fresh
<1> QED
  BY <1>1, <1>2, <1>3, MemberSteps, InitializeMembers, AddMembers, RemoveMembers
     DEF MembersInv

LEMMA MembersInvariance == Spec => []MembersInv
<1>1. Init => MembersInv
  BY InitIInv, InitMembers DEF MembersInv
<1> QED
  BY <1>1, NextMembers, PTL DEF Spec

(* After one initialize with a list without duplicates, the stored signers, *)
(* the list and the count are the same set, and the threshold can be met,   *)
(* however signers come and go.                                             *)
THEOREM SignerBooksKept == Spec => []SignerBooksAgree
<1>1. MembersInv => SignerBooksAgree
  BY DEF MembersInv
<1> QED
  BY <1>1, MembersInvariance, PTL

(* Entries of a list without duplicates are as many as different signers.   *)
LEMMA ActiveAreSigners ==
  ASSUME MembersInv, distinct, NEW id \in Ids
  PROVE  /\ ActiveSignatures(id) <= Cardinality(signatures[id] \cap signers)
         /\ ActiveSignatures(id) \in Nat
<1> DEFINE I == {i \in DOMAIN signer_list : signer_list[i] \in signatures[id]}
           A == signatures[id] \cap signers
           f == [i \in I |-> signer_list[i]]
<1>1. /\ signer_list \in Seq(Signers) /\ signers \subseteq Signers
      /\ \A i, j \in DOMAIN signer_list : signer_list[i] = signer_list[j] => i = j
      /\ \A i \in DOMAIN signer_list : signer_list[i] \in signers
  BY DEF MembersInv, Members, Lists, IsInjective, ToSet
<1>2. IsFiniteSet(signers)
  BY <1>1, FS_Subset
<1>3. IsFiniteSet(A)
  BY <1>2, FS_Intersection
<1>4. f \in Injection(I, A)
  BY <1>1 DEF Injection, IsInjective
<1> HIDE DEF I, A, f
<1>5. IsFiniteSet(I) /\ Cardinality(I) <= Cardinality(A)
  BY <1>3, <1>4, FS_Injection
<1>6. Cardinality(I) \in Nat
  BY <1>5, FS_CardinalityType
<1> QED
  BY <1>5, <1>6 DEF ActiveSignatures, I, A

(* An operation is executed only by as many different addresses that are    *)
(* signers at that moment as the threshold asks for, re-initialization      *)
(* included, as long as the list in use has no duplicates.                  *)
THEOREM QuorumKept == Spec => QuorumMet
<1>1. ASSUME MembersInv, [Next]_vars
      PROVE  [executed_op' # executed_op /\ distinct
                => \E id \in Ids :
                     /\ proposal'[id] # proposal[id]
                     /\ Cardinality(signatures[id] \cap signers) >= threshold]_vars
  <2> SUFFICES ASSUME executed_op' # executed_op, distinct
               PROVE  \E id \in Ids :
                        /\ proposal'[id] # proposal[id]
                        /\ Cardinality(signatures[id] \cap signers) >= threshold
    OBVIOUS
  <2>1. PICK id \in Ids : ExecuteProposal(id)
    <3>1. now \in Nat
      BY <1>1 DEF MembersInv, IInv, Typed
    <3> QED
      BY <1>1, <3>1, StepKinds
         DEF Quiet, Initialize, SubmitProposal, SignProposal, RejectProposal,
             PruneExpiredProposals, ledger
  <2>2. /\ Open(id) /\ ActiveSignatures(id) >= threshold
        /\ proposal' = [proposal EXCEPT ![id].status = "Executed"]
    BY <2>1 DEF ExecuteProposal, CanExecute
  <2>3. proposal'[id] # proposal[id]
    <3>1. /\ proposal \in [Ids -> Proposal \cup {NoProposal}]
          /\ proposal[id] \in Proposal /\ proposal[id].status = "Pending"
      BY <1>1, <2>2 DEF MembersInv, IInv, Typed, Open
    <3>2. proposal'[id].status = "Executed"
      BY <2>2, <3>1 DEF Proposal
    <3> QED
      BY <3>1, <3>2
  <2>4. threshold \in Nat /\ IsFiniteSet(signatures[id] \cap signers)
    <3>1. threshold \in Nat /\ signers \subseteq Signers
      BY <1>1 DEF MembersInv, Members
    <3>2. IsFiniteSet(signers)
      BY <3>1, FS_Subset
    <3> QED
      BY <3>1, <3>2, FS_Intersection
  <2>5. Cardinality(signatures[id] \cap signers) >= threshold
    BY <1>1, <2>2, <2>4, ActiveAreSigners, FS_CardinalityType
  <2> QED
    BY <2>3, <2>5
<1> QED
  BY <1>1, MembersInvariance, PTL DEF Spec, QuorumMet

-----------------------------------------------------------------------------
(* Types: those of the ballots and of the signers are parts of IInv and of  *)
(* Members; the cached tallies and the keys of the pause are left.          *)
CountsTyped == signature_count \in [Ids -> Nat]

TypedInv == MembersInv /\ PauseTypeOK /\ CountsTyped

(* The pause entry points keep the types of the pause keys.                 *)
LEMMA PauseNextType ==
  ASSUME PauseTypeOK, PauseNext
  PROVE  PauseTypeOK'
<1>1. ASSUME NEW id \in PauseIds, NEW s \in PauseSigners, NEW count \in Nat,
             RecordPauseApproval(id, s, count)
      PROVE  /\ pause_approvals' \in [PauseIds -> SUBSET PauseSigners]
             /\ pause_approval_count' \in [PauseIds -> Nat]
  BY <1>1 DEF RecordPauseApproval, PauseTypeOK
<1>2. ASSUME NEW a \in Admins, NEW s \in PauseSigners, NEW enabled \in BOOLEAN,
             SetPauseSigner(a, s, enabled)
      PROVE  PauseTypeOK'
  <2>1. CASE enabled
    BY <1>2, <2>1 DEF SetPauseSigner, EnablePauseSigner, PauseTypeOK, pauseBallots
  <2>2. CASE ~enabled
    BY <1>2, <2>2 DEF SetPauseSigner, DisablePauseSigner, Smaller, PauseTypeOK,
                      pauseBallots, pauseConfig
  <2> QED
    BY <2>1, <2>2
<1>3. ASSUME NEW a \in Admins, NEW t \in 0..Cardinality(PauseSigners), SetPauseThreshold(a, t)
      PROVE  PauseTypeOK'
  <2>1. t \in Nat
    BY FS_CardinalityType
  <2> QED
    BY <1>3, <2>1 DEF SetPauseThreshold, PauseTypeOK, pauseBallots
<1>4. ASSUME NEW a \in Admins, NEW action \in PauseActions, PauseDirectly(a, action)
      PROVE  PauseTypeOK'
  BY <1>4 DEF PauseDirectly, PauseTypeOK, pauseBallots, pauseConfig
<1>5. ASSUME NEW s \in PauseSigners, NEW action \in PauseActions, ProposePause(s, action)
      PROVE  PauseTypeOK'
  <2>1. pause_counter \in PauseIds /\ pause_counter + 1 \in 0..MaxPauseProposals
    BY <1>5 DEF ProposePause, PauseTypeOK, PauseIds
  <2>2. /\ pause_approvals' \in [PauseIds -> SUBSET PauseSigners]
        /\ pause_approval_count' \in [PauseIds -> Nat]
    BY <1>1, <1>5, <2>1 DEF ProposePause
  <2> QED
    BY <1>5, <2>1, <2>2 DEF ProposePause, PauseTypeOK, pauseConfig
<1>6. ASSUME NEW s \in PauseSigners, NEW id \in PauseIds, ApprovePauseProposal(s, id)
      PROVE  PauseTypeOK'
  <2>1. pause_approval_count[id] \in Nat
    BY DEF PauseTypeOK
  <2>2. /\ pause_approvals' \in [PauseIds -> SUBSET PauseSigners]
        /\ pause_approval_count' \in [PauseIds -> Nat]
    BY <1>1, <1>6, <2>1 DEF ApprovePauseProposal
  <2> QED
    BY <1>6, <2>2 DEF ApprovePauseProposal, PauseTypeOK, pauseConfig
<1>7. ASSUME NEW id \in PauseIds, ExecutePauseProposal(id)
      PROVE  PauseTypeOK'
  BY <1>7 DEF ExecutePauseProposal, PauseTypeOK, pauseConfig
<1> QED
  BY <1>2, <1>3, <1>4, <1>5, <1>6, <1>7 DEF PauseNext

(* initialize starts the pause anew; all other calls leave its keys alone.  *)
LEMMA PauseKeysTyped ==
  ASSUME PauseTypeOK, [Next]_vars
  PROVE  PauseTypeOK'
<1>1. CASE PauseNext
  BY <1>1, PauseNextType
<1>2. ASSUME NEW a \in Admins, NEW list \in SignerLists, NEW t \in 1..Cardinality(Signers),
             Initialize(a, list, t)
      PROVE  PauseTypeOK'
  <2>1. PauseReset /\ admin' = a
    BY <1>2 DEF Initialize
  <2>2. 0 \in 0..MaxPauseProposals
    OBVIOUS
  <2> QED
    BY ONLY PauseTypeOK, <2>1, <2>2, a \in Admins DEF PauseReset, PauseTypeOK
<1>3. CASE UNCHANGED pauseVars
  BY <1>3 DEF pauseVars, pauseConfig, pauseBallots, PauseTypeOK
<1>4. ASSUME NEW a \in Admins, AdminNext(a)
      PROVE  PauseTypeOK'
  <2>1. CASE \E list \in SignerLists, t \in 1..Cardinality(Signers) : Initialize(a, list, t)
    BY <1>2, <2>1
  <2>2. CASE \E s \in Signers : AddSigner(a, s) \/ RemoveSigner(a, s)
    BY <1>3, <2>2 DEF AddSigner, RemoveSigner
  <2>3. CASE \E t \in 1..Cardinality(Signers) : SetThreshold(a, t)
    BY <1>3, <2>3 DEF SetThreshold
  <2>4. CASE \E id \in Ids : RejectProposal(a, id)
    BY <1>3, <2>4 DEF RejectProposal
  <2> QED
    BY <1>4, <2>1, <2>2, <2>3, <2>4 DEF AdminNext
<1>5. ASSUME NEW s \in Signers, SignerNext(s)
      PROVE  PauseTypeOK'
  BY <1>3, <1>5 DEF SignerNext, SubmitProposal, SignProposal
<1>6. ASSUME NEW id \in Ids, ExecuteProposal(id)
      PROVE  PauseTypeOK'
  BY <1>3, <1>6 DEF ExecuteProposal
<1>7. ASSUME NEW start \in Ids, NEW max_iter \in Sweeps, PruneExpiredProposals(start, max_iter)
      PROVE  PauseTypeOK'
  BY <1>3, <1>7 DEF PruneExpiredProposals
<1>8. CASE Tick \/ UNCHANGED vars
  BY <1>3, <1>8 DEF Tick, vars
<1> QED
  BY <1>1, <1>4, <1>5, <1>6, <1>7, <1>8 DEF Next

(* A tally is 0, one more, or the number of list entries that signed.       *)
LEMMA TalliesTyped ==
  ASSUME MembersInv, CountsTyped, [Next]_vars
  PROVE  CountsTyped'
<1>1. CASE UNCHANGED signature_count
  BY <1>1 DEF CountsTyped
<1>2. ASSUME NEW id \in Ids, signature_count' = [signature_count EXCEPT ![id] = 0]
      PROVE  CountsTyped'
  BY <1>2 DEF CountsTyped
<1>3. ASSUME NEW s \in Signers, NEW h \in Hashes, NEW expiry \in Expiries,
             SubmitProposal(s, h, expiry)
      PROVE  CountsTyped'
  <2>1. counter \in Ids
    BY <1>3 DEF SubmitProposal, MembersInv, IInv, Typed, Ids
  <2> QED
    BY <1>2, <1>3, <2>1 DEF SubmitProposal
<1>4. ASSUME NEW s \in Signers, NEW id \in Ids, SignProposal(s, id)
      PROVE  CountsTyped'
  <2>1. signature_count[id] + 1 \in Nat
    BY DEF CountsTyped
  <2> QED
    BY <1>4, <2>1 DEF SignProposal, CountsTyped
<1>5. ASSUME NEW id \in Ids, ExecuteProposal(id)
      PROVE  CountsTyped'
  <2>1. ActiveSignatures(id) \in Nat
    <3> DEFINE entries == {i \in DOMAIN signer_list : signer_list[i] \in signatures[id]}
    <3>1. Len(signer_list) \in Nat /\ entries \subseteq 1..Len(signer_list)
      BY DEF MembersInv, Members
    <3>2. IsFiniteSet(entries)
      BY <3>1, FS_Interval, FS_Subset
    <3> QED
      BY <3>2, FS_CardinalityType DEF ActiveSignatures
  <2> QED
    BY <1>5, <2>1 DEF ExecuteProposal, CountsTyped
<1>6. ASSUME NEW start \in Ids, NEW max_iter \in Sweeps, PruneExpiredProposals(start, max_iter)
      PROVE  CountsTyped'
  BY <1>6 DEF PruneExpiredProposals, CountsTyped
<1>7. CASE Quiet
  BY <1>1, <1>7 DEF Quiet, ballots
<1>8. ASSUME NEW a \in Admins, NEW list \in SignerLists, NEW t \in 1..Cardinality(Signers),
             Initialize(a, list, t)
      PROVE  CountsTyped'
  BY <1>1, <1>8 DEF Initialize
<1>9. ASSUME NEW a \in Admins, NEW id \in Ids, RejectProposal(a, id)
      PROVE  CountsTyped'
  BY <1>1, <1>9 DEF RejectProposal
<1>10. now \in Nat
  BY DEF MembersInv, IInv, Typed
<1> QED
  BY <1>3, <1>4, <1>5, <1>6, <1>7, <1>8, <1>9, <1>10, StepKinds

(* Every key holds a value of its Rust type, for any signers, proposals and *)
(* calls of initialize; the unsigned counts never go below zero.            *)
THEOREM TypeCorrect == Spec => []TypeOK
<1>1. Init => TypedInv
  <2> SUFFICES ASSUME Init PROVE TypedInv
    OBVIOUS
  <2>1. PauseTypeOK
    <3>1. 0 \in 0..MaxPauseProposals /\ FALSE \in BOOLEAN /\ {} \in SUBSET PauseSigners
      OBVIOUS
    <3> QED
      BY <3>1 DEF Init, PauseInit, PauseTypeOK
  <2>2. CountsTyped
    BY DEF Init, CountsTyped
  <2> QED
    BY <2>1, <2>2, InitIInv, InitMembers DEF TypedInv, MembersInv
<1>2. TypedInv /\ [Next]_vars => TypedInv'
  BY NextMembers, PauseKeysTyped, TalliesTyped DEF TypedInv
<1>3. TypedInv => TypeOK
  BY DEF TypedInv, CountsTyped, MembersInv, IInv, Typed, Members, TypeOK
<1> QED
  BY <1>1, <1>2, <1>3, PTL DEF Spec
=============================================================================
