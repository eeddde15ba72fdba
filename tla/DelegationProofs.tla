-------------------------- MODULE DelegationProofs --------------------------
(***************************************************************************)
(* Proofs about Delegation, for every value of its constants.              *)
(*                                                                         *)
(* The pause and the delegations are followed apart: a step of the one     *)
(* leaves the variables of the other alone (StepKinds).  For the pause the *)
(* invariant adds to the no-lockout properties that the approvals counted  *)
(* on an open ballot are those of different signers (BallotsCounted); for  *)
(* the nonces, that nothing beyond the next one has been touched.          *)
(***************************************************************************)
EXTENDS Delegation, TLAPS, FiniteSetTheorems

USE DelegationPauseAssumption, DelegationAssumption

(* What the approval flags of an identifier mean, while its ballot is open  *)
(* and when it is not.                                                      *)
BallotsCounted == \A id \in PauseIds :
    /\ id \in pause_proposal =>
          /\ approvers[id] # {} /\ approvers[id] \subseteq pause_approvals[id]
          /\ pause_approval_count[id] <= Cardinality(approvers[id])
    /\ id \notin pause_proposal => (pause_approvals[id] # {} <=> id \in ran)

PauseInv == PauseTypeOK /\ NoLockout /\ BallotsCounted

(* initialize resets the count: there is nobody to count before it.         *)
AdminFirst == admin = NoAdmin => pause_signers = {}

DelegationTyped ==
    /\ now \in Nat /\ grace \in Nat /\ verifiers \subseteq 0..2
    /\ delegation \in [Keys -> Record \cup {NoDelegation}]
    /\ nonce \in [Owners -> Nonces]
    /\ uses \in [Owners -> [Nonces -> Nat]]
    /\ voided \in [Owners -> SUBSET Nonces]

(* From the next nonce on, none was spent or skipped.                       *)
Ahead == \A o \in Owners, n \in Nonces :
    n >= nonce[o] => uses[o][n] = 0 /\ n \notin voided[o]

NonceInv == DelegationTyped /\ Ahead /\ NonceSpentOnce

-----------------------------------------------------------------------------
(* The pause.                                                               *)

LEMMA PauseIdsFacts ==
  /\ \A id \in PauseIds : id[1] \in PauseActions /\ id[2] \in 0..MaxEpoch
  /\ \A action \in PauseActions, n \in 0..MaxEpoch : <<action, n>> \in PauseIds
BY DEF PauseIds

LEMMA InitPauseInv == PauseInit => PauseInv
<1> SUFFICES ASSUME PauseInit PROVE PauseInv
  OBVIOUS
<1>1. PauseTypeOK
  <2>0. paused \in BOOLEAN
    BY Zenon DEF PauseInit
  <2>1. /\ epoch \in 0..MaxEpoch /\ admin \in Admins \cup {NoAdmin}
        /\ pause_signers \subseteq PauseSigners /\ pause_proposal \subseteq PauseIds
        /\ pause_signer_count \in Nat /\ pause_threshold \in Nat /\ ran \subseteq PauseIds
    BY DEF PauseInit
  <2>2. /\ pause_approvals \in [PauseIds -> SUBSET PauseSigners]
        /\ approvers \in [PauseIds -> SUBSET PauseSigners]
    BY DEF PauseInit
  <2>3. pause_approval_count \in [PauseIds -> Nat]
    BY DEF PauseInit
  <2> QED
    BY <2>0, <2>1, <2>2, <2>3 DEF PauseTypeOK
<1>2. NoLockout
  BY FS_EmptySet DEF PauseInit, NoLockout
<1>3. BallotsCounted
  BY DEF PauseInit, BallotsCounted
<1> QED
  BY <1>1, <1>2, <1>3 DEF PauseInv

LEMMA EnableKeeps ==
  ASSUME PauseTypeOK, NoLockout, NEW s \in PauseSigners, EnablePauseSigner(s)
  PROVE  /\ pause_signers' \subseteq PauseSigners
         /\ pause_signer_count' \in Nat /\ pause_threshold' \in Nat
         /\ NoLockout'
<1>1. CASE s \in pause_signers
  BY <1>1 DEF EnablePauseSigner, pauseConfig, PauseTypeOK, NoLockout
<1>2. CASE s \notin pause_signers
  <2>1. IsFiniteSet(pause_signers)
    BY FS_Subset DEF PauseTypeOK
  <2>2. Cardinality(pause_signers \cup {s}) = Cardinality(pause_signers) + 1
    BY <1>2, <2>1, FS_AddElement
  <2> QED
    BY <1>2, <2>2 DEF EnablePauseSigner, PauseTypeOK, NoLockout
<1> QED
  BY <1>1, <1>2

LEMMA DisableKeeps ==
  ASSUME PauseTypeOK, NoLockout, NEW s \in PauseSigners, DisablePauseSigner(s)
  PROVE  /\ pause_signers' \subseteq PauseSigners
         /\ pause_signer_count' \in Nat /\ pause_threshold' \in Nat
         /\ NoLockout'
<1>1. CASE s \notin pause_signers
  BY <1>1 DEF DisablePauseSigner, pauseConfig, PauseTypeOK, NoLockout
<1>2. CASE s \in pause_signers
  <2>1. IsFiniteSet(pause_signers)
    BY FS_Subset DEF PauseTypeOK
  <2>2. Cardinality(pause_signers \ {s}) = Cardinality(pause_signers) - 1
    BY <1>2, <2>1, FS_RemoveElement
  <2>3. pause_signer_count # 0
    <3>1. pause_signers # {}
      BY <1>2
    <3> QED
      BY <2>1, <3>1, FS_EmptySet DEF NoLockout
  <2>4. /\ pause_signers' = pause_signers \ {s}
        /\ pause_signer_count' = pause_signer_count - 1
        /\ pause_threshold' = IF pause_threshold > pause_signer_count'
                              THEN pause_signer_count' ELSE pause_threshold
    BY <1>2, <2>3 DEF DisablePauseSigner
  <2> QED
    BY <2>2, <2>3, <2>4 DEF PauseTypeOK, NoLockout
<1> QED
  BY <1>1, <1>2

(* What an approval does to the ballot of its identifier.                   *)
LEMMA ApprovalCounted ==
  ASSUME PauseInv, NEW s \in PauseSigners, NEW id \in PauseIds, NEW count \in Nat,
         RecordPauseApproval(id, s, count),
         NEW before \in SUBSET PauseSigners,
         before \subseteq pause_approvals[id], count <= Cardinality(before)
  PROVE  /\ pause_approvals' \in [PauseIds -> SUBSET PauseSigners]
         /\ pause_approval_count' \in [PauseIds -> Nat]
         /\ before \cup {s} \subseteq pause_approvals'[id]
         /\ pause_approval_count'[id] <= Cardinality(before \cup {s})
         /\ \A other \in PauseIds \ {id} :
               /\ pause_approvals'[other] = pause_approvals[other]
               /\ pause_approval_count'[other] = pause_approval_count[other]
<1>1. /\ pause_approvals \in [PauseIds -> SUBSET PauseSigners]
      /\ pause_approval_count \in [PauseIds -> Nat]
  BY DEF PauseInv, PauseTypeOK
<1>2. /\ pause_approvals' = [pause_approvals EXCEPT ![id] = pause_approvals[id] \cup {s}]
      /\ pause_approval_count' = [pause_approval_count EXCEPT ![id] =
            IF s \in pause_approvals[id] THEN count ELSE count + 1]
  BY DEF RecordPauseApproval
<1>3. IsFiniteSet(before)
  BY FS_Subset
<1>4. CASE s \in before
  <2>1. before \cup {s} = before
    BY <1>4
  <2> QED
    BY <1>1, <1>2, <1>4, <2>1
<1>5. CASE s \notin before
  <2>1. Cardinality(before \cup {s}) = Cardinality(before) + 1 /\ Cardinality(before) \in Nat
    BY <1>3, <1>5, FS_AddElement, FS_CardinalityType
  <2> QED
    BY <1>1, <1>2, <2>1
<1> QED
  BY <1>4, <1>5

LEMMA ProposeKeeps ==
  ASSUME PauseInv, NEW s \in PauseSigners, NEW action \in PauseActions, ProposePause(s, action)
  PROVE  PauseInv'
<1> DEFINE id == <<action, epoch>>
           opens == id \notin pause_proposal
           count == IF opens THEN 0 ELSE pause_approval_count[id]
           before == IF opens THEN {} ELSE approvers[id]
<1>1. PauseTypeOK /\ NoLockout /\ BallotsCounted
  BY DEF PauseInv
<1>2. id \in PauseIds
  BY <1>1, PauseIdsFacts DEF PauseTypeOK
<1>3. /\ pause_proposal' = pause_proposal \cup {id}
      /\ RecordPauseApproval(id, s, count)
      /\ approvers' = [approvers EXCEPT ![id] = before \cup {s}]
      /\ UNCHANGED <<epoch, admin, paused, pauseConfig, ran>>
  BY DEF ProposePause
<1>4. /\ count \in Nat /\ before \in SUBSET PauseSigners
      /\ before \subseteq pause_approvals[id] /\ count <= Cardinality(before)
  <2>1. CASE opens
    BY <1>1, <1>2, <2>1, FS_EmptySet DEF PauseTypeOK
  <2>2. CASE ~opens
    BY <1>1, <1>2, <2>2 DEF PauseTypeOK, BallotsCounted
  <2> QED
    BY <2>1, <2>2
<1> HIDE DEF id, count, before, opens
<1>5. /\ pause_approvals' \in [PauseIds -> SUBSET PauseSigners]
      /\ pause_approval_count' \in [PauseIds -> Nat]
      /\ before \cup {s} \subseteq pause_approvals'[id]
      /\ pause_approval_count'[id] <= Cardinality(before \cup {s})
      /\ \A other \in PauseIds \ {id} :
            /\ pause_approvals'[other] = pause_approvals[other]
            /\ pause_approval_count'[other] = pause_approval_count[other]
  BY <1>2, <1>3, <1>4, ApprovalCounted
<1>6. PauseTypeOK'
  BY <1>1, <1>2, <1>3, <1>4, <1>5 DEF PauseTypeOK, pauseConfig
<1>7. NoLockout'
  BY <1>1, <1>3 DEF NoLockout, pauseConfig
<1>8. BallotsCounted'
  <2> SUFFICES ASSUME NEW other \in PauseIds
               PROVE  /\ other \in pause_proposal' =>
                            /\ approvers'[other] # {}
                            /\ approvers'[other] \subseteq pause_approvals'[other]
                            /\ pause_approval_count'[other] <= Cardinality(approvers'[other])
                      /\ other \notin pause_proposal' =>
                            (pause_approvals'[other] # {} <=> other \in ran')
    BY DEF BallotsCounted
  <2>1. CASE other = id
    <3>1. approvers'[id] = before \cup {s} /\ id \in pause_proposal'
      BY <1>1, <1>2, <1>3 DEF PauseTypeOK
    <3> QED
      BY <1>5, <2>1, <3>1
  <2>2. CASE other # id
    <3>1. /\ approvers'[other] = approvers[other] /\ ran' = ran
          /\ other \in pause_proposal' <=> other \in pause_proposal
      BY <1>1, <1>3, <2>2 DEF PauseTypeOK
    <3> QED
      BY <1>1, <1>5, <2>2, <3>1 DEF BallotsCounted
  <2> QED
    BY <2>1, <2>2
<1> QED
  BY <1>6, <1>7, <1>8 DEF PauseInv

LEMMA ApproveKeeps ==
  ASSUME PauseInv, NEW s \in PauseSigners, NEW id \in PauseIds, ApprovePauseProposal(s, id)
  PROVE  PauseInv'
<1>1. PauseTypeOK /\ NoLockout /\ BallotsCounted
  BY DEF PauseInv
<1>2. /\ id \in pause_proposal
      /\ RecordPauseApproval(id, s, pause_approval_count[id])
      /\ approvers' = [approvers EXCEPT ![id] = approvers[id] \cup {s}]
      /\ UNCHANGED <<epoch, admin, paused, pauseConfig, pause_proposal, ran>>
  BY DEF ApprovePauseProposal
<1>3. /\ pause_approval_count[id] \in Nat /\ approvers[id] \in SUBSET PauseSigners
      /\ approvers[id] \subseteq pause_approvals[id]
      /\ pause_approval_count[id] <= Cardinality(approvers[id])
  BY <1>1, <1>2 DEF PauseTypeOK, BallotsCounted
<1>4. /\ pause_approvals' \in [PauseIds -> SUBSET PauseSigners]
      /\ pause_approval_count' \in [PauseIds -> Nat]
      /\ approvers[id] \cup {s} \subseteq pause_approvals'[id]
      /\ pause_approval_count'[id] <= Cardinality(approvers[id] \cup {s})
      /\ \A other \in PauseIds \ {id} :
            /\ pause_approvals'[other] = pause_approvals[other]
            /\ pause_approval_count'[other] = pause_approval_count[other]
  BY <1>2, <1>3, ApprovalCounted
<1>5. PauseTypeOK'
  BY <1>1, <1>2, <1>3, <1>4 DEF PauseTypeOK, pauseConfig
<1>6. NoLockout'
  BY <1>1, <1>2 DEF NoLockout, pauseConfig
<1>7. BallotsCounted'
  <2> SUFFICES ASSUME NEW other \in PauseIds
               PROVE  /\ other \in pause_proposal' =>
                            /\ approvers'[other] # {}
                            /\ approvers'[other] \subseteq pause_approvals'[other]
                            /\ pause_approval_count'[other] <= Cardinality(approvers'[other])
                      /\ other \notin pause_proposal' =>
                            (pause_approvals'[other] # {} <=> other \in ran')
    BY DEF BallotsCounted
  <2>1. CASE other = id
    <3>1. approvers'[id] = approvers[id] \cup {s} /\ id \in pause_proposal'
      BY <1>1, <1>2 DEF PauseTypeOK
    <3> QED
      BY <1>4, <2>1, <3>1
  <2>2. CASE other # id
    <3>1. approvers'[other] = approvers[other]
      BY <1>1, <1>2, <2>2 DEF PauseTypeOK
    <3> QED
      BY <1>1, <1>2, <1>4, <2>2, <3>1 DEF BallotsCounted
  <2> QED
    BY <2>1, <2>2
<1> QED
  BY <1>5, <1>6, <1>7 DEF PauseInv

(* The flags of an executed ballot stay, and are not empty.                 *)
LEMMA ExecuteKeeps ==
  ASSUME PauseInv, NEW id \in PauseIds, ExecutePauseProposal(id)
  PROVE  PauseInv'
<1>1. PauseTypeOK /\ NoLockout /\ BallotsCounted
  BY DEF PauseInv
<1>2. /\ id \in pause_proposal /\ paused' = (id[1] = "pause")
      /\ pause_proposal' = pause_proposal \ {id}
      /\ pause_approval_count' = [pause_approval_count EXCEPT ![id] = 0]
      /\ approvers' = [approvers EXCEPT ![id] = {}] /\ ran' = ran \cup {id}
      /\ UNCHANGED <<epoch, admin, pauseConfig, pause_approvals>>
  BY DEF ExecutePauseProposal, ClearBallot
<1>3. paused' \in BOOLEAN
  BY <1>2
<1>4. PauseTypeOK'
  BY <1>1, <1>2, <1>3 DEF PauseTypeOK, pauseConfig
<1>5. NoLockout'
  BY <1>1, <1>2 DEF NoLockout, pauseConfig
<1>6. BallotsCounted'
  <2> SUFFICES ASSUME NEW other \in PauseIds
               PROVE  /\ other \in pause_proposal' =>
                            /\ approvers'[other] # {}
                            /\ approvers'[other] \subseteq pause_approvals'[other]
                            /\ pause_approval_count'[other] <= Cardinality(approvers'[other])
                      /\ other \notin pause_proposal' =>
                            (pause_approvals'[other] # {} <=> other \in ran')
    BY DEF BallotsCounted
  <2>1. CASE other = id
    <3>1. pause_approvals[id] # {}
      BY <1>1, <1>2 DEF BallotsCounted
    <3> QED
      BY <1>2, <2>1, <3>1
  <2>2. CASE other # id
    BY <1>1, <1>2, <2>2 DEF BallotsCounted, PauseTypeOK
  <2> QED
    BY <2>1, <2>2
<1> QED
  BY <1>4, <1>5, <1>6 DEF PauseInv

LEMMA PauseStepKeeps == PauseInv /\ PauseNext => PauseInv'
<1> SUFFICES ASSUME PauseInv, PauseNext PROVE PauseInv'
  OBVIOUS
<1>0. PauseTypeOK /\ NoLockout /\ BallotsCounted
  BY DEF PauseInv
<1>1. ASSUME NEW a \in Admins, NEW s \in PauseSigners, NEW enabled \in BOOLEAN,
             SetPauseSigner(a, s, enabled)
      PROVE  PauseInv'
  <2>1. UNCHANGED <<epoch, admin, paused, pauseBallots>>
    BY <1>1 DEF SetPauseSigner
  <2>2. /\ pause_signers' \subseteq PauseSigners
        /\ pause_signer_count' \in Nat /\ pause_threshold' \in Nat
        /\ NoLockout'
    <3>1. CASE enabled
      BY <1>0, <1>1, <3>1, EnableKeeps DEF SetPauseSigner
    <3>2. CASE ~enabled
      BY <1>0, <1>1, <3>2, DisableKeeps DEF SetPauseSigner
    <3> QED
      BY <3>1, <3>2
  <2>3. PauseTypeOK' /\ BallotsCounted'
    BY <1>0, <2>1, <2>2 DEF PauseTypeOK, BallotsCounted, pauseBallots
  <2> QED
    BY <2>2, <2>3 DEF PauseInv
<1>2. ASSUME NEW a \in Admins, NEW t \in 0..Cardinality(PauseSigners), SetPauseThreshold(a, t)
      PROVE  PauseInv'
  <2>1. t \in Nat
    BY FS_CardinalityType
  <2> QED
    BY <1>0, <1>2, <2>1
    DEF PauseInv, SetPauseThreshold, PauseTypeOK, NoLockout, BallotsCounted, pauseBallots
<1>3. ASSUME NEW a \in Admins, NEW action \in PauseActions, PauseDirectly(a, action)
      PROVE  PauseInv'
  <2>1. UNCHANGED <<epoch, admin, pauseConfig, pauseBallots>> /\ paused' \in BOOLEAN
    BY <1>3 DEF PauseDirectly
  <2> QED
    BY <1>0, <2>1 DEF PauseInv, PauseTypeOK, NoLockout, BallotsCounted, pauseConfig, pauseBallots
<1> QED
  BY <1>1, <1>2, <1>3, ProposeKeeps, ApproveKeeps, ExecuteKeeps DEF PauseNext

-----------------------------------------------------------------------------
(* The delegations.                                                         *)

(* What an owner's call comes to, direct or relayed: under one authorized   *)
(* nonce, a record of the owner is stored or revoked.                       *)
Spends(k) ==
    /\ ~paused /\ UNCHANGED <<pauseVars, now, grace, verifiers>>
    /\ \E n \in Nonces : ConsumeNonce(k[1], n)
    /\ \/ \E t \in Expiries : Store(k, t)
       \/ \E j \in Keys : j[1] = k[1] /\ MarkRevoked(j)

LEMMA KeysFacts ==
  \A k \in Keys : k[1] \in Owners /\ k[2] \in Delegates /\ k[3] \in Types
BY DEF Keys

LEMMA RevokedStaysTyped ==
  ASSUME DelegationTyped, NEW k \in Keys, MarkRevoked(k)
  PROVE  /\ delegation' \in [Keys -> Record \cup {NoDelegation}]
         /\ \A other \in Keys : now' = now /\ Valid(other)' => Valid(other)
<1>1. delegation[k] \in Record /\ now \in Nat
  BY DEF DelegationTyped, MarkRevoked
<1>2. [expires_at |-> delegation[k].expires_at, revoked |-> TRUE, revoked_at |-> now] \in Record
  BY <1>1 DEF Record
<1>3. delegation' = [delegation EXCEPT ![k] =
         [expires_at |-> delegation[k].expires_at, revoked |-> TRUE, revoked_at |-> now]]
  BY DEF MarkRevoked
<1>4. ASSUME NEW other \in Keys, now' = now, Valid(other)'
      PROVE  Valid(other)
  <2>1. CASE other = k
    <3>1. delegation'[k].revoked = TRUE
      BY <1>3 DEF DelegationTyped
    <3> QED
      BY <1>4, <2>1, <3>1 DEF Valid
  <2>2. CASE other # k
    BY <1>3, <1>4, <2>2 DEF Valid, DelegationTyped
  <2> QED
    BY <2>1, <2>2
<1> QED
  BY <1>2, <1>3, <1>4 DEF DelegationTyped

LEMMA StoredStaysTyped ==
  ASSUME DelegationTyped, NEW k \in Keys, NEW t \in Expiries, Store(k, t)
  PROVE  /\ delegation' \in [Keys -> Record \cup {NoDelegation}]
         /\ \A other \in Keys \ {k} : delegation'[other] = delegation[other]
<1>1. [expires_at |-> t, revoked |-> FALSE, revoked_at |-> 0] \in Record
  BY DEF Record
<1> QED
  BY <1>1 DEF Store, DelegationTyped

LEMMA SpendKeeps ==
  ASSUME NonceInv, NEW o \in Owners, NEW n \in Nonces, ConsumeNonce(o, n)
  PROVE  /\ nonce' \in [Owners -> Nonces] /\ uses' \in [Owners -> [Nonces -> Nat]]
         /\ voided' = voided /\ uses'[o][n] > uses[o][n]
         /\ Ahead' /\ NonceSpentOnce'
<1>1. /\ nonce \in [Owners -> Nonces] /\ uses \in [Owners -> [Nonces -> Nat]]
      /\ voided \in [Owners -> SUBSET Nonces]
  BY DEF NonceInv, DelegationTyped
<1>2. /\ nonce[o] = n /\ n < MaxNonce /\ voided' = voided
      /\ nonce' = [nonce EXCEPT ![o] = n + 1]
      /\ uses' = [uses EXCEPT ![o] = [uses[o] EXCEPT ![n] = uses[o][n] + 1]]
  BY DEF ConsumeNonce, CanConsume
<1>3. n + 1 \in Nonces /\ n \in Int
  BY <1>2 DEF Nonces
<1>4. uses[o][n] = 0 /\ n \notin voided[o]
  BY <1>1, <1>2, <1>3 DEF NonceInv, Ahead
<1>5. [uses[o] EXCEPT ![n] = uses[o][n] + 1] \in [Nonces -> Nat]
  BY <1>1
<1>6. nonce' \in [Owners -> Nonces] /\ uses' \in [Owners -> [Nonces -> Nat]]
  BY <1>1, <1>2, <1>3, <1>5
<1>7. uses'[o][n] = 1
  BY <1>1, <1>2, <1>4
<1>8. \A i \in Owners, m \in Nonces : i # o \/ m # n => uses'[i][m] = uses[i][m]
  BY <1>1, <1>2
<1>9. Ahead'
  <2> SUFFICES ASSUME NEW i \in Owners, NEW m \in Nonces, m >= nonce'[i]
               PROVE  uses'[i][m] = 0 /\ m \notin voided[i]
    BY <1>2 DEF Ahead
  <2>1. m >= nonce[i] /\ (i # o \/ m # n)
    BY <1>1, <1>2, <1>3 DEF Nonces
  <2> QED
    BY <1>8, <2>1 DEF NonceInv, Ahead
<1>10. NonceSpentOnce'
  <2> SUFFICES ASSUME NEW i \in Owners, NEW m \in Nonces
               PROVE  uses'[i][m] + (IF m \in voided[i] THEN 1 ELSE 0) <= 1
    BY <1>2 DEF NonceSpentOnce
  <2>1. CASE i = o /\ m = n
    BY <1>4, <1>7, <2>1
  <2>2. CASE ~(i = o /\ m = n)
    BY <1>8, <2>2 DEF NonceInv, NonceSpentOnce
  <2> QED
    BY <2>1, <2>2
<1> QED
  BY <1>2, <1>4, <1>6, <1>7, <1>9, <1>10

LEMMA InvalidateKeeps ==
  ASSUME NonceInv, NEW o \in Owners, NEW n \in Nonces, InvalidateNonceRange(o, n)
  PROVE  NonceInv'
<1>1. /\ nonce \in [Owners -> Nonces] /\ uses \in [Owners -> [Nonces -> Nat]]
      /\ voided \in [Owners -> SUBSET Nonces]
  BY DEF NonceInv, DelegationTyped
<1>2. /\ n > nonce[o] /\ uses' = uses
      /\ nonce' = [nonce EXCEPT ![o] = n]
      /\ voided' = [voided EXCEPT ![o] = voided[o] \cup nonce[o]..(n - 1)]
      /\ UNCHANGED <<now, delegation, grace, verifiers>>
  BY DEF InvalidateNonceRange
<1>3. n \in Int /\ \A i \in Owners : nonce[i] \in Int
  BY <1>1 DEF Nonces
<1>4. nonce[o]..(n - 1) \subseteq Nonces
  BY <1>1, <1>3 DEF Nonces
<1>5. DelegationTyped'
  BY <1>1, <1>2, <1>4 DEF NonceInv, DelegationTyped
<1>6. \A i \in Owners, m \in Nonces :
        m \in voided'[i] => m \in voided[i] \/ (i = o /\ m >= nonce[o] /\ m < n)
  BY <1>1, <1>2, <1>3 DEF Nonces
<1>7. Ahead'
  <2> SUFFICES ASSUME NEW i \in Owners, NEW m \in Nonces, m >= nonce'[i]
               PROVE  uses[i][m] = 0 /\ m \notin voided'[i]
    BY <1>2 DEF Ahead
  <2>1. m >= nonce[i] /\ ~(i = o /\ m < n)
    BY <1>1, <1>2, <1>3 DEF Nonces
  <2> QED
    BY <1>6, <2>1 DEF NonceInv, Ahead
<1>8. NonceSpentOnce'
  <2> SUFFICES ASSUME NEW i \in Owners, NEW m \in Nonces
               PROVE  uses[i][m] + (IF m \in voided'[i] THEN 1 ELSE 0) <= 1
    BY <1>2 DEF NonceSpentOnce
  <2>1. CASE i = o /\ m >= nonce[o]
    BY <1>1, <2>1 DEF NonceInv, Ahead
  <2>2. CASE ~(i = o /\ m >= nonce[o])
    <3>1. m \in voided'[i] => m \in voided[i]
      BY <1>6, <2>2
    <3>2. uses[i][m] \in Nat
      BY <1>1
    <3> QED
      BY <3>1, <3>2 DEF NonceInv, NonceSpentOnce
  <2> QED
    BY <2>1, <2>2
<1> QED
  BY <1>5, <1>7, <1>8 DEF NonceInv

-----------------------------------------------------------------------------
(* The steps, by what they change.                                          *)

LEMMA OwnerKinds ==
  ASSUME NEW k \in Keys, OwnerNext(k)
  PROVE  Spends(k)
<1>1. /\ k[1] \in Owners /\ k[2] \in Delegates
      /\ <<k[1], k[2], "Attestation">> \in Keys
      /\ <<k[1], k[2], "Attestation">>[1] = k[1]
  BY DEF Keys, Types
<1>2. \A p \in Payloads : p.nonce \in Nonces
  BY DEF Payloads
<1>3. ASSUME NEW t \in Expiries, NEW n \in Nonces, Delegate(k, t, n) PROVE Spends(k)
  BY <1>3 DEF Delegate, Spends
<1>4. ASSUME NEW n \in Nonces, RevokeDelegation(k, n) PROVE Spends(k)
  BY <1>4 DEF RevokeDelegation, Spends
<1>5. ASSUME NEW n \in Nonces, RevokeAttestation(k[1], k[2], n) PROVE Spends(k)
  BY <1>1, <1>5 DEF RevokeAttestation, RevokeDelegation, Spends
<1>6. ASSUME NEW t \in Expiries, NEW p \in Payloads, ExecuteDelegatedDelegate(k, t, p)
      PROVE  Spends(k)
  BY <1>2, <1>6 DEF ExecuteDelegatedDelegate, Accepts, Spends
<1>7. ASSUME NEW p \in Payloads, ExecuteDelegatedRevoke(k, p) PROVE Spends(k)
  BY <1>2, <1>7 DEF ExecuteDelegatedRevoke, Accepts, Spends
<1>8. ASSUME NEW p \in Payloads, ExecuteDelegatedRevokeAttest(k[1], k[2], p)
      PROVE  Spends(k)
  BY <1>1, <1>2, <1>8 DEF ExecuteDelegatedRevokeAttest, Accepts, Spends
<1> QED
  BY <1>3, <1>4, <1>5, <1>6, <1>7, <1>8 DEF OwnerNext

LEMMA SpendsKeeps ==
  ASSUME NonceInv, NEW k \in Keys, Spends(k)
  PROVE  NonceInv' /\ UNCHANGED pauseVars
<1>1. PICK n \in Nonces : ConsumeNonce(k[1], n)
  BY DEF Spends
<1>2. /\ nonce' \in [Owners -> Nonces] /\ uses' \in [Owners -> [Nonces -> Nat]]
      /\ voided' = voided /\ Ahead' /\ NonceSpentOnce'
  BY <1>1, KeysFacts, SpendKeeps
<1>3. DelegationTyped
  BY DEF NonceInv
<1>4. delegation' \in [Keys -> Record \cup {NoDelegation}]
  BY <1>3, StoredStaysTyped, RevokedStaysTyped DEF Spends
<1> QED
  BY <1>2, <1>3, <1>4 DEF NonceInv, DelegationTyped, Spends

(* The calls that spend nothing and skip nothing.                           *)
LEMMA CleanupKeeps ==
  ASSUME NonceInv, NEW k \in Keys, CleanupExpired(k)
  PROVE  NonceInv' /\ UNCHANGED pauseVars
<1>1. /\ delegation' = [delegation EXCEPT ![k] = NoDelegation]
      /\ UNCHANGED <<pauseVars, now, nonceVars, grace, verifiers>>
  BY DEF CleanupExpired
<1> QED
  BY <1>1 DEF NonceInv, DelegationTyped, Ahead, NonceSpentOnce, nonceVars

LEMMA AdminKeeps ==
  ASSUME PauseInv, AdminFirst, NonceInv, NEW a \in Admins, AdminNext(a)
  PROVE  PauseInv' /\ AdminFirst' /\ NonceInv'
<1>1. CASE Initialize(a)
  <2>1. /\ admin = NoAdmin /\ admin' = a /\ paused' = FALSE
        /\ pause_signer_count' = 0 /\ pause_threshold' = 0
        /\ UNCHANGED <<epoch, pause_signers, pauseBallots, delegationVars>>
    BY <1>1 DEF Initialize
  <2>2. pause_signers' = {} /\ a # NoAdmin
    BY <2>1 DEF AdminFirst
  <2>3. paused' \in BOOLEAN
    BY <2>1, Zenon
  <2>4. PauseTypeOK' /\ BallotsCounted'
    BY <2>1, <2>3 DEF PauseInv, PauseTypeOK, BallotsCounted, pauseBallots
  <2>5. NoLockout'
    BY <2>1, <2>2, FS_EmptySet DEF NoLockout
  <2>6. NonceInv'
    BY <2>1 DEF NonceInv, DelegationTyped, Ahead, NonceSpentOnce, delegationVars, nonceVars
  <2> QED
    BY <2>1, <2>2, <2>4, <2>5, <2>6 DEF PauseInv, AdminFirst
<1>2. ASSUME UNCHANGED <<pauseVars, now, delegation, nonceVars>>,
             grace' \in Nat, verifiers' \subseteq 0..2
      PROVE  PauseInv' /\ AdminFirst' /\ NonceInv'
  <2>1. NonceInv'
    BY <1>2 DEF NonceInv, DelegationTyped, Ahead, NonceSpentOnce, nonceVars
  <2>2. PauseInv' /\ AdminFirst'
    BY <1>2 DEF PauseInv, PauseTypeOK, NoLockout, BallotsCounted, AdminFirst,
                pauseVars, pauseConfig, pauseBallots
  <2> QED
    BY <2>1, <2>2
<1>3. ASSUME NEW g \in GracePeriods, SetRevocationGracePeriod(a, g)
      PROVE  PauseInv' /\ AdminFirst' /\ NonceInv'
  <2>1. grace' \in Nat /\ verifiers' \subseteq 0..2
    BY <1>3 DEF SetRevocationGracePeriod, NonceInv, DelegationTyped
  <2> QED
    BY <1>2, <1>3, <2>1 DEF SetRevocationGracePeriod
<1>4. ASSUME NEW scheme \in Schemes, RegisterVerifier(a, scheme)
      PROVE  PauseInv' /\ AdminFirst' /\ NonceInv'
  <2>1. grace' \in Nat /\ verifiers' \subseteq 0..2
    BY <1>4 DEF RegisterVerifier, NonceInv, DelegationTyped
  <2> QED
    BY <1>2, <1>4, <2>1 DEF RegisterVerifier
<1> QED
  BY <1>1, <1>3, <1>4 DEF AdminNext

LEMMA TickKeeps ==
  ASSUME PauseInv, AdminFirst, NonceInv, Tick
  PROVE  PauseInv' /\ AdminFirst' /\ NonceInv'
<1>1. /\ now' = now + 1 /\ epoch' \in {epoch, epoch + 1} /\ epoch' <= MaxEpoch
      /\ UNCHANGED <<admin, paused, pauseConfig, pauseBallots, delegation, nonceVars,
                     grace, verifiers>>
  BY DEF Tick
<1>2. epoch' \in 0..MaxEpoch
  BY <1>1 DEF PauseInv, PauseTypeOK
<1>3. NonceInv'
  BY <1>1 DEF NonceInv, DelegationTyped, Ahead, NonceSpentOnce, nonceVars
<1> QED
  BY <1>1, <1>2, <1>3 DEF PauseInv, PauseTypeOK, NoLockout, BallotsCounted, AdminFirst,
                          pauseConfig, pauseBallots

(* The whole invariant.                                                     *)
IInv == PauseInv /\ AdminFirst /\ NonceInv

LEMMA InitIInv == Init => IInv
<1> SUFFICES ASSUME Init PROVE IInv
  OBVIOUS
<1>1. PauseInv /\ AdminFirst
  BY InitPauseInv DEF Init, PauseInit, AdminFirst
<1>2. DelegationTyped
  <2>1. 0 \in Nonces
    BY DEF Nonces
  <2>2. [n \in Nonces |-> 0] \in [Nonces -> Nat]
    OBVIOUS
  <2> QED
    BY <2>1, <2>2 DEF Init, DelegationTyped
<1>3. Ahead /\ NonceSpentOnce
  BY DEF Init, Ahead, NonceSpentOnce
<1> QED
  BY <1>1, <1>2, <1>3 DEF IInv, NonceInv

LEMMA NextIInv == IInv /\ [Next]_vars => IInv'
<1> SUFFICES ASSUME IInv, [Next]_vars PROVE IInv'
  OBVIOUS
<1> USE DEF IInv
<1>1. CASE PauseNext /\ UNCHANGED delegationVars
  <2>1. PauseInv'
    BY <1>1, PauseStepKeeps
  <2>2. AdminFirst'
    BY <1>1 DEF PauseNext, SetPauseSigner, SetPauseThreshold, PauseDirectly, ProposePause,
        ApprovePauseProposal, ExecutePauseProposal, StoredAdmin, AdminFirst, pauseConfig
  <2>3. NonceInv'
    BY <1>1 DEF NonceInv, DelegationTyped, Ahead, NonceSpentOnce, delegationVars, nonceVars
  <2> QED
    BY <2>1, <2>2, <2>3
<1>2. ASSUME UNCHANGED pauseVars PROVE PauseInv' /\ AdminFirst'
  BY <1>2 DEF PauseInv, PauseTypeOK, NoLockout, BallotsCounted, AdminFirst,
              pauseVars, pauseConfig, pauseBallots
<1>3. ASSUME NEW k \in Keys, OwnerNext(k) PROVE IInv'
  BY <1>2, <1>3, OwnerKinds, SpendsKeeps
<1>4. ASSUME NEW k \in Keys, CleanupExpired(k) PROVE IInv'
  BY <1>2, <1>4, CleanupKeeps
<1>5. ASSUME NEW o \in Owners, NEW n \in Nonces, InvalidateNonceRange(o, n) PROVE IInv'
  <2>1. UNCHANGED pauseVars
    BY <1>5 DEF InvalidateNonceRange
  <2> QED
    BY <1>2, <1>5, <2>1, InvalidateKeeps
<1>6. ASSUME NEW a \in Admins, AdminNext(a) PROVE IInv'
  BY <1>6, AdminKeeps
<1>7. CASE Tick
  BY <1>7, TickKeeps
<1>8. CASE UNCHANGED vars
  <2>1. NonceInv'
    BY <1>8 DEF NonceInv, DelegationTyped, Ahead, NonceSpentOnce, vars, delegationVars, nonceVars
  <2> QED
    BY <1>2, <1>8, <2>1 DEF vars
<1> QED
  BY <1>1, <1>3, <1>4, <1>5, <1>6, <1>7, <1>8 DEF Next

LEMMA Invariance == Spec => []IInv
BY InitIInv, NextIInv, PTL DEF Spec

-----------------------------------------------------------------------------
(* Every key holds a value of its Rust type; no nonce leaves u64.           *)
THEOREM TypeCorrect == Spec => []TypeOK
<1>1. IInv => TypeOK
  BY DEF IInv, PauseInv, NonceInv, DelegationTyped, TypeOK
<1> QED
  BY <1>1, Invariance, PTL

(* set_pause_signer: nobody is ever locked out of the pause, for any number *)
(* of signers joining, leaving and repeating in any order.                  *)
THEOREM LockoutFree == Spec => []NoLockout
<1>1. IInv => NoLockout
  BY DEF IInv, PauseInv
<1> QED
  BY <1>1, Invariance, PTL

(* get_pause_proposal_state: what it infers from left-over flags is true.   *)
THEOREM ViewHonest == Spec => []ExecutedViewHonest
<1>1. IInv => ExecutedViewHonest
  BY DEF IInv, PauseInv, PauseTypeOK, BallotsCounted, ExecutedViewHonest, ExecutedView
<1> QED
  BY <1>1, Invariance, PTL

(* nonce.rs: a nonce authorizes at most one call, direct or relayed, for    *)
(* any number of payloads, delayed and repeated at will.                    *)
THEOREM NonceOnce == Spec => []NonceSpentOnce
<1>1. IInv => NonceSpentOnce
  BY DEF IInv, NonceInv
<1> QED
  BY <1>1, Invariance, PTL

(* The views of one record agree at every boundary, for any grace period.   *)
THEOREM ViewsKept == Spec => []ViewsAgree
<1>1. IInv => ViewsAgree
  <2> SUFFICES ASSUME IInv, NEW k \in Keys, delegation[k] # NoDelegation
               PROVE  LET d == delegation[k] IN
                      /\ Valid(k) <=> Status(d) = "Active"
                      /\ Status(d) = "Active" => RevocationAllowed(d) /\ ~CanClean(k)
                      /\ Status(d) = "InGrace" => RevocationAllowed(d) /\ CanClean(k)
                      /\ Status(d) = "Expired" => (RevocationAllowed(d) <=> grace = 0)
    BY DEF ViewsAgree
  <2>1. /\ delegation[k].expires_at \in Nat /\ delegation[k].revoked \in BOOLEAN
        /\ now \in Nat /\ grace \in Nat
    BY DEF IInv, NonceInv, DelegationTyped, Record
  <2> QED
    BY <2>1 DEF Valid, Status, RevocationAllowed, CanClean, Capped
<1> QED
  BY <1>1, Invariance, PTL

(* is_valid_delegate turns true only in a step that spends the owner's next *)
(* nonce; time, the grace period and the admin cannot make it so.           *)
THEOREM AuthorityKept == Spec => AuthorityIsSigned
<1>1. IInv /\ [Next]_vars =>
        [\A k \in Keys : ~Valid(k) /\ Valid(k)' =>
            /\ ~paused
            /\ \E n \in Nonces : uses'[k[1]][n] > uses[k[1]][n]]_vars
  <2> SUFFICES ASSUME IInv, [Next]_vars, NEW k \in Keys, ~Valid(k), Valid(k)'
               PROVE  ~paused /\ \E n \in Nonces : uses'[k[1]][n] > uses[k[1]][n]
    OBVIOUS
  <2>1. NonceInv /\ DelegationTyped /\ now \in Nat
    BY DEF IInv, NonceInv, DelegationTyped
  <2>2. ~ (delegation' = delegation /\ (now' = now \/ now' = now + 1))
    <3> SUFFICES ASSUME delegation' = delegation, now' = now \/ now' = now + 1
                 PROVE  FALSE
      OBVIOUS
    <3>1. delegation[k] # NoDelegation
      BY DEF Valid
    <3>2. delegation[k].expires_at \in Nat
      BY <2>1, <3>1 DEF DelegationTyped, Record
    <3> QED
      BY <2>1, <3>1, <3>2 DEF Valid
  <2>3. ASSUME NEW j \in Keys, OwnerNext(j)
        PROVE  ~paused /\ \E n \in Nonces : uses'[k[1]][n] > uses[k[1]][n]
    <3>1. Spends(j)
      BY <2>3, OwnerKinds
    <3>2. PICK n \in Nonces : ConsumeNonce(j[1], n)
      BY <3>1 DEF Spends
    <3>3. uses'[j[1]][n] > uses[j[1]][n]
      BY <2>1, <3>2, KeysFacts, SpendKeeps
    <3>4. j = k
      <4>1. ASSUME NEW i \in Keys, MarkRevoked(i) PROVE FALSE
        BY <2>1, <3>1, <4>1, RevokedStaysTyped DEF Spends
      <4>2. PICK t \in Expiries : Store(j, t)
        BY <3>1, <4>1 DEF Spends
      <4>3. ASSUME j # k PROVE FALSE
        <5>1. delegation'[k] = delegation[k] /\ now' = now
          BY <2>1, <3>1, <4>2, <4>3, StoredStaysTyped DEF Spends
        <5> QED
          BY <5>1 DEF Valid
      <4> QED
        BY <4>3
    <3> QED
      BY <3>1, <3>3, <3>4 DEF Spends
  <2>4. ASSUME NEW j \in Keys, CleanupExpired(j) PROVE FALSE
    <3>1. delegation' = [delegation EXCEPT ![j] = NoDelegation] /\ now' = now
      BY <2>4 DEF CleanupExpired
    <3>2. CASE j = k
      BY <2>1, <3>1, <3>2 DEF Valid, DelegationTyped
    <3>3. CASE j # k
      BY <2>1, <3>1, <3>3 DEF Valid, DelegationTyped
    <3> QED
      BY <3>2, <3>3
  <2>5. CASE PauseNext /\ UNCHANGED delegationVars
    BY <2>2, <2>5 DEF delegationVars
  <2>6. ASSUME NEW o \in Owners, NEW n \in Nonces, InvalidateNonceRange(o, n) PROVE FALSE
    BY <2>2, <2>6 DEF InvalidateNonceRange
  <2>7. ASSUME NEW a \in Admins, AdminNext(a) PROVE FALSE
    BY <2>2, <2>7 DEF AdminNext, Initialize, SetRevocationGracePeriod, RegisterVerifier,
                      delegationVars
  <2>8. CASE Tick
    BY <2>2, <2>8 DEF Tick
  <2>9. CASE UNCHANGED vars
    BY <2>2, <2>9 DEF vars, delegationVars
  <2> QED
    BY <2>3, <2>4, <2>5, <2>6, <2>7, <2>8, <2>9 DEF Next
<1> QED
  BY <1>1, Invariance, PTL DEF Spec, AuthorityIsSigned

(* With signers the contract is paused only by a ballot with a quorum of    *)
(* different signers, however ballots of an epoch are opened and reopened.  *)
THEOREM QuorumPauses == Spec => PausedByQuorum
<1>1. IInv /\ [Next]_vars =>
        [~paused /\ paused' /\ pause_threshold > 0
         => \E id \in pause_proposal \ pause_proposal' :
                Cardinality(approvers[id]) >= pause_threshold]_pauseVars
  <2> SUFFICES ASSUME IInv, [Next]_vars, ~paused, paused', pause_threshold > 0
               PROVE  \E id \in pause_proposal \ pause_proposal' :
                         Cardinality(approvers[id]) >= pause_threshold
    OBVIOUS
  <2>1. PauseTypeOK /\ BallotsCounted
    BY DEF IInv, PauseInv
  <2>2. paused' # paused
    OBVIOUS
  <2>3. PICK id \in PauseIds : ExecutePauseProposal(id)
    <3>1. CASE PauseNext
      <4>1. ASSUME NEW a \in Admins, NEW action \in PauseActions, PauseDirectly(a, action)
            PROVE  FALSE
        <5>1. pause_threshold # 0
          BY <2>1 DEF PauseTypeOK
        <5>2. action = "unpause" /\ paused' = (action = "pause")
          BY <4>1, <5>1 DEF PauseDirectly
        <5> QED
          BY <5>2
      <4>2. ~ \E a \in Admins, s \in PauseSigners, enabled \in BOOLEAN :
                 SetPauseSigner(a, s, enabled)
        BY <2>2 DEF SetPauseSigner
      <4>3. ~ \E a \in Admins, t \in 0..Cardinality(PauseSigners) : SetPauseThreshold(a, t)
        BY <2>2 DEF SetPauseThreshold
      <4>4. ~ \E s \in PauseSigners, action \in PauseActions : ProposePause(s, action)
        BY <2>2 DEF ProposePause
      <4>5. ~ \E s \in PauseSigners, id \in PauseIds : ApprovePauseProposal(s, id)
        BY <2>2 DEF ApprovePauseProposal
      <4> QED
        BY <3>1, <4>1, <4>2, <4>3, <4>4, <4>5 DEF PauseNext
    <3>2. ~ (\E k \in Keys : OwnerNext(k))
      BY <2>2, OwnerKinds DEF Spends, pauseVars
    <3>3. ~ (\E k \in Keys : CleanupExpired(k))
      BY <2>2 DEF CleanupExpired, pauseVars
    <3>4. ~ (\E o \in Owners, n \in Nonces : InvalidateNonceRange(o, n))
      BY <2>2 DEF InvalidateNonceRange, pauseVars
    <3>5. ~ (\E a \in Admins : AdminNext(a))
      BY <2>2 DEF AdminNext, Initialize, SetRevocationGracePeriod, RegisterVerifier, pauseVars
    <3>6. ~Tick
      BY <2>2 DEF Tick
    <3>7. ~UNCHANGED vars
      BY <2>2 DEF vars, pauseVars
    <3> QED
      BY <3>1, <3>2, <3>3, <3>4, <3>5, <3>6, <3>7 DEF Next
  <2>4. /\ id \in pause_proposal \ pause_proposal'
        /\ pause_approval_count[id] >= pause_threshold
        /\ pause_approval_count[id] <= Cardinality(approvers[id])
    BY <2>1, <2>3 DEF ExecutePauseProposal, ClearBallot, BallotsCounted
  <2>5. /\ pause_approval_count[id] \in Nat /\ pause_threshold \in Nat
        /\ Cardinality(approvers[id]) \in Nat
    <3>1. approvers[id] \in SUBSET PauseSigners
      BY <2>1 DEF PauseTypeOK
    <3>2. IsFiniteSet(approvers[id])
      BY <3>1, FS_Subset
    <3> QED
      BY <2>1, <3>2, FS_CardinalityType DEF PauseTypeOK
  <2> QED
    BY <2>4, <2>5
<1> QED
  BY <1>1, Invariance, PTL DEF Spec, PausedByQuorum

=============================================================================
