--------------------------- MODULE DelegationPause ---------------------------
(***************************************************************************)
(* The emergency pause of credence_delegation (its own pausable.rs).  It   *)
(* differs from module Pausable in three ways: a ballot's identifier is    *)
(* derived from its action and the current epoch, so that signers who      *)
(* propose the same action meet on one ballot; the first signer raises the *)
(* threshold to one, and it cannot be put back to zero while there are     *)
(* signers; the admin can always unpause alone.                            *)
(*                                                                         *)
(* The hash that turns (action, epoch) into an identifier is taken to be   *)
(* injective: identifiers are the pairs themselves.                        *)
(***************************************************************************)
EXTENDS Integers, FiniteSets

CONSTANTS
    Admins,          \* addresses that may hold DataKey::Admin
    NoAdmin,         \* DataKey::Admin absent
    PauseSigners,    \* addresses that may be pause signers
    MaxEpoch         \* bound: last epoch of ledger sequences explored

ASSUME DelegationPauseAssumption ==
    NoAdmin \notin Admins /\ IsFiniteSet(PauseSigners) /\ MaxEpoch \in Nat

VARIABLES
    epoch,                  \* e.ledger().sequence() / PROPOSAL_EPOCH_SIZE
    admin,                  \* DataKey::Admin
    paused,                 \* DataKey::Paused
    pause_signers,          \* DataKey::PauseSigner
    pause_signer_count,     \* DataKey::PauseSignerCount
    pause_threshold,        \* DataKey::PauseThreshold
    pause_proposal,         \* DataKey::PauseProposal: the identifiers stored
    pause_approvals,        \* DataKey::PauseApproval
    pause_approval_count,   \* DataKey::PauseApprovalCount
    approvers,              \* history variable: who approved the stored ballot
    ran                     \* history variable: ballots that were executed

pauseConfig == <<pause_signers, pause_signer_count, pause_threshold>>
pauseBallots == <<pause_proposal, pause_approvals, pause_approval_count, approvers, ran>>
pauseVars == <<epoch, admin, paused, pauseConfig, pauseBallots>>

PauseActions == {"pause", "unpause"}
PauseIds == PauseActions \X (0..MaxEpoch)

StoredAdmin(a) == admin # NoAdmin /\ a = admin

PauseInit ==
    /\ epoch = 0 /\ admin = NoAdmin /\ paused = FALSE
    /\ pause_signers = {} /\ pause_signer_count = 0 /\ pause_threshold = 0
    /\ pause_proposal = {}
    /\ pause_approvals = [id \in PauseIds |-> {}]
    /\ pause_approval_count = [id \in PauseIds |-> 0]
    /\ approvers = [id \in PauseIds |-> {}] /\ ran = {}

-----------------------------------------------------------------------------
(* Signers.  Enabling one twice, or disabling an unknown one, is no change. *)

Fault_EnablePauseSigner(s) ==
    /\ pause_signers' = pause_signers \cup {s}
    /\ pause_signer_count' = pause_signer_count + 1
    /\ pause_threshold' = IF pause_threshold = 0 THEN 1 ELSE pause_threshold

EnablePauseSigner(s) ==
    IF s \in pause_signers
    THEN UNCHANGED pauseConfig
    ELSE /\ pause_signers' = pause_signers \cup {s}
         /\ pause_signer_count' = pause_signer_count + 1
         /\ pause_threshold' = IF pause_threshold = 0 THEN 1 ELSE pause_threshold

Fault_DisablePauseSigner(s) ==
    /\ pause_signers' = pause_signers \ {s}
    /\ pause_signer_count' = pause_signer_count - 1
    /\ pause_threshold' = IF pause_threshold > pause_signer_count'
                          THEN pause_signer_count' ELSE pause_threshold

DisablePauseSigner(s) ==
    IF s \in pause_signers
    THEN /\ pause_signers' = pause_signers \ {s}
         /\ pause_signer_count' = IF pause_signer_count = 0 THEN 0 ELSE pause_signer_count - 1
         /\ pause_threshold' = IF pause_threshold > pause_signer_count'
                               THEN pause_signer_count' ELSE pause_threshold
    ELSE UNCHANGED pauseConfig

SetPauseSigner(a, s, enabled) ==
    /\ StoredAdmin(a)
    /\ IF enabled THEN EnablePauseSigner(s) ELSE DisablePauseSigner(s)
    /\ UNCHANGED <<epoch, admin, paused, pauseBallots>>

SetPauseThreshold(a, threshold) ==
    /\ StoredAdmin(a)
    /\ threshold <= pause_signer_count
    /\ threshold = 0 => pause_signer_count = 0
    /\ pause_threshold' = threshold
    /\ UNCHANGED <<epoch, admin, paused, pause_signers, pause_signer_count, pauseBallots>>

-----------------------------------------------------------------------------
(* Ballots.                                                                 *)

Fault_RecordPauseApproval(id, s, count) ==
    /\ pause_approvals' = [pause_approvals EXCEPT ![id] = @ \cup {s}]
    /\ pause_approval_count' = [pause_approval_count EXCEPT ![id] = count + 1]

(* record_approval on a ballot with count approvals: an approval flag that  *)
(* is there already, also one left by an executed ballot, is not counted.   *)
RecordPauseApproval(id, s, count) ==
    /\ pause_approvals' = [pause_approvals EXCEPT ![id] = @ \cup {s}]
    /\ pause_approval_count' = [pause_approval_count EXCEPT ![id] =
         IF s \in pause_approvals[id] THEN count ELSE count + 1]

(* Without signers the admin pauses alone, and can unpause in any case.     *)
PauseDirectly(a, action) ==
    /\ StoredAdmin(a)
    /\ pause_threshold = 0 \/ action = "unpause"
    /\ paused' = (action = "pause")
    /\ UNCHANGED <<epoch, admin, pauseConfig, pauseBallots>>

(* propose_action: joins the ballot of this action and epoch, or opens it.  *)
ProposePause(s, action) ==
    LET id == <<action, epoch>>
        opens == id \notin pause_proposal
    IN  /\ pause_threshold # 0 /\ s \in pause_signers
        /\ action = "pause" \/ ~StoredAdmin(s)
        /\ pause_proposal' = pause_proposal \cup {id}
        /\ RecordPauseApproval(id, s, IF opens THEN 0 ELSE pause_approval_count[id])
        /\ approvers' = [approvers EXCEPT ![id] = IF opens THEN {s} ELSE @ \cup {s}]
        /\ UNCHANGED <<epoch, admin, paused, pauseConfig, ran>>

ApprovePauseProposal(s, id) ==
    /\ s \in pause_signers /\ id \in pause_proposal
    /\ RecordPauseApproval(id, s, pause_approval_count[id])
    /\ approvers' = [approvers EXCEPT ![id] = @ \cup {s}]
    /\ UNCHANGED <<epoch, admin, paused, pauseConfig, pause_proposal, ran>>

Fault_ClearBallot(id) ==
    /\ pause_proposal' = pause_proposal \ {id}
    /\ pause_approval_count' = [pause_approval_count EXCEPT ![id] = 0]
    /\ pause_approvals' = [pause_approvals EXCEPT ![id] = {}]

(* The approval flags outlive the ballot; its count does not.               *)
ClearBallot(id) ==
    /\ pause_proposal' = pause_proposal \ {id}
    /\ pause_approval_count' = [pause_approval_count EXCEPT ![id] = 0]
    /\ UNCHANGED pause_approvals

ExecutePauseProposal(id) ==
    /\ id \in pause_proposal
    /\ pause_approval_count[id] >= pause_threshold
    /\ paused' = (id[1] = "pause")
    /\ ClearBallot(id)
    /\ approvers' = [approvers EXCEPT ![id] = {}]
    /\ ran' = ran \cup {id}
    /\ UNCHANGED <<epoch, admin, pauseConfig>>

(* `executed` of get_pause_proposal_state: no ballot is stored, but flags   *)
(* of some of the addresses asked about are.  (The counter of earlier       *)
(* releases, which it also looks at, is 0 for ever.)                        *)
ExecutedView(id, candidates) ==
    id \notin pause_proposal /\ candidates \cap pause_approvals[id] # {}

PauseNext ==
    \/ \E a \in Admins, s \in PauseSigners, enabled \in BOOLEAN : SetPauseSigner(a, s, enabled)
    \/ \E a \in Admins, threshold \in 0..Cardinality(PauseSigners) :
          SetPauseThreshold(a, threshold)
    \/ \E a \in Admins, action \in PauseActions : PauseDirectly(a, action)
    \/ \E s \in PauseSigners, action \in PauseActions : ProposePause(s, action)
    \/ \E s \in PauseSigners, id \in PauseIds : ApprovePauseProposal(s, id)
    \/ \E id \in PauseIds : ExecutePauseProposal(id)

-----------------------------------------------------------------------------
(* Properties.                                                              *)

(* Every key of the pause mechanism holds a value of its Rust type.         *)
PauseTypeOK ==
    /\ epoch \in 0..MaxEpoch
    /\ admin \in Admins \cup {NoAdmin} /\ paused \in BOOLEAN
    /\ pause_signers \subseteq PauseSigners
    /\ pause_signer_count \in Nat /\ pause_threshold \in Nat
    /\ pause_proposal \subseteq PauseIds
    /\ pause_approvals \in [PauseIds -> SUBSET PauseSigners]
    /\ pause_approval_count \in [PauseIds -> Nat]
    /\ approvers \in [PauseIds -> SUBSET PauseSigners] /\ ran \subseteq PauseIds

(* The no-lockout invariants of set_pause_signer: the cached count is the   *)
(* number of signers, the threshold can be reached, and with signers it is  *)
(* never zero, whatever the order in which they come, leave and repeat.     *)
NoLockout ==
    /\ pause_signer_count = Cardinality(pause_signers)
    /\ pause_threshold <= pause_signer_count
    /\ pause_signer_count > 0 => pause_threshold > 0

(* What the view infers from keys that are left over is what happened: a    *)
(* ballot is reported executed exactly when it was and is not open again.   *)
ExecutedViewHonest ==
    \A id \in PauseIds :
        ExecutedView(id, PauseSigners) <=> id \in ran /\ id \notin pause_proposal

(* While there are signers the contract is paused only by a ballot that     *)
(* `threshold` different signers have approved since it was opened:         *)
(* approvals of an executed ballot of the same epoch do not count again,    *)
(* nor does a signer who proposes and then approves.                        *)
PausedByQuorum ==
    [][~paused /\ paused' /\ pause_threshold > 0
         => \E id \in pause_proposal \ pause_proposal' :
                Cardinality(approvers[id]) >= pause_threshold]_pauseVars
=============================================================================
