------------------------------ MODULE Pausable ------------------------------
(***************************************************************************)
(* Emergency pause with its own signer set: pausable.rs of                 *)
(* credence_treasury, the same file in credence_registry and in            *)
(* arbitration.  A contract EXTENDS this module, guards its entry points   *)
(* with ~paused, and offers the pause entry points next to its own.        *)
(*                                                                         *)
(* With threshold 0 the admin pauses alone; otherwise a pause signer       *)
(* proposes, signers approve, and anyone executes.                         *)
(***************************************************************************)
EXTENDS Integers, FiniteSets

CONSTANTS
    Admins,              \* addresses that may hold DataKey::Admin
    NoAdmin,             \* DataKey::Admin absent
    PauseSigners,        \* addresses that may be pause signers
    NoAction,            \* DataKey::PauseProposal(id) absent
    MaxPauseProposals    \* bound: pause proposals created

ASSUME PauseSortsAssumption ==
    /\ NoAdmin \notin Admins /\ NoAction \notin {"pause", "unpause"}
    /\ IsFiniteSet(PauseSigners) /\ MaxPauseProposals \in Nat

VARIABLES
    admin,                  \* DataKey::Admin
    paused,                 \* DataKey::Paused
    pause_signers,          \* DataKey::PauseSigner
    pause_signer_count,     \* DataKey::PauseSignerCount
    pause_threshold,        \* DataKey::PauseThreshold
    pause_counter,          \* DataKey::PauseProposalCounter
    pause_proposal,         \* DataKey::PauseProposal
    pause_approvals,        \* DataKey::PauseApproval
    pause_approval_count    \* DataKey::PauseApprovalCount

pauseConfig == <<pause_signers, pause_signer_count, pause_threshold>>
pauseBallots == <<pause_counter, pause_proposal, pause_approvals, pause_approval_count>>
pauseVars == <<admin, paused, pauseConfig, pauseBallots>>

PauseActions == {"pause", "unpause"}
PauseIds == 0..(MaxPauseProposals - 1)

Smaller(a, b) == IF a <= b THEN a ELSE b
StoredAdmin(a) == admin # NoAdmin /\ a = admin

PauseInit ==
    /\ admin = NoAdmin /\ paused = FALSE
    /\ pause_signers = {} /\ pause_signer_count = 0 /\ pause_threshold = 0
    /\ pause_counter = 0
    /\ pause_proposal = [id \in PauseIds |-> NoAction]
    /\ pause_approvals = [id \in PauseIds |-> {}]
    /\ pause_approval_count = [id \in PauseIds |-> 0]

(* What initialize writes for this module: the counters, not the keys of    *)
(* earlier signers, proposals and approvals.                                *)
PauseReset ==
    /\ paused' = FALSE
    /\ pause_signer_count' = 0 /\ pause_threshold' = 0 /\ pause_counter' = 0
    /\ UNCHANGED <<pause_signers, pause_proposal, pause_approvals, pause_approval_count>>

-----------------------------------------------------------------------------
(* Adding a signer twice, or removing an unknown one, changes nothing.      *)
EnablePauseSigner(s) ==
    /\ pause_signers' = pause_signers \cup {s}
    /\ pause_signer_count' =
         IF s \in pause_signers THEN pause_signer_count ELSE pause_signer_count + 1
    /\ UNCHANGED pause_threshold

Fault_DisablePauseSigner(s) ==
    /\ pause_signers' = pause_signers \ {s}
    /\ pause_signer_count' = IF pause_signer_count = 0 THEN 0 ELSE pause_signer_count - 1
    /\ pause_threshold' = Smaller(pause_threshold, pause_signer_count')

(* The threshold follows the count down.                                    *)
DisablePauseSigner(s) ==
    IF s \in pause_signers
    THEN /\ pause_signers' = pause_signers \ {s}
         /\ pause_signer_count' = IF pause_signer_count = 0 THEN 0 ELSE pause_signer_count - 1
         /\ pause_threshold' = Smaller(pause_threshold, pause_signer_count')
    ELSE UNCHANGED pauseConfig

SetPauseSigner(a, s, enabled) ==
    /\ StoredAdmin(a)
    /\ IF enabled THEN EnablePauseSigner(s) ELSE DisablePauseSigner(s)
    /\ UNCHANGED <<admin, paused, pauseBallots>>

SetPauseThreshold(a, threshold) ==
    /\ StoredAdmin(a)
    /\ threshold <= pause_signer_count
    /\ pause_threshold' = threshold
    /\ UNCHANGED <<admin, paused, pause_signers, pause_signer_count, pauseBallots>>

-----------------------------------------------------------------------------
Fault_RecordPauseApproval(id, s, count) ==
    /\ pause_approvals' = [pause_approvals EXCEPT ![id] = @ \cup {s}]
    /\ pause_approval_count' = [pause_approval_count EXCEPT ![id] = count + 1]

(* record_approval on a ballot that holds count approvals so far; a second  *)
(* approval of one signer is not counted.                                   *)
RecordPauseApproval(id, s, count) ==
    /\ pause_approvals' = [pause_approvals EXCEPT ![id] = @ \cup {s}]
    /\ pause_approval_count' = [pause_approval_count EXCEPT ![id] =
         IF s \in pause_approvals[id] THEN count ELSE count + 1]

PauseDirectly(a, action) ==
    /\ pause_threshold = 0 /\ StoredAdmin(a)
    /\ paused' = (action = "pause")
    /\ UNCHANGED <<admin, pauseConfig, pauseBallots>>

(* propose_action: the proposer approves with the proposal.                 *)
ProposePause(s, action) ==
    /\ pause_threshold # 0 /\ s \in pause_signers
    /\ pause_counter < MaxPauseProposals
    /\ pause_counter' = pause_counter + 1
    /\ pause_proposal' = [pause_proposal EXCEPT ![pause_counter] = action]
    /\ RecordPauseApproval(pause_counter, s, 0)
    /\ UNCHANGED <<admin, paused, pauseConfig>>

ApprovePauseProposal(s, id) ==
    /\ s \in pause_signers /\ pause_proposal[id] # NoAction
    /\ RecordPauseApproval(id, s, pause_approval_count[id])
    /\ UNCHANGED <<admin, paused, pauseConfig, pause_counter, pause_proposal>>

Fault_CanExecutePause(id) ==
    pause_proposal[id] # NoAction /\ pause_approval_count[id] + 1 >= pause_threshold

CanExecutePause(id) ==
    pause_proposal[id] # NoAction /\ pause_approval_count[id] >= pause_threshold

ExecutePauseProposal(id) ==
    /\ CanExecutePause(id)
    /\ paused' = (pause_proposal[id] = "pause")
    /\ pause_proposal' = [pause_proposal EXCEPT ![id] = NoAction]
    /\ UNCHANGED <<admin, pauseConfig, pause_counter, pause_approvals, pause_approval_count>>

PauseNext ==
    \/ \E a \in Admins, s \in PauseSigners, enabled \in BOOLEAN : SetPauseSigner(a, s, enabled)
    \/ \E a \in Admins, threshold \in 0..Cardinality(PauseSigners) :
          SetPauseThreshold(a, threshold)
    \/ \E a \in Admins, action \in PauseActions : PauseDirectly(a, action)
    \/ \E s \in PauseSigners, action \in PauseActions : ProposePause(s, action)
    \/ \E s \in PauseSigners, id \in PauseIds : ApprovePauseProposal(s, id)
    \/ \E id \in PauseIds : ExecutePauseProposal(id)

-----------------------------------------------------------------------------
(* Every key of the pause mechanism holds a value of its Rust type.         *)
PauseTypeOK ==
    /\ admin \in Admins \cup {NoAdmin} /\ paused \in BOOLEAN
    /\ pause_signers \subseteq PauseSigners
    /\ pause_signer_count \in Nat /\ pause_threshold \in Nat
    /\ pause_counter \in 0..MaxPauseProposals
    /\ pause_proposal \in [PauseIds -> PauseActions \cup {NoAction}]
    /\ pause_approvals \in [PauseIds -> SUBSET PauseSigners]
    /\ pause_approval_count \in [PauseIds -> Nat]

(* docs/pause-signer-invariant.md: the cached count is the number of        *)
(* signers, so the threshold never asks for more signers than there are and *)
(* the contract can always be unpaused.                                     *)
PauseSignersInLockstep ==
    /\ pause_signer_count = Cardinality(pause_signers)
    /\ pause_threshold <= pause_signer_count

(* A ballot never counts more approvals than signers who really approved    *)
(* it, however often they repeat themselves.                                *)
PauseBallotsHonest ==
    \A id \in PauseIds : pause_approval_count[id] <= Cardinality(pause_approvals[id])
=============================================================================
