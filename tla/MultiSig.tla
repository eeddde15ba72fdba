------------------------------ MODULE MultiSig ------------------------------
(***************************************************************************)
(* credence_multisig/src/multisig.rs: signers propose and sign operations, *)
(* anyone executes one that enough current signers have signed, the admin  *)
(* manages the signers and may reject, anyone prunes expired proposals;    *)
(* with the emergency pause of module Pausable.                            *)
(*                                                                         *)
(* An operation is known by its op_hash.  Executing a proposal that has    *)
(* expired panics, and the panic undoes the Expired status written just    *)
(* before it: that status is never stored.                                 *)
(***************************************************************************)
EXTENDS Pausable, Lists

CONSTANTS
    Signers,         \* addresses that may be signers
    SignerLists,     \* signer vectors a caller of initialize may pass
    Hashes,          \* op_hash values
    NoHash,          \* no operation
    NoProposal,      \* DataKey::Proposal(id) absent
    Expiries,        \* arguments expires_at of submit_proposal; 0 is never
    Sweeps,          \* arguments max_iter of prune_expired_proposals
    DefaultSweep,    \* DEFAULT_MAX_ITER
    SweepCap,        \* MAX_ITER_HARD_CAP
    MaxTime,         \* bound: last ledger timestamp explored
    MaxProposals,    \* bound: proposals created after one initialize
    MaxInits         \* bound: calls of initialize

Ids == 0..(MaxProposals - 1)
Statuses == {"Pending", "Executed", "Rejected"}
Proposal ==
    [proposer : Signers, expires_at : Nat, op_hash : Hashes, status : Statuses]

ASSUME MultiSigSortsAssumption ==
    /\ IsFiniteSet(Signers) /\ SignerLists \subseteq Seq(Signers)
    /\ NoHash \notin Hashes /\ NoProposal \notin Proposal
ASSUME MultiSigNumbersAssumption ==
    /\ Expiries \subseteq Nat /\ Sweeps \subseteq Nat
    /\ DefaultSweep \in Nat /\ SweepCap \in Nat
    /\ MaxTime \in Nat /\ MaxProposals \in Nat /\ MaxInits \in Nat

VARIABLES
    now,              \* e.ledger().timestamp()
    signers,          \* DataKey::Signer
    signer_list,      \* DataKey::SignerList
    signer_count,     \* DataKey::SignerCount
    threshold,        \* DataKey::Threshold
    counter,          \* DataKey::ProposalCounter
    proposal,         \* DataKey::Proposal
    signatures,       \* DataKey::Signature
    signature_count,  \* DataKey::SignatureCount
    executed_op,      \* DataKey::ExecutedOp
    inits,            \* history variable: calls of initialize
    distinct,         \* history variable: the last list had no duplicates
    executions,       \* history variable: executions of each hash
    signed_for        \* history variable: the hash each signature was given for

members == <<signers, signer_list, signer_count, threshold>>
ballots == <<counter, proposal, signatures, signature_count>>
ledger == <<executed_op, executions>>
history == <<inits, distinct, signed_for>>
multiSigVars == <<now, members, ballots, ledger, history>>
vars == <<pauseVars, multiSigVars>>

-----------------------------------------------------------------------------
Init ==
    /\ PauseInit
    /\ now = 1 /\ inits = 0 /\ distinct = TRUE
    /\ signers = {} /\ signer_list = <<>> /\ signer_count = 0 /\ threshold = 0
    /\ counter = 0
    /\ proposal = [id \in Ids |-> NoProposal]
    /\ signatures = [id \in Ids |-> {}]
    /\ signature_count = [id \in Ids |-> 0]
    /\ executed_op = {} /\ executions = [h \in Hashes |-> 0]
    /\ signed_for = [id \in Ids |-> [s \in Signers |-> NoHash]]

(* No check that the contract is still uninitialized, nor that the list has *)
(* no duplicates; earlier signers, proposals and signatures stay stored.    *)
Initialize(a, list, t) ==
    /\ inits < MaxInits
    /\ 0 < t /\ t <= Len(list)
    /\ inits' = inits + 1 /\ distinct' = IsInjective(list)
    /\ admin' = a
    /\ PauseReset
    /\ signers' = signers \cup Range(list) /\ signer_list' = list
    /\ signer_count' = Len(list) /\ threshold' = t
    /\ counter' = 0
    /\ UNCHANGED <<now, proposal, signatures, signature_count, ledger, signed_for>>

-----------------------------------------------------------------------------
(* Signers.                                                                 *)

Governs(a) == ~paused /\ StoredAdmin(a)

AddSigner(a, s) ==
    /\ Governs(a) /\ s \notin signers
    /\ signers' = signers \cup {s}
    /\ signer_count' = signer_count + 1
    /\ signer_list' = Append(signer_list, s)
    /\ UNCHANGED <<pauseVars, now, threshold, ballots, ledger, history>>

(* The list is built anew: every entry for the signer goes.                 *)
Unlisted(s) == Without(signer_list, {s})

Fault_CanRemove(s) == s \in signers
CanRemove(s) == s \in signers /\ signer_count > 1

(* The last signer stays.  Signatures the signer has given stay too.        *)
RemoveSigner(a, s) ==
    /\ Governs(a) /\ CanRemove(s)
    /\ signers' = signers \ {s}
    /\ signer_count' = signer_count - 1
    /\ signer_list' = Unlisted(s)
    /\ threshold' = Smaller(threshold, signer_count')
    /\ UNCHANGED <<pauseVars, now, ballots, ledger, history>>

SetThreshold(a, t) ==
    /\ Governs(a) /\ 0 < t /\ t <= signer_count
    /\ threshold' = t
    /\ UNCHANGED <<pauseVars, now, signers, signer_list, signer_count, ballots,
                   ledger, history>>

-----------------------------------------------------------------------------
(* Proposals.                                                               *)

Fault_NextId == counter
NextId == counter + 1

SubmitProposal(s, h, expiry) ==
    /\ ~paused /\ s \in signers
    /\ counter < MaxProposals
    /\ counter' = NextId
    /\ proposal' = [proposal EXCEPT ![counter] =
         [proposer |-> s, expires_at |-> expiry, op_hash |-> h, status |-> "Pending"]]
    /\ signature_count' = [signature_count EXCEPT ![counter] = 0]
    /\ UNCHANGED <<pauseVars, now, members, signatures, ledger, history>>

Expired(p) == p.expires_at > 0 /\ now >= p.expires_at

Open(id) ==
    /\ proposal[id] # NoProposal /\ proposal[id].status = "Pending"
    /\ ~Expired(proposal[id])

Fault_CanSign(s, id) == ~paused /\ s \in signers /\ Open(id)
CanSign(s, id) == ~paused /\ s \in signers /\ Open(id) /\ s \notin signatures[id]

SignProposal(s, id) ==
    /\ CanSign(s, id)
    /\ signatures' = [signatures EXCEPT ![id] = @ \cup {s}]
    /\ signature_count' = [signature_count EXCEPT ![id] = @ + 1]
    /\ signed_for' = [signed_for EXCEPT ![id][s] = proposal[id].op_hash]
    /\ UNCHANGED <<pauseVars, now, members, counter, proposal, ledger, inits,
                   distinct>>

Fault_ActiveSignatures(id) == signature_count[id]

(* count_active_signatures: entries of the list, so that a signer listed    *)
(* twice counts twice and one removed since signing does not count.         *)
ActiveSignatures(id) ==
    Cardinality({i \in DOMAIN signer_list : signer_list[i] \in signatures[id]})

Fault_CanExecute(id) ==
    ~paused /\ Open(id) /\ ActiveSignatures(id) >= threshold

CanExecute(id) ==
    /\ ~paused /\ Open(id)
    /\ ActiveSignatures(id) >= threshold
    /\ proposal[id].op_hash \notin executed_op

(* Permissionless; the cached count is corrected on the way.                *)
ExecuteProposal(id) ==
    LET h == proposal[id].op_hash
    IN  /\ CanExecute(id)
        /\ signature_count' = [signature_count EXCEPT ![id] = ActiveSignatures(id)]
        /\ executed_op' = executed_op \cup {h}
        /\ executions' = [executions EXCEPT ![h] = @ + 1]
        /\ proposal' = [proposal EXCEPT ![id].status = "Executed"]
        /\ UNCHANGED <<pauseVars, now, members, counter, signatures, history>>

RejectProposal(a, id) ==
    /\ Governs(a)
    /\ proposal[id] # NoProposal /\ proposal[id].status = "Pending"
    /\ proposal' = [proposal EXCEPT ![id].status = "Rejected"]
    /\ UNCHANGED <<pauseVars, now, members, counter, signatures, signature_count,
                   ledger, history>>

Fault_Dead(p) == Expired(p)
Dead(p) == p.status # "Executed" /\ Expired(p)

Sweep(max_iter) == IF max_iter = 0 THEN DefaultSweep ELSE Smaller(max_iter, SweepCap)

(* A sweep over consecutive identifiers.  Of a pruned proposal only the     *)
(* signatures of listed signers and of the proposer are removed.            *)
PruneExpiredProposals(start, max_iter) ==
    LET pruned == {id \in Ids : /\ start <= id /\ id < start + Sweep(max_iter)
                                /\ proposal[id] # NoProposal /\ Dead(proposal[id])}
        erased(id) == IF id \in pruned
                      THEN Range(signer_list) \cup {proposal[id].proposer} ELSE {}
    IN  /\ ~paused
        /\ proposal' = [id \in Ids |-> IF id \in pruned THEN NoProposal ELSE proposal[id]]
        /\ signatures' = [id \in Ids |-> signatures[id] \ erased(id)]
        /\ signature_count' = [id \in Ids |->
             IF id \in pruned THEN 0 ELSE signature_count[id]]
        /\ signed_for' = [id \in Ids |-> [s \in Signers |->
             IF s \in erased(id) THEN NoHash ELSE signed_for[id][s]]]
        /\ UNCHANGED <<pauseVars, now, members, counter, ledger, inits, distinct>>

Tick ==
    /\ now < MaxTime
    /\ now' = now + 1
    /\ UNCHANGED <<pauseVars, members, ballots, ledger, history>>

AdminNext(a) ==
    \/ \E list \in SignerLists, t \in 1..Cardinality(Signers) : Initialize(a, list, t)
    \/ \E s \in Signers : AddSigner(a, s) \/ RemoveSigner(a, s)
    \/ \E t \in 1..Cardinality(Signers) : SetThreshold(a, t)
    \/ \E id \in Ids : RejectProposal(a, id)

SignerNext(s) ==
    \/ \E h \in Hashes, expiry \in Expiries : SubmitProposal(s, h, expiry)
    \/ \E id \in Ids : SignProposal(s, id)

Next ==
    \/ PauseNext /\ UNCHANGED multiSigVars
    \/ \E a \in Admins : AdminNext(a)
    \/ \E s \in Signers : SignerNext(s)
    \/ \E id \in Ids : ExecuteProposal(id)
    \/ \E start \in Ids, max_iter \in Sweeps : PruneExpiredProposals(start, max_iter)
    \/ Tick

Spec == Init /\ [][Next]_vars

-----------------------------------------------------------------------------
(* Properties.                                                              *)

(* Every key of the contract holds a value of its Rust type; in particular  *)
(* the signer count never goes below zero, also when a second initialize    *)
(* has left more signers than the new list names.                           *)
TypeOK ==
    /\ PauseTypeOK
    /\ now \in Nat /\ inits \in Nat /\ distinct \in BOOLEAN
    /\ signers \subseteq Signers /\ signer_list \in Seq(Signers)
    /\ signer_count \in Nat /\ threshold \in Nat
    /\ counter \in 0..MaxProposals
    /\ proposal \in [Ids -> Proposal \cup {NoProposal}]
    /\ signatures \in [Ids -> SUBSET Signers]
    /\ signature_count \in [Ids -> Nat]
    /\ executed_op \subseteq Hashes /\ executions \in [Hashes -> Nat]
    /\ signed_for \in [Ids -> [Signers -> Hashes \cup {NoHash}]]

(* docs/multisig.md, execute-once: however many proposals carry one hash,   *)
(* and through pruning, rejections and re-initialization, the operation is  *)
(* executed at most once and remembered for ever once it was.               *)
ExecutedOnce ==
    \A h \in Hashes :
        /\ executions[h] <= 1
        /\ h \in executed_op <=> executions[h] = 1

fresh == inits <= 1

(* The three records of the signer set agree, unless initialize was given a *)
(* list with duplicates or called again: so the threshold can be reached    *)
(* and no signer is counted that may not sign.                              *)
SignerBooksAgree ==
    fresh /\ inits > 0 /\ distinct =>
        /\ Range(signer_list) = signers
        /\ signer_count = Len(signer_list)
        /\ 1 <= threshold /\ threshold <= signer_count

(* Every signature counted for a proposal was given for the very operation  *)
(* the proposal executes: identifiers are not reused after pruning.         *)
SignedWhatItExecutes ==
    fresh => \A id \in Ids :
        proposal[id] # NoProposal =>
            \A s \in signatures[id] : signed_for[id][s] = proposal[id].op_hash

(* The cached count of an open proposal is the number of its signatures,    *)
(* although removals, pruning and execution treat the two differently.      *)
TalliesHonest ==
    fresh => \A id \in Ids :
        proposal[id] # NoProposal /\ proposal[id].status = "Pending"
            => signature_count[id] = Cardinality(signatures[id])

(* docs/multisig.md: an operation is executed only with the signatures of   *)
(* `threshold` different addresses that are signers at that moment;         *)
(* signatures of removed signers do not count, those of signers added back  *)
(* do.  (A list with duplicates, which initialize accepts, is excluded.)    *)
QuorumMet ==
    [][executed_op' # executed_op /\ distinct
         => \E id \in Ids :
              /\ proposal'[id] # proposal[id]
              /\ Cardinality(signatures[id] \cap signers) >= threshold]_vars

Settled(id) == proposal[id] # NoProposal /\ proposal[id].status # "Pending"

StaysDecided(id) ==
    fresh' /\ proposal[id] # NoProposal =>
        \/ proposal'[id] = proposal[id]
        \/ ~Settled(id) /\ proposal'[id] # NoProposal
        \/ /\ proposal'[id] = NoProposal
           /\ Expired(proposal[id]) /\ proposal[id].status # "Executed"

(* A decision is final: an executed proposal keeps its record, a rejected   *)
(* one its status until it is pruned, and a proposal disappears only after  *)
(* its expiry.                                                              *)
DecisionsAreFinal == [][\A id \in Ids : StaysDecided(id)]_vars
=============================================================================
