----------------------------- MODULE Verifiers ------------------------------
(***************************************************************************)
(* credence_bond, verifier.rs: verifiers lock a stake, which weighs their  *)
(* attestations, and may take it back once they are inactive.  Activity is *)
(* kept in the verifier's record and beside it as a role; the role goes    *)
(* with the key that lets him attest, and the stake of the record is copied*)
(* into the one that weighs.  Both of these are keys of the attestations,  *)
(* and the admin writes them as well, without looking at the record.       *)
(*                                                                         *)
(* The callers answer for the authority of each call.  The reputation, the *)
(* times and the numbers of attestations are only reported, and left out   *)
(* with the calls that keep nothing else (set_reputation,                  *)
(* record_attestation_revoked); a transfer that fails undoes the call.     *)
(***************************************************************************)
EXTENDS Attestations

CONSTANTS
    StakeAmounts,       \* arguments stake_deposit, amount and min_stake
    Wealth,             \* bound: tokens each verifier begins with
    NoVerifier          \* no record

ASSUME VerifiersAssumption ==
    /\ IsFiniteSet(Attesters) /\ StakeAmounts \subseteq Int /\ Wealth \in Nat
    /\ NoVerifier \notin [stake : Int, active : BOOLEAN]

VARIABLES
    min_stake,          \* KEY_MIN_STAKE
    verifier_info,      \* KEY_INFO_PREFIX
    verifier_role,      \* KEY_VERIFIER_ROLE_PREFIX, where it is true
    wallet,             \* tokens of each verifier; the contract has the rest
    overruled           \* history variable: the admin has set the stake that weighs

verifierVars == <<min_stake, verifier_info, verifier_role, wallet, overruled>>

VerifiersInit ==
    /\ min_stake = 0 /\ verifier_info = [v \in Attesters |-> NoVerifier]
    /\ verifier_role = {} /\ wallet = [v \in Attesters |-> Wealth] /\ overruled = {}

KnownVerifier(v) == verifier_info[v] # NoVerifier
StakeOf(v) == IF KnownVerifier(v) THEN verifier_info[v].stake ELSE 0
ActiveVerifier(v) == KnownVerifier(v) /\ verifier_info[v].active

(* The record, and the stake that weighs.                                   *)
Stored(v, stake, active) ==
    /\ verifier_info' = [verifier_info EXCEPT ![v] = [stake |-> stake, active |-> active]]
    /\ attester_stake' = [attester_stake EXCEPT ![v] = stake]
    /\ overruled' = overruled \ {v}

(* set_verifier_role.                                                       *)
GrantRole(v) == verifier_role' = verifier_role \cup {v} /\ attesters' = attesters \cup {v}
ClearRole(v) == verifier_role' = verifier_role \ {v} /\ attesters' = attesters \ {v}

(* Payment from the verifier to the contract; a negative one goes back.     *)
Paid(v, amount) ==
    /\ wallet[v] >= amount
    /\ wallet' = [wallet EXCEPT ![v] = @ - amount]

-----------------------------------------------------------------------------
SetMinStake(amount) ==
    /\ amount >= 0 /\ min_stake' = amount
    /\ UNCHANGED <<verifier_info, verifier_role, wallet, overruled, attesters, attester_stake>>

(* A new verifier and one who comes back need the least stake in all; an    *)
(* active one may add to his whatever the least stake is by now.            *)
CanStake(v, deposit) ==
    /\ deposit >= 0
    /\ IF ActiveVerifier(v) THEN deposit > 0 ELSE StakeOf(v) + deposit >= min_stake

RegisterWithStake(v, deposit) ==
    /\ CanStake(v, deposit)
    /\ GrantRole(v)
    /\ Stored(v, StakeOf(v) + deposit, TRUE)
    /\ Paid(v, deposit)
    /\ UNCHANGED min_stake

(* Without a stake, by the admin.                                           *)
RegisterLegacy(v) ==
    /\ GrantRole(v)
    /\ Stored(v, StakeOf(v), TRUE)
    /\ UNCHANGED <<min_stake, wallet>>

Fault_DeactivateVerifier(v) ==
    /\ ActiveVerifier(v)
    /\ verifier_info' = [verifier_info EXCEPT ![v].active = FALSE]
    /\ UNCHANGED <<min_stake, verifier_role, attesters, attester_stake, wallet, overruled>>
DeactivateVerifier(v) ==
    /\ ActiveVerifier(v)
    /\ ClearRole(v)
    /\ verifier_info' = [verifier_info EXCEPT ![v] = [stake |-> @.stake, active |-> FALSE]]
    /\ UNCHANGED <<min_stake, attester_stake, wallet, overruled>>

DeactivateIfExists(v) ==
    IF ActiveVerifier(v) THEN DeactivateVerifier(v)
    ELSE ClearRole(v) /\ UNCHANGED <<min_stake, verifier_info, attester_stake, wallet, overruled>>

Fault_WithdrawStake(v, amount) ==
    /\ amount > 0 /\ KnownVerifier(v) /\ ~verifier_info[v].active
    /\ amount <= verifier_info[v].stake
    /\ verifier_info' = [verifier_info EXCEPT ![v].stake = @ - amount]
    /\ Paid(v, -amount)
    /\ UNCHANGED <<min_stake, verifier_role, attesters, attester_stake, overruled>>
WithdrawStake(v, amount) ==
    /\ amount > 0 /\ KnownVerifier(v) /\ ~verifier_info[v].active
    /\ amount <= verifier_info[v].stake
    /\ Stored(v, verifier_info[v].stake - amount, FALSE)
    /\ Paid(v, -amount)
    /\ UNCHANGED <<min_stake, verifier_role, attesters>>

(* An attester without a record gets one that is active, and no role.       *)
RecordAttestationIssued(v) ==
    /\ ~KnownVerifier(v)
    /\ verifier_info' = [verifier_info EXCEPT ![v] = [stake |-> 0, active |-> TRUE]]
    /\ UNCHANGED <<min_stake, verifier_role, attesters, attester_stake, wallet, overruled>>

VerifiersNext ==
    \/ \E amount \in StakeAmounts : SetMinStake(amount)
    \/ \E v \in Attesters :
        \/ \E amount \in StakeAmounts : RegisterWithStake(v, amount) \/ WithdrawStake(v, amount)
        \/ RegisterLegacy(v)
        \/ DeactivateVerifier(v)
        \/ DeactivateIfExists(v)
        \/ RecordAttestationIssued(v)

(* The attestations and the verifiers of one contract.                      *)
AttestingVars == <<attestationVars, verifierVars>>
AttestingInit == AttestationsInit /\ VerifiersInit
AttestingNext ==
    \/ /\ VerifiersNext
       /\ UNCHANGED <<bond_admin, weight_config, attestationBooks>>
    \/ /\ AttestationsNext
       /\ overruled' = overruled \cup {v \in Attesters : attester_stake'[v] # attester_stake[v]}
       /\ UNCHANGED <<min_stake, verifier_info, verifier_role, wallet>>

(* The contract alone: nothing in it reads the time.                        *)
AttestingSpec == AttestingInit /\ [][AttestingNext]_AttestingVars

-----------------------------------------------------------------------------
(* Properties.                                                              *)

(* A verifier's stake is his, and bound while he has the role: what he has  *)
(* locked and what is in his wallet make what he began with, who has the    *)
(* role is active and so cannot take it back, and what weighs his           *)
(* attestations is what he still has locked, unless the admin has since set *)
(* it by hand - after being registered in any of the three ways, at any     *)
(* least stake, deactivated by either call, paid back in parts, registered  *)
(* again, and attesting with a key that the admin gives and takes.          *)
StakesAreLocked ==
    \A v \in Attesters :
        /\ StakeOf(v) >= 0 /\ wallet[v] + StakeOf(v) = Wealth
        /\ v \in verifier_role => ActiveVerifier(v)
        /\ v \notin overruled => attester_stake[v] = StakeOf(v)
=============================================================================
