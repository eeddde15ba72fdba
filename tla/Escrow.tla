------------------------------- MODULE Escrow -------------------------------
(***************************************************************************)
(* What a contract that keeps tokens promises about custody, without any   *)
(* of its lifecycle: a pool of tokens and the part of it that the contract *)
(* has promised.  The claim grows only together with the pool, and the     *)
(* pool shrinks only together with the claim, by no more than was given    *)
(* up.                                                                     *)
(*                                                                         *)
(* A vault is an escrow whose keeper may also take out what nobody has a   *)
(* claim on.  Module Treasury implements it (credence_treasury): the claim *)
(* is the total that its books promise.                                    *)
(*                                                                         *)
(* An escrow with an emergency is one whose keeper may drain the pool,     *)
(* claims or not, into an account of its own, and whose books may raise    *)
(* the claim by hand, again on an account of its own.  Module Bond         *)
(* implements it (credence_bond/src/lib.rs): the claim is what the bond    *)
(* owner can still recover.                                                *)
(***************************************************************************)
EXTENDS Integers

VARIABLES
    pool,     \* tokens held by the contract
    claim,    \* what it has promised out of them
    drained,  \* tokens its keeper has taken in an emergency
    raised    \* claims made without tokens

escrowVars == <<pool, claim>>
emergencyVars == <<pool, claim, drained, raised>>

Init == pool = 0 /\ claim = 0

(* Tokens come in, and the claim grows by no more than what arrived; a new  *)
(* bond may also replace the old claim.                                     *)
Fund ==
    /\ pool' >= pool
    /\ 0 <= claim' /\ claim' <= claim + (pool' - pool)

(* The claim is given up, and the pool pays out no more than that.          *)
Release ==
    /\ pool' <= pool
    /\ 0 <= claim' /\ claim' <= claim
    /\ pool - pool' <= claim - claim'

Next == Fund \/ Release

Spec == Init /\ [][Next]_escrowVars

(* The keeper of a vault takes a surplus, and leaves what is promised.      *)
Skim ==
    /\ claim' = claim
    /\ claim <= pool' /\ pool' <= pool

VaultNext == Next \/ Skim

VaultSpec == Init /\ [][VaultNext]_escrowVars

(* What the keeper drains, he has; a claim is lost only as far as the pool  *)
(* no longer covers it.                                                     *)
Drain ==
    /\ drained' > drained /\ pool' = pool - (drained' - drained)
    /\ claim' = IF claim <= pool' THEN claim ELSE pool'
    /\ raised' = raised

(* A claim is raised within the pool.                                       *)
Raise ==
    /\ raised' > raised /\ UNCHANGED <<pool, drained>>
    /\ claim <= claim' /\ claim' <= claim + (raised' - raised) /\ claim' <= pool

EmergencyInit == Init /\ drained = 0 /\ raised = 0

EmergencyNext ==
    \/ Next /\ UNCHANGED <<drained, raised>>
    \/ Drain
    \/ Raise

EmergencySpec == EmergencyInit /\ [][EmergencyNext]_emergencyVars
=============================================================================
