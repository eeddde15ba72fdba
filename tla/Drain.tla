------------------------------- MODULE Drain --------------------------------
(***************************************************************************)
(* credence_bond, emergency_drain.rs and emergency.rs: while the contract  *)
(* is paused its admin may send tokens to the treasury, by one call that   *)
(* has been scheduled at least a day before.  A schedule survives the end  *)
(* of the pause.                                                           *)
(*                                                                         *)
(* The pause may flip at any time (module Pausable has its rules), and so  *)
(* may what the contract can pay with (module Bond has those of the pool,  *)
(* and its EmergencyDrain what this call does to it).  The admin signs.    *)
(***************************************************************************)
EXTENDS LedgerClock

CONSTANTS
    Treasuries,             \* addresses of the emergency treasury
    DrainDelays,            \* arguments delay
    DrainTimelock,          \* DRAIN_TIMELOCK_SECONDS
    DrainAmounts,           \* arguments amount
    MaxPool,                \* bound: tokens the contract can pay with
    MaxDrains,              \* bound: drains executed
    MaxTransitions,         \* bound: changes of the emergency mode
    NoTreasury,             \* no emergency configuration
    NoEta                   \* nothing scheduled

ASSUME DrainAssumption ==
    /\ DrainDelays \subseteq Nat /\ DrainTimelock \in Nat /\ DrainAmounts \subseteq Int
    /\ MaxPool \in Nat /\ MaxDrains \in Nat /\ MaxTransitions \in Nat
    /\ NoEta \notin Nat /\ NoTreasury \notin Treasuries

VARIABLES
    drain_paused,        \* pausable::is_paused
    emergency_config,    \* KEY_EMERGENCY_CONFIG: treasury and enabled
    transitions,         \* the records EmergencyDataKey::Transition
    drain_eta,           \* KEY_DRAIN_ETA
    drains,              \* the records DrainDataKey::DrainRecord
    payable,             \* the contract's balance in the configured token
    received             \* what each treasury was sent

drainTokens == <<payable, received>>
drainVars == <<drain_paused, emergency_config, transitions, drain_eta, drains, drainTokens>>

DrainInit ==
    /\ drain_paused = FALSE /\ drain_eta = NoEta /\ drains = <<>> /\ transitions = <<>>
    /\ emergency_config = [treasury |-> NoTreasury, enabled |-> FALSE]
    /\ payable = 0 /\ received = [t \in Treasuries |-> 0]

(* Bonds are paid for and paid out, and the token is set (module Bond).     *)
BalanceChanges(amount) ==
    /\ payable' = amount
    /\ UNCHANGED <<drain_paused, emergency_config, transitions, drain_eta, drains, received>>

SwitchPause ==
    /\ drain_paused' = ~drain_paused
    /\ UNCHANGED <<emergency_config, transitions, drain_eta, drains, drainTokens>>

SetEmergencyConfig(treasury, enabled) ==
    /\ emergency_config' = [treasury |-> treasury, enabled |-> enabled]
    /\ UNCHANGED <<drain_paused, transitions, drain_eta, drains, drainTokens>>

(* A mode that is set already is not set again, nor recorded.               *)
SetEmergencyEnabled(enabled) ==
    /\ emergency_config.treasury # NoTreasury /\ emergency_config.enabled # enabled
    /\ Len(transitions) < MaxTransitions
    /\ emergency_config' = [emergency_config EXCEPT !.enabled = enabled]
    /\ transitions' = Append(transitions, enabled)
    /\ UNCHANGED <<drain_paused, drain_eta, drains, drainTokens>>

(* A new schedule replaces one that is waiting.                             *)
ScheduleDrain(delay) ==
    /\ drain_paused /\ delay >= DrainTimelock
    /\ drain_eta' = now + delay
    /\ UNCHANGED <<drain_paused, emergency_config, transitions, drains, drainTokens>>

CancelDrain ==
    /\ drain_eta' = NoEta
    /\ UNCHANGED <<drain_paused, emergency_config, transitions, drains, drainTokens>>

(* safe_transfer: whoever's stake the tokens are.                           *)
Sent(amount, recipient) ==
    /\ amount <= payable
    /\ payable' = payable - amount
    /\ received' = [received EXCEPT ![recipient] = @ + amount]

Fault_ExecuteDrain(amount, recipient) ==
    /\ drain_paused /\ drain_eta # NoEta /\ now >= drain_eta
    /\ amount > 0 /\ recipient = emergency_config.treasury
    /\ Len(drains) < MaxDrains
    /\ Sent(amount, recipient)
    /\ drains' = Append(drains, [amount |-> amount, recipient |-> recipient,
                                 timestamp |-> now, scheduled_eta |-> drain_eta])
    /\ UNCHANGED <<drain_paused, emergency_config, transitions, drain_eta>>
ExecuteDrain(amount, recipient) ==
    /\ drain_paused /\ drain_eta # NoEta /\ now >= drain_eta
    /\ amount > 0 /\ recipient = emergency_config.treasury
    /\ Len(drains) < MaxDrains
    /\ Sent(amount, recipient)
    /\ drain_eta' = NoEta
    /\ drains' = Append(drains, [amount |-> amount, recipient |-> recipient,
                                 timestamp |-> now, scheduled_eta |-> drain_eta])
    /\ UNCHANGED <<drain_paused, emergency_config, transitions>>

DrainNext ==
    \/ SwitchPause
    \/ \E amount \in 0 .. MaxPool : BalanceChanges(amount)
    \/ \E t \in Treasuries, enabled \in BOOLEAN : SetEmergencyConfig(t, enabled)
    \/ \E enabled \in BOOLEAN : SetEmergencyEnabled(enabled)
    \/ \E delay \in DrainDelays : ScheduleDrain(delay)
    \/ CancelDrain
    \/ \E amount \in DrainAmounts, t \in Treasuries : ExecuteDrain(amount, t)

(* The contract alone on its ledger.                                        *)
DrainSpec ==
    /\ LedgerInit /\ DrainInit
    /\ [][(DrainNext /\ UNCHANGED now) \/ (Tick /\ UNCHANGED drainVars)]_<<now, drainVars>>

-----------------------------------------------------------------------------
(* Properties.                                                              *)

(* docs/emergency-drain.md, Multiple sequential drains: every drain costs   *)
(* its own full delay, so that two are never closer than it, whatever was   *)
(* scheduled, replaced, cancelled, paused or resumed between them.          *)
DrainsApart ==
    /\ \A i \in DOMAIN drains : drains[i].timestamp >= DrainTimelock
    /\ \A i, j \in DOMAIN drains :
          i < j => drains[j].timestamp >= drains[i].timestamp + DrainTimelock
=============================================================================
