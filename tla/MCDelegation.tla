---- MODULE MCDelegation ----
(* An instance of Delegation for TLC.                                       *)
EXTENDS Delegation, TLC

PauseSignerSymmetry == Permutations(PauseSigners)

(* Only `paused` connects the ballots with the delegations: follow the one  *)
(* or the other.                                                            *)
BallotsOrDelegations ==
    \/ \A id \in PauseIds : pause_approvals[id] = {}
    \/ /\ \A k \in Keys : delegation[k] = NoDelegation
       /\ \A o \in Owners : nonce[o] = 0
       /\ grace = 0 /\ verifiers = {} /\ now <= 2
====
