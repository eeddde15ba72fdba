---- MODULE MCContracts ----
(***************************************************************************)
(* The admin contract, the registry and arbitration, and of the bond the   *)
(* upgrade authorization, attestations, verifiers, governance, evidence    *)
(* and the emergency drain, on one ledger, for TLC.  The parts named here  *)
(* share nothing but the clock, so that it is enough to follow them one at *)
(* a time, the one that is called first; the attestations and the verifiers*)
(* share two keys, and are one part, followed without any verifier and with*)
(* verifiers, one admin and few attestations.                              *)
(***************************************************************************)
EXTENDS Admin, Registry, Arbitration, Upgrade, Verifiers, Governance, Evidence, Drain, TLC

CONSTANT MaxWitnessed   \* bound: attestations where verifiers are called too

VARIABLE followed    \* the contract that is called, once there is one

Follow(c) == followed \in {"none", c} /\ followed' = c

Init ==
    /\ followed = "none"
    /\ LedgerInit /\ AdminInit /\ RegistryInit /\ ArbitrationInit /\ UpgradeInit
    /\ AttestingInit /\ GovernanceInit /\ EvidenceInit /\ DrainInit

(* Time passes while a comparison can tell the next instant from this one:  *)
(* the end of a suspension or of an authorization, of a vote, of a delay.   *)
Next ==
    \/ /\ \/ now = 1 /\ followed \in {"admin", "upgrade"}
          \/ \E id \in DisputeIds : dispute[id] # NoDispute /\ now <= dispute[id].voting_end
          \/ followed = "drain"
       /\ Tick
       /\ UNCHANGED <<followed, adminVars, registryVars, arbitrationVars, upgradeVars,
                      AttestingVars, governanceVars, evidenceVars, drainVars>>
    \/ /\ Follow("admin") /\ AdminNext
       /\ UNCHANGED <<now, registryVars, arbitrationVars, upgradeVars,
                      AttestingVars, governanceVars, evidenceVars, drainVars>>
    \/ /\ Follow("registry") /\ RegistryNext
       /\ UNCHANGED <<now, adminVars, arbitrationVars, upgradeVars,
                      AttestingVars, governanceVars, evidenceVars, drainVars>>
    \/ /\ Follow("arbitration") /\ ArbitrationNext
       /\ UNCHANGED <<now, adminVars, registryVars, upgradeVars,
                      AttestingVars, governanceVars, evidenceVars, drainVars>>
    \/ /\ Follow("upgrade") /\ UpgradeNext
       /\ UNCHANGED <<now, adminVars, registryVars, arbitrationVars,
                      AttestingVars, governanceVars, evidenceVars, drainVars>>
    \/ /\ Follow("attestations") /\ AttestingNext
       /\ UNCHANGED <<min_stake, verifier_info, verifier_role>>
       /\ UNCHANGED <<now, adminVars, registryVars, arbitrationVars,
                      upgradeVars, governanceVars, evidenceVars, drainVars>>
    \/ /\ Follow("verifiers") /\ AttestingNext
       /\ attestation_counter' <= MaxWitnessed /\ UNCHANGED <<bond_admin, weight_config>>
       /\ UNCHANGED <<now, adminVars, registryVars, arbitrationVars,
                      upgradeVars, governanceVars, evidenceVars, drainVars>>
    \/ /\ Follow("governance") /\ GovernanceNext
       /\ UNCHANGED <<now, adminVars, registryVars, arbitrationVars,
                      upgradeVars, AttestingVars, evidenceVars, drainVars>>
    \/ /\ Follow("evidence") /\ EvidenceNext
       /\ UNCHANGED <<now, adminVars, registryVars, arbitrationVars,
                      upgradeVars, AttestingVars, governanceVars, drainVars>>
    \/ /\ Follow("drain") /\ DrainNext
       /\ UNCHANGED <<now, adminVars, registryVars, arbitrationVars,
                      upgradeVars, AttestingVars, governanceVars, evidenceVars>>

vars == <<followed, now, adminVars, registryVars, arbitrationVars, upgradeVars,
          AttestingVars, governanceVars, evidenceVars, drainVars>>
Spec == Init /\ [][Next]_vars

Limits == {<<1, 2>>, <<2, 3>>}
QuorumChoices == {<<0, 0>>, <<3, 2>>}
Hash1 == CHOOSE h \in CodeHashes : TRUE
Hashing == [b \in BondContracts |->
    IF b \in Supporting THEN Hash1 ELSE CHOOSE h \in CodeHashes : h # Hash1]
GovernorChoices ==
    LET v == CHOOSE v \in Voters : TRUE
        w == CHOOSE w \in Voters \ {v} : TRUE
        x == CHOOSE x \in Voters \ {v, w} : TRUE
    IN  {<<v, w, x>>, <<v, v, w>>}
GovernanceRules == {<<7000, 1>>, <<10001, 1>>}

(* The contracts are independent: they may have the same addresses.        *)
Interchangeable == Permutations(Persons)
====
