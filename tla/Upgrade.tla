------------------------------ MODULE Upgrade -------------------------------
(***************************************************************************)
(* credence_bond, upgrade_auth.rs: who may replace the implementation, and *)
(* the proposals they approve.  The upgraders are listed beside the        *)
(* authorizations; the admin who grants them hands over in two steps.      *)
(*                                                                         *)
(* The first implementation is written at deployment, by nothing in the    *)
(* repository.  The status of a proposal is never set to Rejected or       *)
(* Expired, and the proposal's time is not read.                           *)
(***************************************************************************)
EXTENDS LedgerClock

CONSTANTS
    Officers, NoOfficer,              \* addresses; no address
    Implementations, FirstImplementation,
    Expiries,                         \* arguments expires_at; 0 is never
    Required,                         \* arguments required_approvals
    MaxProposals, MaxUpgrades,        \* bounds: proposals, executed upgrades
    NoAuth                            \* no UpgradeKey::Auth

NoProposal == 0                       \* proposal_id None

ASSUME UpgradeAssumption ==
    /\ NoOfficer \notin Officers /\ FirstImplementation \in Implementations
    /\ Expiries \subseteq Nat /\ Required \subseteq Nat
    /\ MaxProposals \in Nat /\ MaxUpgrades \in Nat
    /\ NoAuth \notin [role : {"Upgrader", "Proposer"}, expires_at : Nat, active : BOOLEAN]

VARIABLES
    upgrade_admin,           \* UpgradeKey::Admin
    pending_upgrade_admin,   \* UpgradeKey::PndgUpgrAdmin
    upgrade_auth,            \* UpgradeKey::Auth
    upgraders,               \* UpgradeKey::AuthorizedUpgraders
    upgrade_proposals,       \* UpgradeKey::Proposal, in the order of their ids
    implementation,          \* UpgradeKey::Implementation
    upgrade_history          \* UpgradeKey::History

authVars == <<upgrade_admin, pending_upgrade_admin, upgrade_auth, upgraders>>
upgradeVars == <<authVars, upgrade_proposals, implementation, upgrade_history>>

UpgradeInit ==
    /\ upgrade_admin = NoOfficer /\ pending_upgrade_admin = NoOfficer
    /\ upgrade_auth = [a \in Officers |-> NoAuth] /\ upgraders = <<>>
    /\ upgrade_proposals = <<>> /\ upgrade_history = <<>>
    /\ implementation = FirstImplementation

Authorization(role, expires_at) ==
    [role |-> role, expires_at |-> expires_at, active |-> TRUE]

InitializeUpgradeAuth(admin) ==
    /\ upgrade_admin = NoOfficer /\ upgrade_admin' = admin
    /\ upgrade_auth' = [upgrade_auth EXCEPT ![admin] = Authorization("Upgrader", 0)]
    /\ upgraders' = <<admin>> /\ upgrade_proposals' = <<>> /\ upgrade_history' = <<>>
    /\ UNCHANGED <<pending_upgrade_admin, implementation>>

-----------------------------------------------------------------------------
(* Authorizations.                                                          *)

(* An address is granted a role once: not even a revoked one twice.         *)
GrantUpgradeAuth(admin, a, role, expires_at) ==
    /\ admin = upgrade_admin /\ upgrade_auth[a] = NoAuth
    /\ upgrade_auth' = [upgrade_auth EXCEPT ![a] = Authorization(role, expires_at)]
    /\ upgraders' = IF role = "Upgrader" THEN Append(upgraders, a) ELSE upgraders
    /\ UNCHANGED <<upgrade_admin, pending_upgrade_admin, upgrade_proposals, implementation,
                   upgrade_history>>

(* The admin may revoke himself, and goes on granting.                      *)
RevokeUpgradeAuth(admin, a) ==
    /\ admin = upgrade_admin /\ upgrade_auth[a] # NoAuth
    /\ \/ upgrade_auth[a].role = "Proposer" /\ UNCHANGED upgraders
       \/ /\ upgrade_auth[a].role = "Upgrader" /\ Len(upgraders) > 1
          /\ upgraders' = Without(upgraders, {a})
    /\ upgrade_auth' = [upgrade_auth EXCEPT ![a].active = FALSE]
    /\ UNCHANGED <<upgrade_admin, pending_upgrade_admin, upgrade_proposals, implementation,
                   upgrade_history>>

TransferUpgradeAdmin(admin, new) ==
    /\ admin = upgrade_admin /\ new # admin /\ pending_upgrade_admin' = new
    /\ UNCHANGED <<upgrade_admin, upgrade_auth, upgraders, upgrade_proposals, implementation,
                   upgrade_history>>

(* Accepting makes the new admin an upgrader, a revoked one too.            *)
Fault_Enlist(a) == Append(upgraders, a)
Enlist(a) == IF Contains(upgraders, a) THEN upgraders ELSE Append(upgraders, a)

AcceptUpgradeAdmin(caller) ==
    /\ caller = pending_upgrade_admin /\ upgrade_admin # NoOfficer
    /\ upgrade_admin' = caller /\ pending_upgrade_admin' = NoOfficer
    /\ upgrade_auth' = [upgrade_auth EXCEPT ![caller] = Authorization("Upgrader", 0)]
    /\ upgraders' = Enlist(caller)
    /\ UNCHANGED <<upgrade_proposals, implementation, upgrade_history>>

(* Not revoked and not expired.                                             *)
InForce(a) ==
    /\ upgrade_auth[a] # NoAuth /\ upgrade_auth[a].active
    /\ upgrade_auth[a].expires_at = 0 \/ now <= upgrade_auth[a].expires_at
IsAuthorizedUpgrader(a) == InForce(a) /\ upgrade_auth[a].role = "Upgrader"

-----------------------------------------------------------------------------
(* Proposals and upgrades.                                                  *)

ProposeUpgrade(a, new, required) ==
    /\ InForce(a) /\ Len(upgrade_proposals) < MaxProposals
    /\ upgrade_proposals' = Append(upgrade_proposals,
          [new |-> new, required |-> required, approvals |-> <<>>, status |-> "Pending"])
    /\ UNCHANGED <<authVars, implementation, upgrade_history>>

ApproveUpgradeProposal(a, p) ==
    /\ IsAuthorizedUpgrader(a) /\ p \in DOMAIN upgrade_proposals
    /\ upgrade_proposals[p].status = "Pending"
    /\ ~Contains(upgrade_proposals[p].approvals, a)
    /\ LET approvals == Append(upgrade_proposals[p].approvals, a)
       IN  upgrade_proposals' = [upgrade_proposals EXCEPT
              ![p].approvals = approvals,
              ![p].status = IF Len(approvals) >= upgrade_proposals[p].required
                            THEN "Approved" ELSE "Pending"]
    /\ UNCHANGED <<authVars, implementation, upgrade_history>>

(* An upgrade names the approved proposal it executes, or none.             *)
Fault_Spend(p) == UNCHANGED upgrade_proposals
Spend(p) == upgrade_proposals' = [upgrade_proposals EXCEPT ![p].status = "Executed"]

ExecuteUpgrade(a, new, p) ==
    /\ IsAuthorizedUpgrader(a) /\ new # implementation
    /\ Len(upgrade_history) < MaxUpgrades
    /\ \/ p = NoProposal /\ UNCHANGED upgrade_proposals
       \/ /\ p \in DOMAIN upgrade_proposals
          /\ upgrade_proposals[p].status = "Approved" /\ upgrade_proposals[p].new = new
          /\ Spend(p)
    /\ upgrade_history' = Append(upgrade_history,
          [old |-> implementation, new |-> new, proposal |-> p])
    /\ implementation' = new
    /\ UNCHANGED authVars

UpgradeNext ==
    \/ \E a \in Officers : InitializeUpgradeAuth(a) \/ AcceptUpgradeAdmin(a)
    \/ \E admin, a \in Officers :
        \/ \E role \in {"Upgrader", "Proposer"}, t \in Expiries : GrantUpgradeAuth(admin, a, role, t)
        \/ RevokeUpgradeAuth(admin, a)
        \/ TransferUpgradeAdmin(admin, a)
    \/ \E a \in Officers, new \in Implementations :
        \/ \E required \in Required : ProposeUpgrade(a, new, required)
        \/ \E p \in 0 .. MaxProposals : ExecuteUpgrade(a, new, p)
    \/ \E a \in Officers, p \in 1 .. MaxProposals : ApproveUpgradeProposal(a, p)

(* The upgrades alone on their ledger.                                      *)
UpgradeSpec ==
    /\ LedgerInit /\ UpgradeInit
    /\ [][(UpgradeNext /\ UNCHANGED now) \/ (Tick /\ UNCHANGED upgradeVars)]_<<now, upgradeVars>>

-----------------------------------------------------------------------------
(* Properties.                                                              *)

(* The list that protects the last upgrader holds exactly those who were    *)
(* granted the role and not revoked, once each, through grants, revocations *)
(* (repeated ones too) and a handover to somebody granted or revoked        *)
(* before; and it is never empty once there is an admin.                    *)
UpgradersListed ==
    /\ Lists(upgraders, {a \in Officers : /\ upgrade_auth[a] # NoAuth
                                          /\ upgrade_auth[a].active
                                          /\ upgrade_auth[a].role = "Upgrader"})
    /\ upgrade_admin # NoOfficer => upgraders # <<>>

(* The history is a chain from the first implementation to the current one, *)
(* and a proposal appears in it once if it was executed, never otherwise.   *)
HistoryIsAChain ==
    /\ \A i \in DOMAIN upgrade_history : upgrade_history[i].old =
          IF i = 1 THEN FirstImplementation ELSE upgrade_history[i - 1].new
    /\ implementation = IF upgrade_history = <<>> THEN FirstImplementation
                        ELSE upgrade_history[Len(upgrade_history)].new
    /\ \A p \in DOMAIN upgrade_proposals :
          Cardinality({i \in DOMAIN upgrade_history : upgrade_history[i].proposal = p})
              = IF upgrade_proposals[p].status = "Executed" THEN 1 ELSE 0

(* What the contract says of itself is what happened: who may upgrade, what *)
(* was upgraded, and on which proposal (upgrade_auth.rs, the list of        *)
(* upgraders and the upgrade history).                                      *)
UpgradeBooksAgree == UpgradersListed /\ HistoryIsAChain
=============================================================================
