------------------------------- MODULE Admin -------------------------------
(***************************************************************************)
(* The admin contract: three ranks of administrators who add, promote,     *)
(* demote, deactivate, suspend and remove each other, and an owner who     *)
(* hands over in two steps.  A rank is kept three times: in the record of  *)
(* the address, in the list of all admins and in the list of its role.     *)
(*                                                                         *)
(* A caller's rank is read in two ways: require_role_at_least asks for an  *)
(* active and unsuspended admin, get_role only for a record.  The pause of *)
(* the contract may flip at any time here: who may flip it is the matter   *)
(* of module Pausable.                                                     *)
(***************************************************************************)
EXTENDS LedgerClock

CONSTANTS
    Persons,        \* addresses that may be administrators
    NoPerson,       \* DataKey::Owner or PendingOwner absent
    NoInfo,         \* DataKey::AdminInfo(..) absent
    AdminLimits,    \* arguments <<min_admins, max_admins>>
    Suspensions     \* arguments until_ts

SuperAdmin == 3
Operator == 1
Roles == Operator..SuperAdmin
AdminInfo == [role : Roles, active : BOOLEAN, suspended_until : Nat]

ASSUME AdminAssumption ==
    /\ NoPerson \notin Persons /\ NoInfo \notin AdminInfo
    /\ IsFiniteSet(Persons)
    /\ AdminLimits \subseteq Nat \X Nat /\ Suspensions \subseteq Nat

VARIABLES
    admin_info,       \* DataKey::AdminInfo
    admin_list,       \* DataKey::AdminList
    role_admins,      \* DataKey::RoleAdmins
    owner,            \* DataKey::Owner, written with DataKey::Initialized
    pending_owner,    \* DataKey::PendingOwner
    admin_limits,     \* DataKey::MinAdmins and DataKey::MaxAdmins
    admin_paused      \* DataKey::Paused

rosterVars == <<admin_info, admin_list, role_admins>>
ownerVars == <<owner, pending_owner>>
adminVars == <<rosterVars, ownerVars, admin_limits, admin_paused>>

AdminInit ==
    /\ admin_info = [a \in Persons |-> NoInfo]
    /\ admin_list = <<>> /\ role_admins = [r \in Roles |-> <<>>]
    /\ owner = NoPerson /\ pending_owner = NoPerson
    /\ admin_limits = <<0, 0>> /\ admin_paused = FALSE

Known(a) == admin_info[a] # NoInfo
Role(a) == admin_info[a].role

(* is_admin.                                                                *)
Effective(a) ==
    Known(a) /\ admin_info[a].active /\ now >= admin_info[a].suspended_until

(* has_role_at_least and require_role_at_least.                             *)
HasRoleAtLeast(a, role) == Effective(a) /\ Role(a) >= role

Fault_RequiredRoleToAssign(role) == role

RequiredRoleToAssign(role) == IF role = Operator THEN 2 ELSE SuperAdmin

NewInfo(role) == [role |-> role, active |-> TRUE, suspended_until |-> 0]

AdminInitialize(a, limits) ==
    /\ owner = NoPerson
    /\ limits[1] > 0 /\ limits[1] <= limits[2]
    /\ admin_info' = [admin_info EXCEPT ![a] = NewInfo(SuperAdmin)]
    /\ admin_list' = <<a>>
    /\ role_admins' = [r \in Roles |-> IF r = SuperAdmin THEN <<a>> ELSE <<>>]
    /\ owner' = a /\ admin_limits' = limits /\ admin_paused' = FALSE
    /\ UNCHANGED pending_owner

-----------------------------------------------------------------------------
(* The roster.                                                              *)

AddAdmin(c, a, role) ==
    /\ ~admin_paused
    /\ HasRoleAtLeast(c, RequiredRoleToAssign(role))
    /\ ~Known(a) /\ Len(admin_list) < admin_limits[2]
    /\ admin_info' = [admin_info EXCEPT ![a] = NewInfo(role)]
    /\ admin_list' = Append(admin_list, a)
    /\ role_admins' = [role_admins EXCEPT ![role] = Append(@, a)]
    /\ UNCHANGED <<ownerVars, admin_limits, admin_paused>>

RemoveAdmin(c, a) ==
    /\ ~admin_paused
    /\ Known(a) /\ Known(c) /\ Role(c) > Role(a)
    /\ Role(a) = SuperAdmin => Len(role_admins[SuperAdmin]) > admin_limits[1]
    /\ admin_info' = [admin_info EXCEPT ![a] = NoInfo]
    /\ admin_list' = RemoveFirst(admin_list, a)
    /\ role_admins' = [role_admins EXCEPT ![Role(a)] = RemoveFirst(@, a)]
    /\ UNCHANGED <<ownerVars, admin_limits, admin_paused>>

Fault_MoveToRole(a, role) ==
    role_admins' = [role_admins EXCEPT ![role] = Append(@, a)]

MoveToRole(a, role) ==
    role_admins' = [r \in Roles |->
        LET rest == IF r = Role(a) THEN RemoveFirst(role_admins[r], a) ELSE role_admins[r]
        IN  IF r = role THEN Append(rest, a) ELSE rest]

(* The caller's rank is compared with the new role only.                    *)
UpdateAdminRole(c, a, role) ==
    /\ ~admin_paused
    /\ Known(a) /\ HasRoleAtLeast(c, RequiredRoleToAssign(role))
    /\ c = a => Role(c) < role
    /\ admin_info' = [admin_info EXCEPT ![a].role = role]
    /\ MoveToRole(a, role)
    /\ UNCHANGED <<admin_list, ownerVars, admin_limits, admin_paused>>

-----------------------------------------------------------------------------
(* Activity.                                                                *)

SetActive(a, active) ==
    /\ admin_info' = [admin_info EXCEPT ![a].active = active]
    /\ UNCHANGED <<admin_list, role_admins, ownerVars, admin_limits, admin_paused>>

DeactivateAdmin(c, a) ==
    /\ ~admin_paused
    /\ Known(a) /\ Known(c) /\ Role(c) > Role(a)
    /\ admin_info[a].active
    /\ SetActive(a, FALSE)

(* Also by the deactivated admin itself.                                    *)
ReactivateAdmin(c, a) ==
    /\ ~admin_paused
    /\ Known(a) /\ Known(c) /\ Role(c) >= Role(a)
    /\ ~admin_info[a].active
    /\ SetActive(a, TRUE)

(* Counted along the list, without the admin to be suspended.               *)
EffectiveOthers(a) == Len(SelectSeq(admin_list, LAMBDA b : b # a /\ Effective(b)))

SuspendAdmin(c, a, until) ==
    /\ ~admin_paused
    /\ until > now
    /\ Known(a) /\ admin_info[a].active
    /\ Known(c) /\ Role(c) >= Role(a)
    /\ EffectiveOthers(a) >= admin_limits[1]
    /\ admin_info' = [admin_info EXCEPT ![a].suspended_until = until]
    /\ UNCHANGED <<admin_list, role_admins, ownerVars, admin_limits, admin_paused>>

-----------------------------------------------------------------------------
(* Ownership.                                                               *)

TransferOwnership(a) ==
    /\ ~admin_paused
    /\ owner # NoPerson /\ a # owner
    /\ Known(a) /\ Role(a) = SuperAdmin /\ admin_info[a].active
    /\ pending_owner' = a
    /\ UNCHANGED <<rosterVars, owner, admin_limits, admin_paused>>

AcceptOwnership ==
    /\ ~admin_paused
    /\ pending_owner # NoPerson
    /\ owner' = pending_owner /\ pending_owner' = NoPerson
    /\ UNCHANGED <<rosterVars, admin_limits, admin_paused>>

AdminSwitchPause ==
    /\ owner # NoPerson
    /\ admin_paused' = ~admin_paused
    /\ UNCHANGED <<rosterVars, ownerVars, admin_limits>>

AdminNext ==
    \/ \E a \in Persons, limits \in AdminLimits : AdminInitialize(a, limits)
    \/ \E c, a \in Persons, role \in Roles : AddAdmin(c, a, role)
    \/ \E c, a \in Persons : RemoveAdmin(c, a)
    \/ \E c, a \in Persons, role \in Roles : UpdateAdminRole(c, a, role)
    \/ \E c, a \in Persons : DeactivateAdmin(c, a)
    \/ \E c, a \in Persons : ReactivateAdmin(c, a)
    \/ \E c, a \in Persons, until \in Suspensions : SuspendAdmin(c, a, until)
    \/ \E a \in Persons : TransferOwnership(a)
    \/ AcceptOwnership
    \/ AdminSwitchPause

(* The contract alone on its ledger.                                        *)
AdminSpec ==
    /\ LedgerInit /\ AdminInit
    /\ [][(AdminNext /\ UNCHANGED now) \/ (Tick /\ UNCHANGED adminVars)]_<<now, adminVars>>

-----------------------------------------------------------------------------
(* Properties.                                                              *)

(* The three places where a rank is kept agree after any sequence of        *)
(* additions, changes of role and removals: the list of all admins and the  *)
(* lists of the roles hold exactly the addresses their records say, each    *)
(* once.  The guards of remove_admin and suspend_admin count along them.    *)
RostersAgree ==
    /\ Lists(admin_list, {a \in Persons : Known(a)})
    /\ \A r \in Roles : Lists(role_admins[r], {a \in Persons : Known(a) /\ Role(a) = r})

RankOf(a) == IF Known(a) THEN Role(a) ELSE 0

(* Nobody rises by himself: after initialization an address gains rank only *)
(* in a step at which another admin is in office whose rank may grant it;   *)
(* being reactivated, the end of a suspension and ownership grant none.     *)
RanksAreGranted ==
    [][\A a \in Persons : owner # NoPerson /\ RankOf(a)' > RankOf(a) =>
           \E c \in Persons \ {a} :
               /\ Effective(c)
               /\ Role(c) = SuperAdmin \/ (Role(c) = 2 /\ RankOf(a)' = Operator)]_adminVars

(* docs/admin-roles.md:23 of the role Admin: "Cannot manage other admins or *)
(* super admins": a super admin loses the rank only beside another one.     *)
SuperAdminsManageThemselves ==
    [][\A a \in Persons : RankOf(a) = SuperAdmin /\ RankOf(a)' # SuperAdmin =>
           \E c \in Persons \ {a} : RankOf(c) = SuperAdmin]_adminVars
=============================================================================
