---------------------------- MODULE ContractsProofs ----------------------------
(***************************************************************************)
(* Proofs about the contracts beside the bond contract: admin, registry    *)
(* and arbitration, for every value of their constants. Each keeps lists   *)
(* beside its records, and the proofs say that the two always agree and    *)
(* that a reader who goes from page to page sees all of a list. At the end *)
(* of the module: on a ledger with others a contract behaves as if alone.  *)
(***************************************************************************)
EXTENDS MCContracts, Lemmas

-----------------------------------------------------------------------------
(***************************************************************************)
(* Admin: the lists of all admins and of each rank agree with the records. *)
(***************************************************************************)
(* What the contract stores, with the lists of all admins and of each rank. *)
AdminTyped ==
    /\ admin_info \in [Persons -> AdminInfo \cup {NoInfo}]
    /\ admin_list \in Seq(Persons) /\ role_admins \in [Roles -> Seq(Persons)]

(* Before the owner there is nobody.                                        *)
Unfounded == owner = NoPerson => \A a \in Persons : ~Known(a)

AdminInv == AdminTyped /\ Unfounded /\ RostersAgree

(* The persons with a record, and those of one rank.                        *)
Admins == {a \in Persons : Known(a)}
InRole(r) == {a \in Persons : Known(a) /\ Role(a) = r}

(* A record is not the absence of one.                                      *)
LEMMA InfoFields == \A i \in AdminInfo : i.role \in Roles /\ i.active \in BOOLEAN /\ i # NoInfo
BY AdminAssumption DEF AdminInfo

(* A new record has the rank it was asked for.                              *)
LEMMA NewInfoIs == \A role \in Roles : NewInfo(role) \in AdminInfo /\ NewInfo(role).role = role
BY DEF NewInfo, AdminInfo

(* The ranks and their order.                                               *)
LEMMA RolesAre == Roles = {1, 2, 3} /\ SuperAdmin = 3 /\ Operator = 1
BY DEF Roles, SuperAdmin, Operator

LEMMA AdminStarts == AdminInit => AdminInv
<1> SUFFICES ASSUME AdminInit PROVE AdminInv
  OBVIOUS
<1>1. \A a \in Persons : ~Known(a)
  BY DEF AdminInit, Known
<1>2. AdminTyped
  BY DEF AdminInit, AdminTyped
<1>3. RostersAgree
  <2>1. {a \in Persons : Known(a)} = {}
    BY <1>1
  <2>2. ASSUME NEW r \in Roles PROVE {a \in Persons : Known(a) /\ Role(a) = r} = {}
    BY <1>1
  <2> QED
    BY <2>1, <2>2, ListsEmpty DEF AdminInit, RostersAgree
<1> QED
  BY <1>1, <1>2, <1>3 DEF AdminInv, Unfounded

(* What a call leaves of the records and the lists decides.                 *)
LEMMA AdminBooks ==
    ASSUME AdminTyped', owner' # NoPerson,
           Lists(admin_list', Admins'), \A r \in Roles : Lists(role_admins'[r], InRole(r)')
    PROVE  AdminInv'
BY DEF AdminInv, Unfounded, RostersAgree, Admins, InRole

(* The owner is the first record and the first entry of the lists.          *)
LEMMA AdminFounded ==
    ASSUME AdminInv, NEW a \in Persons, NEW limits, AdminInitialize(a, limits)
    PROVE  AdminInv'
<1>1. /\ admin_info' = [admin_info EXCEPT ![a] = NewInfo(SuperAdmin)]
      /\ admin_list' = <<a>> /\ owner' = a
      /\ role_admins' = [r \in Roles |-> IF r = SuperAdmin THEN <<a>> ELSE <<>>]
      /\ \A b \in Persons : ~Known(b)
  BY DEF AdminInitialize, AdminInv, Unfounded
<1>2. NewInfo(SuperAdmin) \in AdminInfo /\ NewInfo(SuperAdmin).role = SuperAdmin
  BY NewInfoIs, RolesAre
<1>3. Lists(<<a>>, {a})
  BY DEF Lists, ToSet, IsInjective
<1>4. AdminTyped'
  BY <1>1, <1>2 DEF AdminInv, AdminTyped
<1>5. \A b \in Persons : Known(b)' <=> b = a
  BY <1>1, <1>2, InfoFields DEF AdminInv, AdminTyped, Known
<1>6. Role(a)' = SuperAdmin
  BY <1>1, <1>2 DEF AdminInv, AdminTyped, Role
<1>7. Admins' = {a} /\ \A r \in Roles : InRole(r)' = IF r = SuperAdmin THEN {a} ELSE {}
  BY <1>5, <1>6 DEF Admins, InRole
<1> QED
  BY <1>1, <1>3, <1>4, <1>7, ListsEmpty, AdminBooks, AdminAssumption

(* add_admin writes one record and appends to two lists.                    *)
LEMMA AdminAdded ==
    ASSUME AdminInv, NEW c \in Persons, NEW a \in Persons, NEW role \in Roles,
           AddAdmin(c, a, role)
    PROVE  AdminInv'
<1>1. /\ ~Known(a) /\ Known(c) /\ owner' = owner
      /\ admin_info' = [admin_info EXCEPT ![a] = NewInfo(role)]
      /\ admin_list' = Append(admin_list, a)
      /\ role_admins' = [role_admins EXCEPT ![role] = Append(@, a)]
  BY DEF AddAdmin, HasRoleAtLeast, Effective, ownerVars
<1>2. NewInfo(role) \in AdminInfo /\ NewInfo(role).role = role
  BY NewInfoIs
<1>3. AdminTyped'
  BY <1>1, <1>2 DEF AdminInv, AdminTyped
<1>4. /\ \A b \in Persons : Known(b)' <=> Known(b) \/ b = a
      /\ \A b \in Persons : b # a => Role(b)' = Role(b)
      /\ Role(a)' = role
  BY <1>1, <1>2, InfoFields DEF AdminInv, AdminTyped, Known, Role
<1>5. /\ Admins' = Admins \cup {a} /\ a \notin Admins
      /\ \A r \in Roles : InRole(r)' = IF r = role THEN InRole(r) \cup {a} ELSE InRole(r)
      /\ \A r \in Roles : a \notin InRole(r)
  BY <1>1, <1>4 DEF Admins, InRole
<1>6. /\ admin_list \in Seq(Persons) /\ Lists(admin_list, Admins)
      /\ \A r \in Roles : role_admins[r] \in Seq(Persons) /\ Lists(role_admins[r], InRole(r))
  BY DEF AdminInv, AdminTyped, RostersAgree, Admins, InRole
<1>7. Lists(admin_list', Admins')
  BY <1>1, <1>5, <1>6, ListsAppend
<1>8. ASSUME NEW r \in Roles PROVE Lists(role_admins'[r], InRole(r)')
  <2>1. role_admins'[r] = IF r = role THEN Append(role_admins[r], a) ELSE role_admins[r]
    BY <1>1 DEF AdminInv, AdminTyped
  <2> QED
    BY <1>5, <1>6, <2>1, ListsAppend
<1> QED
  BY <1>1, <1>3, <1>7, <1>8, AdminBooks DEF AdminInv, Unfounded

(* remove_admin takes the record out of the list of all and of its rank's.  *)
LEMMA AdminRemoved ==
    ASSUME AdminInv, NEW c \in Persons, NEW a \in Persons, RemoveAdmin(c, a)
    PROVE  AdminInv'
<1>1. /\ Known(a) /\ owner' = owner
      /\ admin_info' = [admin_info EXCEPT ![a] = NoInfo]
      /\ admin_list' = RemoveFirst(admin_list, a)
      /\ role_admins' = [role_admins EXCEPT ![Role(a)] = RemoveFirst(@, a)]
  BY DEF RemoveAdmin, ownerVars
<1>2. Role(a) \in Roles
  BY <1>1, InfoFields DEF AdminInv, AdminTyped, Known, Role
<1>3. /\ admin_list \in Seq(Persons) /\ Lists(admin_list, Admins)
      /\ \A r \in Roles : role_admins[r] \in Seq(Persons) /\ Lists(role_admins[r], InRole(r))
  BY DEF AdminInv, AdminTyped, RostersAgree, Admins, InRole
<1>4. /\ \A b \in Persons : Known(b)' <=> Known(b) /\ b # a
      /\ \A b \in Persons : b # a => Role(b)' = Role(b)
  BY <1>1 DEF AdminInv, AdminTyped, Known, Role
<1>5. /\ Admins' = Admins \ {a} /\ a \in Admins
      /\ \A r \in Roles : InRole(r)' = IF r = Role(a) THEN InRole(r) \ {a} ELSE InRole(r)
      /\ a \in InRole(Role(a))
  BY <1>1, <1>4 DEF Admins, InRole
<1>6. admin_list' \in Seq(Persons) /\ Lists(admin_list', Admins')
  BY <1>1, <1>3, <1>5, ListsRemoveFirst
<1>7. ASSUME NEW r \in Roles
      PROVE  role_admins'[r] \in Seq(Persons) /\ Lists(role_admins'[r], InRole(r)')
  <2>1. role_admins'[r] = IF r = Role(a) THEN RemoveFirst(role_admins[r], a) ELSE role_admins[r]
    BY <1>1 DEF AdminInv, AdminTyped
  <2>2. CASE r = Role(a)
    <3>1. a \in InRole(r) /\ InRole(r)' = InRole(r) \ {a}
      BY <1>5, <2>2
    <3> QED
      BY <1>3, <2>1, <2>2, <3>1, ListsRemoveFirst
  <2>3. CASE r # Role(a)
    BY <1>3, <1>5, <2>1, <2>3
  <2> QED
    BY <2>2, <2>3
<1>8. AdminTyped'
  <2>1. role_admins' \in [Roles -> Seq(Persons)]
    <3>1. DOMAIN role_admins' = Roles /\ role_admins' = [r \in Roles |-> role_admins'[r]]
      BY <1>1 DEF AdminInv, AdminTyped
    <3> QED
      BY <1>7, <3>1
  <2> QED
    BY <1>1, <1>6, <2>1 DEF AdminInv, AdminTyped
<1> QED
  BY <1>1, <1>4, <1>6, <1>7, <1>8 DEF AdminInv, Unfounded, RostersAgree, Admins, InRole

(* update_admin_role moves an entry from one rank's list to another's.      *)
LEMMA AdminMoved ==
    ASSUME AdminInv, NEW c \in Persons, NEW a \in Persons, NEW role \in Roles,
           UpdateAdminRole(c, a, role)
    PROVE  AdminInv'
<1>1. /\ Known(a) /\ owner' = owner /\ admin_list' = admin_list
      /\ admin_info' = [admin_info EXCEPT ![a].role = role]
      /\ role_admins' = [r \in Roles |->
            LET rest == IF r = Role(a) THEN RemoveFirst(role_admins[r], a) ELSE role_admins[r]
            IN  IF r = role THEN Append(rest, a) ELSE rest]
  BY DEF UpdateAdminRole, MoveToRole, ownerVars
<1>2. admin_info[a] \in AdminInfo
  BY <1>1 DEF AdminInv, AdminTyped, Known
<1>3. [admin_info[a] EXCEPT !.role = role] \in AdminInfo
  BY <1>2 DEF AdminInfo
<1>4. /\ admin_info'[a] = [admin_info[a] EXCEPT !.role = role]
      /\ \A b \in Persons : b # a => admin_info'[b] = admin_info[b]
      /\ admin_info' \in [Persons -> AdminInfo \cup {NoInfo}]
  BY <1>1, <1>3 DEF AdminInv, AdminTyped
<1>5. /\ \A b \in Persons : Known(b)' <=> Known(b)
      /\ \A b \in Persons : b # a => Role(b)' = Role(b)
  BY <1>1, <1>3, <1>4, InfoFields DEF Known, Role
<1>6. Role(a)' = role
  <2>1. [admin_info[a] EXCEPT !.role = role].role = role
    BY <1>2 DEF AdminInfo
  <2> QED
    BY <1>4, <2>1 DEF Role
<1>7. /\ Admins' = Admins
      /\ \A r \in Roles : InRole(r)' = IF r = role THEN (InRole(r) \ {a}) \cup {a}
                                      ELSE InRole(r) \ {a}
      /\ \A r \in Roles : a \in InRole(r) <=> r = Role(a)
  BY <1>1, <1>5, <1>6 DEF Admins, InRole
<1>8. /\ admin_list \in Seq(Persons) /\ Lists(admin_list, Admins)
      /\ \A r \in Roles : role_admins[r] \in Seq(Persons) /\ Lists(role_admins[r], InRole(r))
  BY DEF AdminInv, AdminTyped, RostersAgree, Admins, InRole
<1>9. ASSUME NEW r \in Roles
      PROVE  role_admins'[r] \in Seq(Persons) /\ Lists(role_admins'[r], InRole(r)')
  <2> DEFINE rest == IF r = Role(a) THEN RemoveFirst(role_admins[r], a) ELSE role_admins[r]
  <2>1. rest \in Seq(Persons) /\ Lists(rest, InRole(r) \ {a})
    <3>1. CASE r = Role(a)
      BY <1>7, <1>8, <3>1, ListsRemoveFirst
    <3>2. CASE r # Role(a)
      <4>1. InRole(r) \ {a} = InRole(r)
        BY <1>7, <3>2
      <4> QED
        BY <1>8, <3>2, <4>1
    <3> QED
      BY <3>1, <3>2
  <2>2. role_admins'[r] = IF r = role THEN Append(rest, a) ELSE rest
    BY <1>1
  <2> HIDE DEF rest
  <2>3. Append(rest, a) \in Seq(Persons) /\ Lists(Append(rest, a), (InRole(r) \ {a}) \cup {a})
    <3>1. a \notin InRole(r) \ {a}
      OBVIOUS
    <3> QED
      BY <2>1, <3>1, ListsAppend
  <2> QED
    BY <1>7, <2>1, <2>2, <2>3
<1>10. AdminTyped'
  <2>1. role_admins' \in [Roles -> Seq(Persons)]
    <3>1. role_admins' = [r \in Roles |-> role_admins'[r]]
      BY <1>1
    <3> QED
      BY <1>9, <3>1
  <2> QED
    BY <1>1, <1>4, <1>8, <2>1 DEF AdminTyped
<1> QED
  BY <1>1, <1>5, <1>7, <1>8, <1>9, <1>10
  DEF AdminInv, Unfounded, RostersAgree, Admins, InRole

(* A record whose rank stays leaves the lists right.                        *)
LEMMA AdminTouched ==
    ASSUME AdminInv, NEW a \in Persons, Known(a), NEW info \in AdminInfo, info.role = Role(a),
           admin_info' = [admin_info EXCEPT ![a] = info],
           UNCHANGED <<admin_list, role_admins, owner>>
    PROVE  AdminInv'
<1>1. AdminTyped'
  BY DEF AdminInv, AdminTyped
<1>2. \A b \in Persons : (Known(b)' <=> Known(b)) /\ (Known(b) => Role(b)' = Role(b))
  BY InfoFields DEF AdminInv, AdminTyped, Known, Role
<1>3. Admins' = Admins /\ \A r \in Roles : InRole(r)' = InRole(r)
  BY <1>2 DEF Admins, InRole
<1> QED
  BY <1>1, <1>2, <1>3 DEF AdminInv, Unfounded, RostersAgree, Admins, InRole

(* Every entry point keeps the lists.                                       *)
LEMMA AdminKeeps == AdminInv /\ [AdminNext]_adminVars => AdminInv'
<1> SUFFICES ASSUME AdminInv, [AdminNext]_adminVars PROVE AdminInv'
  OBVIOUS
<1>1. ASSUME UNCHANGED rosterVars, owner' = owner \/ owner' # NoPerson PROVE AdminInv'
  BY <1>1 DEF rosterVars, AdminInv, AdminTyped, Unfounded, RostersAgree, Known, Role
<1>2. ASSUME NEW a \in Persons, Known(a), NEW active \in BOOLEAN, SetActive(a, active)
      PROVE  AdminInv'
  <2> DEFINE info == [admin_info[a] EXCEPT !.active = active]
  <2>1. admin_info[a] \in AdminInfo
    BY <1>2 DEF AdminInv, AdminTyped, Known
  <2>2. info \in AdminInfo /\ info.role = Role(a)
    BY <2>1 DEF AdminInfo, Role
  <2>3. admin_info' = [admin_info EXCEPT ![a] = info]
    BY <1>2 DEF SetActive
  <2> HIDE DEF info
  <2> QED
    BY <1>2, <2>2, <2>3, AdminTouched DEF SetActive, ownerVars
<1>3. ASSUME NEW c \in Persons, NEW a \in Persons, NEW until \in Suspensions,
             SuspendAdmin(c, a, until)
      PROVE  AdminInv'
  <2> DEFINE info == [admin_info[a] EXCEPT !.suspended_until = until]
  <2>1. admin_info[a] \in AdminInfo /\ until \in Nat
    BY <1>3, AdminAssumption DEF AdminInv, AdminTyped, Known, SuspendAdmin
  <2>2. info \in AdminInfo /\ info.role = Role(a)
    BY <2>1 DEF AdminInfo, Role
  <2>3. admin_info' = [admin_info EXCEPT ![a] = info]
    BY <1>3 DEF SuspendAdmin
  <2> HIDE DEF info
  <2> QED
    BY <1>3, <2>2, <2>3, AdminTouched DEF SuspendAdmin, ownerVars
<1>4. ASSUME NEW c \in Persons, NEW a \in Persons, DeactivateAdmin(c, a) \/ ReactivateAdmin(c, a)
      PROVE  AdminInv'
  BY <1>2, <1>4 DEF DeactivateAdmin, ReactivateAdmin
<1>5. ASSUME NEW a \in Persons, TransferOwnership(a) PROVE AdminInv'
  BY <1>1, <1>5 DEF TransferOwnership
<1>6. CASE AcceptOwnership
  BY <1>1, <1>6 DEF AcceptOwnership
<1>7. CASE AdminSwitchPause
  BY <1>1, <1>7 DEF AdminSwitchPause, ownerVars
<1>8. CASE UNCHANGED adminVars
  BY <1>1, <1>8 DEF adminVars, ownerVars
<1> QED
  BY <1>3, <1>4, <1>5, <1>6, <1>7, <1>8, AdminFounded, AdminAdded, AdminRemoved, AdminMoved
  DEF AdminNext

(* admin/src/lib.rs: the three books of the ranks, for any number of admins *)
(* and any sequence of calls.                                               *)
THEOREM RostersKept == AdminSpec => []RostersAgree
<1>1. AdminInv /\ [(AdminNext /\ UNCHANGED now) \/ (Tick /\ UNCHANGED adminVars)]_<<now, adminVars>>
        => AdminInv'
  BY AdminKeeps
<1>2. AdminInv => RostersAgree
  BY DEF AdminInv
<1> QED
  BY <1>1, <1>2, AdminStarts, PTL DEF AdminSpec

(* A rank comes from the addition or the change of role that grants it, and *)
(* a caller cannot raise himself above his own rank.                        *)
LEMMA RankGranted ==
    ASSUME AdminInv, AdminNext, owner # NoPerson, NEW a \in Persons, RankOf(a)' > RankOf(a)
    PROVE  \E c \in Persons \ {a} :
              /\ Effective(c)
              /\ Role(c) = SuperAdmin \/ (Role(c) = 2 /\ RankOf(a)' = Operator)
<1>1. /\ admin_info \in [Persons -> AdminInfo \cup {NoInfo}]
      /\ \A b \in Persons : Known(b) => admin_info[b] \in AdminInfo /\ Role(b) \in Roles
  BY InfoFields DEF AdminInv, AdminTyped, Known, Role
<1>2. \A b \in Persons : RankOf(b) \in {0, 1, 2, 3} /\ (Known(b) => RankOf(b) = Role(b))
  BY <1>1, RolesAre DEF RankOf
<1>3. ASSUME NEW c \in Persons \ {a}, NEW role \in Roles,
             HasRoleAtLeast(c, RequiredRoleToAssign(role)), RankOf(a)' = role
      PROVE  /\ Effective(c)
             /\ Role(c) = SuperAdmin \/ (Role(c) = 2 /\ RankOf(a)' = Operator)
  <2>1. Effective(c) /\ Role(c) >= RequiredRoleToAssign(role) /\ Role(c) \in Roles
    BY <1>1, <1>3 DEF HasRoleAtLeast, Effective
  <2> QED
    BY <1>3, <2>1, RolesAre DEF RequiredRoleToAssign
<1>4. ASSUME NEW c \in Persons, NEW b \in Persons, NEW role \in Roles, AddAdmin(c, b, role)
      PROVE  c \in Persons \ {a} /\ HasRoleAtLeast(c, RequiredRoleToAssign(role)) /\ RankOf(a)' = role
  <2>1. /\ ~Known(b) /\ HasRoleAtLeast(c, RequiredRoleToAssign(role))
        /\ admin_info' = [admin_info EXCEPT ![b] = NewInfo(role)]
    BY <1>4 DEF AddAdmin
  <2>2. b = a
    <3>1. b # a => admin_info'[a] = admin_info[a]
      BY <1>1, <2>1
    <3> QED
      BY <1>2, <3>1 DEF RankOf, Known, Role
  <2>3. admin_info'[a] = NewInfo(role)
    BY <1>1, <2>1, <2>2
  <2>4. RankOf(a)' = role
    BY <2>3, NewInfoIs, InfoFields DEF RankOf, Known, Role
  <2> QED
    BY <2>1, <2>2, <2>4 DEF HasRoleAtLeast, Effective
<1>5. ASSUME NEW c \in Persons, NEW b \in Persons, NEW role \in Roles, UpdateAdminRole(c, b, role)
      PROVE  c \in Persons \ {a} /\ HasRoleAtLeast(c, RequiredRoleToAssign(role)) /\ RankOf(a)' = role
  <2>1. /\ Known(b) /\ HasRoleAtLeast(c, RequiredRoleToAssign(role))
        /\ c = b => Role(c) < role
        /\ admin_info' = [admin_info EXCEPT ![b].role = role]
    BY <1>5 DEF UpdateAdminRole
  <2>2. b = a
    <3>1. b # a => admin_info'[a] = admin_info[a]
      BY <1>1, <2>1
    <3> QED
      BY <1>2, <3>1 DEF RankOf, Known, Role
  <2>3. admin_info'[a] = [admin_info[a] EXCEPT !.role = role] /\ admin_info[a] \in AdminInfo
    BY <1>1, <2>1, <2>2
  <2>4. admin_info'[a] \in AdminInfo /\ admin_info'[a].role = role
    BY <2>3 DEF AdminInfo
  <2>5. RankOf(a)' = role
    BY <2>4, InfoFields DEF RankOf, Known, Role
  <2>6. c # a
    <3>1. Role(c) >= RequiredRoleToAssign(role) /\ Role(c) \in Roles
      BY <1>1, <2>1 DEF HasRoleAtLeast, Effective
    <3> QED
      BY <2>1, <2>2, <3>1, RolesAre DEF RequiredRoleToAssign
  <2> QED
    BY <2>1, <2>5, <2>6
<1>6. ASSUME admin_info'[a] = admin_info[a] PROVE FALSE
  BY <1>2, <1>6 DEF RankOf, Known, Role
<1>7. ASSUME NEW c \in Persons, NEW b \in Persons, RemoveAdmin(c, b) PROVE FALSE
  <2>1. admin_info' = [admin_info EXCEPT ![b] = NoInfo]
    BY <1>7 DEF RemoveAdmin
  <2>2. b = a
    BY <1>1, <1>6, <2>1
  <2>3. RankOf(a)' = 0
    BY <1>1, <2>1, <2>2 DEF RankOf, Known
  <2> QED
    BY <1>2, <2>3
<1>8. ASSUME NEW b \in Persons, Known(b), NEW info \in AdminInfo, info.role = Role(b),
             admin_info' = [admin_info EXCEPT ![b] = info]
      PROVE  FALSE
  <2>1. b = a
    BY <1>1, <1>6, <1>8
  <2>2. admin_info'[a] = info
    BY <1>1, <1>8, <2>1
  <2>3. RankOf(a)' = Role(a)
    BY <1>8, <2>1, <2>2, InfoFields DEF RankOf, Known, Role
  <2> QED
    BY <1>2, <1>8, <2>1, <2>3
<1>9. ASSUME NEW b \in Persons, Known(b), NEW active \in BOOLEAN, SetActive(b, active)
      PROVE  FALSE
  <2>1. admin_info[b] \in AdminInfo
    BY <1>1, <1>9
  <2>2. /\ [admin_info[b] EXCEPT !.active = active] \in AdminInfo
        /\ [admin_info[b] EXCEPT !.active = active].role = Role(b)
    BY <2>1 DEF AdminInfo, Role
  <2>3. admin_info' = [admin_info EXCEPT ![b] = [admin_info[b] EXCEPT !.active = active]]
    BY <1>9 DEF SetActive
  <2> QED
    BY <1>8, <1>9, <2>2, <2>3
<1>10. ASSUME NEW c \in Persons, NEW b \in Persons, NEW until \in Suspensions,
              SuspendAdmin(c, b, until)
       PROVE  FALSE
  <2>1. admin_info[b] \in AdminInfo /\ until \in Nat /\ Known(b)
    BY <1>1, <1>10, AdminAssumption DEF SuspendAdmin
  <2>2. /\ [admin_info[b] EXCEPT !.suspended_until = until] \in AdminInfo
        /\ [admin_info[b] EXCEPT !.suspended_until = until].role = Role(b)
    BY <2>1 DEF AdminInfo, Role
  <2>3. admin_info' = [admin_info EXCEPT ![b] = [admin_info[b] EXCEPT !.suspended_until = until]]
    BY <1>10 DEF SuspendAdmin
  <2> QED
    BY <1>8, <2>1, <2>2, <2>3
<1>11. ASSUME UNCHANGED rosterVars PROVE FALSE
  BY <1>6, <1>11 DEF rosterVars
<1>12. ASSUME NEW b \in Persons, NEW limits, AdminInitialize(b, limits) PROVE FALSE
  BY <1>12 DEF AdminInitialize
<1>13. CASE \E c, b \in Persons, role \in Roles : AddAdmin(c, b, role) \/ UpdateAdminRole(c, b, role)
  <2>1. PICK c \in Persons, b \in Persons, role \in Roles :
            AddAdmin(c, b, role) \/ UpdateAdminRole(c, b, role)
    BY <1>13
  <2>2. c \in Persons \ {a} /\ HasRoleAtLeast(c, RequiredRoleToAssign(role)) /\ RankOf(a)' = role
    BY <1>4, <1>5, <2>1
  <2> QED
    BY <1>3, <2>2
<1>14. CASE \E c, b \in Persons : DeactivateAdmin(c, b) \/ ReactivateAdmin(c, b)
  BY <1>9, <1>14 DEF DeactivateAdmin, ReactivateAdmin
<1>15. CASE (\E b \in Persons : TransferOwnership(b)) \/ AcceptOwnership \/ AdminSwitchPause
  BY <1>11, <1>15 DEF TransferOwnership, AcceptOwnership, AdminSwitchPause
<1> QED
  BY <1>7, <1>10, <1>12, <1>13, <1>14, <1>15 DEF AdminNext

(* admin/src/lib.rs, add_admin and update_admin_role: nobody gains rank but *)
(* by another admin in office whose rank may grant it, for any number of    *)
(* admins, suspended, deactivated and reactivated in any order.             *)
THEOREM RanksOnlyGranted == AdminSpec => RanksAreGranted
<1> DEFINE Step == (AdminNext /\ UNCHANGED now) \/ (Tick /\ UNCHANGED adminVars)
           Granted == \A a \in Persons : owner # NoPerson /\ RankOf(a)' > RankOf(a) =>
                 \E c \in Persons \ {a} :
                     /\ Effective(c)
                     /\ Role(c) = SuperAdmin \/ (Role(c) = 2 /\ RankOf(a)' = Operator)
<1>1. AdminInv /\ [Step]_<<now, adminVars>> => AdminInv'
  BY AdminKeeps
<1>2. AdminInv /\ [Step]_<<now, adminVars>> => [Granted]_adminVars
  BY RankGranted
<1> QED
  BY <1>1, <1>2, AdminStarts, PTL DEF AdminSpec, RanksAreGranted

-----------------------------------------------------------------------------
(***************************************************************************)
(* Registry: the two maps are inverse and the list has every entry once.   *)
(***************************************************************************)
(* What the registry stores.                                                *)
DirectoryTyped ==
    /\ identity_to_bond \in [Identities -> Entries \cup {NoEntry}]
    /\ bond_to_identity \in [BondContracts -> Identities \cup {NoIdentity}]
    /\ identities \in Seq(Identities)

(* Each of the two maps is the inverse of the other.                        *)
Reciprocal == \A i \in Identities, b \in BondContracts :
    bond_to_identity[b] = i <=> identity_to_bond[i].bond = b

(* The list of identities has the registered ones, once each.               *)
RegisteredSet == {i \in Identities : Registered(i)}
IdentitiesListed == Lists(identities, RegisteredSet)

(* Nothing is registered before the contract is initialized.                *)
Unopened == registry_admin = NoRegistryAdmin => identities = <<>> /\ bond_code_hash = NoCodeHash

DirectoryInv ==
    /\ DirectoryTyped /\ Reciprocal /\ IdentitiesListed /\ Unopened
    /\ registry_admin \in RegistryAdmins \cup {NoRegistryAdmin}

(* An entry is not the absence of one.                                      *)
LEMMA EntryFields ==
    /\ NoEntry.bond = NoBondContract /\ NoEntry \notin Entries
    /\ \A e \in Entries : e.bond \in BondContracts /\ e # NoEntry
    /\ \A b \in BondContracts, active \in BOOLEAN :
          [bond |-> b, active |-> active] \in Entries
BY RegistryAssumption DEF NoEntry, Entries

LEMMA RegistryStarts == RegistryInit => DirectoryInv
<1> SUFFICES ASSUME RegistryInit PROVE DirectoryInv
  OBVIOUS
<1>1. DirectoryTyped
  BY DEF RegistryInit, DirectoryTyped
<1>2. Reciprocal
  BY EntryFields, RegistryAssumption DEF RegistryInit, Reciprocal
<1>3. RegisteredSet = {}
  BY DEF RegistryInit, RegisteredSet, Registered
<1> QED
  BY <1>1, <1>2, <1>3, ListsEmpty DEF RegistryInit, DirectoryInv, IdentitiesListed, Unopened

(* register writes both maps and appends to the list.                       *)
LEMMA Bound ==
    ASSUME DirectoryInv, NEW i \in Identities, NEW b \in BondContracts, Bind(i, b),
           registry_admin # NoRegistryAdmin
    PROVE  DirectoryInv'
<1> DEFINE entry == [bond |-> b, active |-> TRUE]
<1>1. /\ ~Registered(i) /\ bond_to_identity[b] = NoIdentity
      /\ identity_to_bond' = [identity_to_bond EXCEPT ![i] = entry]
      /\ bond_to_identity' = [bond_to_identity EXCEPT ![b] = i]
      /\ identities' = IF Contains(identities, i) THEN identities ELSE Append(identities, i)
      /\ registry_admin' = registry_admin
  BY DEF Bind, Free
<1>2. entry \in Entries /\ entry # NoEntry /\ entry.bond = b
  BY EntryFields
<1> HIDE DEF entry
<1>3. DirectoryTyped'
  BY <1>1, <1>2 DEF DirectoryInv, DirectoryTyped
<1>4. /\ identity_to_bond'[i] = entry
      /\ \A j \in Identities \ {i} : identity_to_bond'[j] = identity_to_bond[j]
      /\ bond_to_identity'[b] = i
      /\ \A c \in BondContracts \ {b} : bond_to_identity'[c] = bond_to_identity[c]
  BY <1>1 DEF DirectoryInv, DirectoryTyped
<1>5. Reciprocal'
  <2> SUFFICES ASSUME NEW j \in Identities, NEW c \in BondContracts
               PROVE  bond_to_identity'[c] = j <=> identity_to_bond'[j].bond = c
    BY DEF Reciprocal
  <2>1. identity_to_bond[i].bond # c
    BY <1>1, EntryFields, RegistryAssumption DEF Registered
  <2>2. bond_to_identity[c] = j <=> identity_to_bond[j].bond = c
    BY DEF DirectoryInv, Reciprocal
  <2>3. bond_to_identity[c] = i <=> identity_to_bond[i].bond = c
    BY DEF DirectoryInv, Reciprocal
  <2>4. bond_to_identity[b] = j <=> identity_to_bond[j].bond = b
    BY DEF DirectoryInv, Reciprocal
  <2> QED
    BY <1>1, <1>2, <1>4, <2>1, <2>2, <2>3, <2>4, RegistryAssumption
<1>6. RegisteredSet' = RegisteredSet \cup {i} /\ i \notin RegisteredSet
  BY <1>1, <1>2, <1>4 DEF RegisteredSet, Registered
<1>7. identities' = Append(identities, i)
  BY <1>1, <1>6, ListsContains DEF DirectoryInv, DirectoryTyped, IdentitiesListed
<1>8. IdentitiesListed'
  BY <1>6, <1>7, ListsAppend DEF DirectoryInv, DirectoryTyped, IdentitiesListed
<1> QED
  BY <1>1, <1>3, <1>5, <1>8 DEF DirectoryInv, Unopened

(* remove clears both maps and takes the identity out of the list.          *)
LEMMA Removed ==
    ASSUME DirectoryInv, NEW i \in Identities, RegistryRemove(i)
    PROVE  DirectoryInv'
<1> DEFINE b == identity_to_bond[i].bond
<1>1. /\ Registered(i) /\ registry_admin # NoRegistryAdmin
      /\ identity_to_bond' = [identity_to_bond EXCEPT ![i] = NoEntry]
      /\ bond_to_identity' = [bond_to_identity EXCEPT ![b] = NoIdentity]
      /\ identities' = RemoveFirst(identities, i)
      /\ registry_admin' = registry_admin
  BY DEF RegistryRemove, AdminSigns
<1>2. b \in BondContracts
  BY <1>1, EntryFields DEF DirectoryInv, DirectoryTyped, Registered
<1>3. bond_to_identity[b] = i
  BY <1>2 DEF DirectoryInv, Reciprocal
<1> HIDE DEF b
<1>4. /\ identity_to_bond'[i] = NoEntry
      /\ \A j \in Identities \ {i} : identity_to_bond'[j] = identity_to_bond[j]
      /\ bond_to_identity'[b] = NoIdentity
      /\ \A c \in BondContracts \ {b} : bond_to_identity'[c] = bond_to_identity[c]
  BY <1>1, <1>2 DEF DirectoryInv, DirectoryTyped
<1>5. RegisteredSet' = RegisteredSet \ {i} /\ i \in RegisteredSet
  BY <1>1, <1>4 DEF RegisteredSet, Registered
<1>6. identities' \in Seq(Identities) /\ IdentitiesListed'
  BY <1>1, <1>5, ListsRemoveFirst DEF DirectoryInv, DirectoryTyped, IdentitiesListed
<1>7. DirectoryTyped'
  BY <1>1, <1>2, <1>6 DEF DirectoryInv, DirectoryTyped
<1>8. Reciprocal'
  <2> SUFFICES ASSUME NEW j \in Identities, NEW c \in BondContracts
               PROVE  bond_to_identity'[c] = j <=> identity_to_bond'[j].bond = c
    BY DEF Reciprocal
  <2>1. bond_to_identity[c] = j <=> identity_to_bond[j].bond = c
    BY DEF DirectoryInv, Reciprocal
  <2>2. bond_to_identity[b] = j <=> identity_to_bond[j].bond = b
    BY <1>2 DEF DirectoryInv, Reciprocal
  <2>3. bond_to_identity[c] = i <=> identity_to_bond[i].bond = c
    BY DEF DirectoryInv, Reciprocal
  <2> QED
    BY <1>2, <1>3, <1>4, <2>1, <2>2, <2>3, EntryFields, RegistryAssumption DEF b
<1> QED
  BY <1>1, <1>6, <1>7, <1>8 DEF DirectoryInv, Unopened

(* deactivate and reactivate change a flag of the entry only.               *)
LEMMA EntryToggled ==
    ASSUME DirectoryInv, NEW i \in Identities, NEW active \in BOOLEAN, SetEntryActive(i, active)
    PROVE  DirectoryInv'
<1> DEFINE entry == [identity_to_bond[i] EXCEPT !.active = active]
<1>1. /\ Registered(i)
      /\ identity_to_bond' = [identity_to_bond EXCEPT ![i] = entry]
      /\ UNCHANGED <<bond_to_identity, identities, registry_admin, bond_code_hash>>
  BY DEF SetEntryActive
<1>2. identity_to_bond[i] \in Entries
  BY <1>1 DEF DirectoryInv, DirectoryTyped, Registered
<1>3. entry \in Entries /\ entry.bond = identity_to_bond[i].bond
  BY <1>2 DEF Entries
<1> HIDE DEF entry
<1>4. /\ identity_to_bond' \in [Identities -> Entries \cup {NoEntry}]
      /\ \A j \in Identities : /\ identity_to_bond'[j].bond = identity_to_bond[j].bond
                               /\ Registered(j)' <=> Registered(j)
  BY <1>1, <1>2, <1>3, EntryFields DEF DirectoryInv, DirectoryTyped, Registered
<1>5. RegisteredSet' = RegisteredSet
  BY <1>4 DEF RegisteredSet
<1> QED
  BY <1>1, <1>4, <1>5
  DEF DirectoryInv, DirectoryTyped, Reciprocal, IdentitiesListed, Unopened

(* Every entry point keeps the directory.                                   *)
LEMMA RegistryKeeps == DirectoryInv /\ [RegistryNext]_registryVars => DirectoryInv'
<1> SUFFICES ASSUME DirectoryInv, [RegistryNext]_registryVars PROVE DirectoryInv'
  OBVIOUS
<1>1. ASSUME UNCHANGED directoryVars, Unopened', registry_admin' \in RegistryAdmins \cup {NoRegistryAdmin}
      PROVE  DirectoryInv'
  BY <1>1 DEF directoryVars, DirectoryInv, DirectoryTyped, Reciprocal, IdentitiesListed,
              RegisteredSet, Registered
<1>2. ASSUME NEW a \in RegistryAdmins, RegistryInitialize(a) PROVE DirectoryInv'
  <2>1. identities' = identities /\ a # NoRegistryAdmin
    BY <1>2, RegistryAssumption DEF RegistryInitialize, DirectoryInv, Unopened
  <2> QED
    BY <1>1, <1>2, <2>1 DEF RegistryInitialize, directoryVars, Unopened
<1>3. ASSUME NEW i \in Identities, NEW b \in BondContracts, NEW any, Register(i, b, any)
      PROVE  DirectoryInv'
  BY <1>3, Bound DEF Register, AdminSigns
<1>4. ASSUME NEW i \in Identities, NEW b \in BondContracts, RegisterTrustless(b, i)
      PROVE  DirectoryInv'
  <2>1. registry_admin # NoRegistryAdmin /\ Bind(i, b)
    BY <1>4 DEF RegisterTrustless, DirectoryInv, Unopened
  <2> QED
    BY <2>1, Bound
<1>5. ASSUME NEW i \in Identities, RegistryDeactivate(i) \/ RegistryReactivate(i)
      PROVE  DirectoryInv'
  BY <1>5, EntryToggled DEF RegistryDeactivate, RegistryReactivate
<1>6. ASSUME NEW a \in RegistryAdmins, RegistryTransferAdmin(a) PROVE DirectoryInv'
  BY <1>1, <1>6, RegistryAssumption DEF RegistryTransferAdmin, Unopened
<1>7. ASSUME NEW h \in CodeHashes, SetBondCodeHash(h) PROVE DirectoryInv'
  BY <1>1, <1>7 DEF SetBondCodeHash, AdminSigns, Unopened, DirectoryInv
<1>8. CASE RegistrySwitchPause
  BY <1>1, <1>8 DEF RegistrySwitchPause, Unopened, DirectoryInv, directoryVars
<1>9. CASE UNCHANGED registryVars
  BY <1>1, <1>9 DEF registryVars, Unopened, DirectoryInv, directoryVars
<1> QED
  BY <1>2, <1>3, <1>4, <1>5, <1>6, <1>7, <1>8, <1>9, Removed DEF RegistryNext

(* Whoever reads on until a page is empty has read the whole list: the      *)
(* function that reads exists, and it gives the list.                       *)
DirectoryReader(limit, size, read) ==
    read = [offset \in 0 .. (Len(identities) + MaxPage) |->
              IF IdentitiesPage(offset, limit) = <<>> THEN <<>>
              ELSE IdentitiesPage(offset, limit) \o read[offset + size]]

(* The page at an offset.                                                   *)
LEMMA DirectoryPage ==
    ASSUME identities \in Seq(Identities), NEW limit \in Nat, limit # 0,
           NEW o \in 0 .. Len(identities) + MaxPage
    PROVE  LET size == LesserOf(limit, MaxPage)
               end == LesserOf(o + size, Len(identities))
           IN  /\ size \in 1 .. MaxPage
               /\ o >= Len(identities) => IdentitiesPage(o, limit) = <<>>
               /\ o < Len(identities) =>
                    /\ end \in o + 1 .. Len(identities)
                    /\ end = Len(identities) <=> o + size >= Len(identities)
                    /\ end # Len(identities) => end = o + size
                    /\ o + size \in 0 .. Len(identities) + MaxPage
                    /\ IdentitiesPage(o, limit) = SubSeq(identities, o + 1, end)
                    /\ IdentitiesPage(o, limit) # <<>>
<1> DEFINE size == LesserOf(limit, MaxPage)
           end == LesserOf(o + size, Len(identities))
<1>1. Len(identities) \in Nat /\ MaxPage \in Nat \ {0}
  BY RegistryAssumption
<1>2. size \in 1 .. MaxPage
  BY <1>1 DEF LesserOf
<1>3. o >= Len(identities) => IdentitiesPage(o, limit) = <<>>
  BY DEF IdentitiesPage
<1>4. ASSUME o < Len(identities)
      PROVE  /\ end \in o + 1 .. Len(identities)
             /\ end = Len(identities) <=> o + size >= Len(identities)
             /\ end # Len(identities) => end = o + size
             /\ o + size \in 0 .. Len(identities) + MaxPage
             /\ IdentitiesPage(o, limit) = SubSeq(identities, o + 1, end)
             /\ IdentitiesPage(o, limit) # <<>>
  <2> HIDE DEF size
  <2>1. /\ end \in o + 1 .. Len(identities)
        /\ end = Len(identities) <=> o + size >= Len(identities)
        /\ end # Len(identities) => end = o + size
        /\ o + size \in 0 .. Len(identities) + MaxPage
    BY <1>1, <1>2, <1>4 DEF LesserOf
  <2>2. IdentitiesPage(o, limit) = SubSeq(identities, o + 1, end)
    <3>1. ~(o >= Len(identities))
      BY <1>1, <1>4
    <3> QED
      BY <3>1 DEF IdentitiesPage, size
  <2> HIDE DEF end
  <2>3. o \in 0 .. Len(identities) /\ end \in o .. Len(identities) /\ end # o
    BY <1>1, <1>4, <2>1
  <2>4. SubSeq(identities, o + 1, end) # <<>>
    BY <2>3, PageNotEmpty
  <2> QED
    BY <2>1, <2>2, <2>4
<1> QED
  BY <1>2, <1>3, <1>4

(* The function that reads page after page exists...                        *)
LEMMA DirectoryReaderExists ==
    ASSUME identities \in Seq(Identities), NEW limit \in Nat, limit # 0
    PROVE  \E read : DirectoryReader(limit, LesserOf(limit, MaxPage), read)
<1> DEFINE n == Len(identities)
           size == LesserOf(limit, MaxPage)
           read == [o \in 0 .. n + MaxPage |->
                      IF o < n THEN SubSeq(identities, o + 1, n) ELSE <<>>]
<1>1. ASSUME NEW o \in 0 .. n + MaxPage
      PROVE  read[o] = IF IdentitiesPage(o, limit) = <<>> THEN <<>>
                       ELSE IdentitiesPage(o, limit) \o read[o + size]
  <2> DEFINE end == LesserOf(o + size, n)
  <2>1. CASE o >= n
    <3>1. ~(o < n)
      BY <2>1
    <3> QED
      BY <2>1, <3>1, DirectoryPage
  <2>2. CASE o < n
    <3>1. /\ end \in o + 1 .. n
          /\ end = n <=> o + size >= n
          /\ end # n => end = o + size
          /\ o + size \in 0 .. n + MaxPage
          /\ IdentitiesPage(o, limit) = SubSeq(identities, o + 1, end)
          /\ IdentitiesPage(o, limit) # <<>>
      BY <2>2, DirectoryPage
    <3> HIDE DEF end, size
    <3>2. o \in 0 .. n /\ end \in o .. n
      BY <2>2, <3>1
    <3>3. SubSeq(identities, o + 1, n) = SubSeq(identities, o + 1, end)
            \o (IF end = n THEN <<>> ELSE SubSeq(identities, end + 1, n))
      BY <3>2, PageAndRest
    <3>4. read[o + size] = IF end = n THEN <<>> ELSE SubSeq(identities, end + 1, n)
      <4>1. read[o + size] = IF o + size < n THEN SubSeq(identities, o + size + 1, n) ELSE <<>>
        BY <3>1
      <4>2. end = n <=> ~(o + size < n)
        <5>1. o + size \in Int /\ n \in Int
          BY <3>1
        <5> QED
          BY <3>1, <5>1
      <4> QED
        BY <3>1, <4>1, <4>2
    <3> QED
      BY <2>2, <3>1, <3>3, <3>4
  <2>3. o >= n \/ o < n
    OBVIOUS
  <2> QED
    BY <2>1, <2>2, <2>3
<1>2. DirectoryReader(limit, size, read)
  BY <1>1 DEF DirectoryReader
<1> QED
  BY <1>2

(* ...and reads the whole list from its start.                              *)
LEMMA DirectoryRead ==
    ASSUME identities \in Seq(Identities), NEW limit \in Nat, limit # 0,
           NEW read, DirectoryReader(limit, LesserOf(limit, MaxPage), read)
    PROVE  read[0] = identities
<1> DEFINE n == Len(identities)
           size == LesserOf(limit, MaxPage)
           end == [o \in 0 .. n - 1 |-> LesserOf(o + size, n)]
<1>1. \A o \in 0 .. n + MaxPage :
          read[o] = IF IdentitiesPage(o, limit) = <<>> THEN <<>>
                    ELSE IdentitiesPage(o, limit) \o read[o + size]
  BY DEF DirectoryReader
<1>2. n \in Nat /\ MaxPage \in Nat \ {0}
  BY RegistryAssumption
<1>3. ASSUME NEW o \in 0 .. n - 1
      PROVE  /\ end[o] \in o + 1 .. n
             /\ read[o] = SubSeq(identities, o + 1, end[o])
                            \o (IF end[o] = n THEN <<>> ELSE read[end[o]])
  <2>1. o < n /\ o \in 0 .. n + MaxPage /\ end[o] = LesserOf(o + size, n)
    BY <1>2
  <2> HIDE DEF end
  <2>2. /\ end[o] \in o + 1 .. n
        /\ end[o] = n <=> o + size >= n
        /\ end[o] # n => end[o] = o + size
        /\ o + size \in 0 .. n + MaxPage
        /\ IdentitiesPage(o, limit) = SubSeq(identities, o + 1, end[o])
        /\ IdentitiesPage(o, limit) # <<>>
    BY <2>1, DirectoryPage
  <2>3. read[o] = IdentitiesPage(o, limit) \o read[o + size]
    BY <1>1, <2>1, <2>2
  <2>4. end[o] = n => read[o + size] = <<>>
    <3>1. o + size >= n => IdentitiesPage(o + size, limit) = <<>>
      BY <2>2, DirectoryPage
    <3> QED
      BY <1>1, <2>2, <3>1
  <2> QED
    BY <2>2, <2>3, <2>4
<1>4. CASE n = 0
  <2>1. IdentitiesPage(0, limit) = <<>> /\ identities = <<>>
    BY <1>4 DEF IdentitiesPage
  <2>2. 0 \in 0 .. n + MaxPage
    BY <1>2
  <2> QED
    BY <1>1, <2>1, <2>2
<1>5. CASE n # 0
  <2>1. 0 \in 0 .. n - 1
    BY <1>2, <1>5
  <2> HIDE DEF end
  <2>2. read[0] = SubSeq(identities, 0 + 1, n)
    BY <1>3, <2>1, PagesRead
  <2> QED
    BY <2>2, SubSeqFull
<1> QED
  BY <1>4, <1>5

(* So the pages cover the list at every page size.                          *)
LEMMA DirectoryPagesCover == DirectoryTyped => PagesCoverTheList
<1> SUFFICES ASSUME DirectoryTyped, NEW limit \in PageLimits \ {0}
             PROVE  (CHOOSE read : DirectoryReader(limit, LesserOf(limit, MaxPage), read))[0] = identities
  BY DEF PagesCoverTheList, DirectoryReader
<1>1. limit \in Nat /\ limit # 0 /\ identities \in Seq(Identities)
  BY RegistryAssumption DEF DirectoryTyped
<1> QED
  BY <1>1, DirectoryReaderExists, DirectoryRead

(* credence_registry/src/lib.rs: both directions and the list, for any      *)
(* number of identities and bond contracts, read at any page size.          *)
THEOREM DirectoryKept == RegistrySpec => []DirectoryConsistent
<1>1. DirectoryInv /\ [(RegistryNext /\ UNCHANGED now) \/ (Tick /\ UNCHANGED registryVars)]_<<now, registryVars>>
        => DirectoryInv'
  BY RegistryKeeps
<1>2. DirectoryInv => DirectoryConsistent
  BY DirectoryPagesCover
  DEF DirectoryInv, Reciprocal, IdentitiesListed, RegisteredSet, DirectoryConsistent
<1> QED
  BY <1>1, <1>2, RegistryStarts, PTL DEF RegistrySpec

(* Looked up from either side the bindings are the same pairs, and the list *)
(* has the identities that are bound.                                       *)
LEMMA Bindings ==
    ASSUME DirectoryInv
    PROVE  /\ BoundForward = {<<i, identity_to_bond[i].bond>> : i \in RegisteredSet}
           /\ BoundBackward = BoundForward
           /\ ToSet(identities) = RegisteredSet
           /\ \A i \in Identities : IsRegistered(i) => i \in RegisteredSet
<1>1. \A i \in RegisteredSet : identity_to_bond[i].bond \in BondContracts
  BY EntryFields DEF DirectoryInv, DirectoryTyped, RegisteredSet, Registered
<1>2. \A i \in Identities, b \in BondContracts :
        bond_to_identity[b] = i <=> i \in RegisteredSet /\ identity_to_bond[i].bond = b
  BY <1>1, EntryFields, RegistryAssumption
  DEF DirectoryInv, DirectoryTyped, Reciprocal, RegisteredSet, Registered
<1>3. BoundForward = {<<i, identity_to_bond[i].bond>> : i \in RegisteredSet}
  BY DEF BoundForward, RegisteredSet
<1>4. BoundBackward \subseteq BoundForward
  <2> SUFFICES ASSUME NEW b \in BondContracts, bond_to_identity[b] # NoIdentity
               PROVE  <<bond_to_identity[b], b>> \in BoundForward
    BY DEF BoundBackward
  <2>1. bond_to_identity[b] \in Identities
    BY DEF DirectoryInv, DirectoryTyped
  <2> QED
    BY <1>2, <1>3, <2>1
<1>5. BoundForward \subseteq BoundBackward
  <2> SUFFICES ASSUME NEW i \in RegisteredSet
               PROVE  <<i, identity_to_bond[i].bond>> \in BoundBackward
    BY <1>3
  <2> DEFINE b == identity_to_bond[i].bond
  <2>1. i \in Identities /\ b \in BondContracts
    BY <1>1 DEF RegisteredSet
  <2> HIDE DEF b
  <2>2. bond_to_identity[b] = i /\ i # NoIdentity
    BY <1>2, <2>1, RegistryAssumption DEF b
  <2>3. <<i, b>> \in BoundBackward
    BY <2>1, <2>2 DEF BoundBackward
  <2> QED
    BY <2>3 DEF b
<1>6. \A i \in Identities : IsRegistered(i) => i \in RegisteredSet
  BY DEF IsRegistered, RegisteredSet, Registered, NoEntry
<1> QED
  BY <1>3, <1>4, <1>5, <1>6 DEF DirectoryInv, IdentitiesListed, Lists

(* A directory that nobody wrote to reads the same.                         *)
LEMMA DirectoryStays ==
    ASSUME UNCHANGED directoryVars
    PROVE  UNCHANGED ByIdentity!directory
BY DEF directoryVars, ByIdentity!directory, BoundForward, IsRegistered, Registered

(* register and register_trustless.                                         *)
LEMMA BindBinds ==
    ASSUME DirectoryInv, DirectoryInv', NEW i \in Identities, NEW b \in BondContracts, Bind(i, b)
    PROVE  ByIdentity!Bind(i)
<1> DEFINE entry == [bond |-> b, active |-> TRUE]
<1>1. /\ ~Registered(i) /\ bond_to_identity[b] = NoIdentity
      /\ identity_to_bond' = [identity_to_bond EXCEPT ![i] = entry]
  BY DEF Bind, Free
<1>2. entry # NoEntry /\ entry.bond = b /\ entry.active
  BY EntryFields
<1> HIDE DEF entry
<1>3. /\ identity_to_bond'[i] = entry
      /\ \A j \in Identities \ {i} : identity_to_bond'[j] = identity_to_bond[j]
  BY <1>1 DEF DirectoryInv, DirectoryTyped
<1>4. RegisteredSet' = RegisteredSet \cup {i} /\ i \notin RegisteredSet
  BY <1>1, <1>2, <1>3 DEF RegisteredSet, Registered
<1>5. ByIdentity!Unbound(i, b)
  <2>1. \A j \in RegisteredSet : j # i /\ identity_to_bond[j].bond # b
    BY <1>1, <1>4, RegistryAssumption DEF DirectoryInv, Reciprocal, RegisteredSet
  <2> QED
    BY <2>1, Bindings DEF ByIdentity!Unbound
<1>6. BoundForward' = BoundForward \cup {<<i, b>>}
  <2>1. BoundForward' = {<<j, identity_to_bond'[j].bond>> : j \in RegisteredSet \cup {i}}
    BY <1>4 DEF BoundForward, RegisteredSet
  <2>2. \A j \in RegisteredSet : identity_to_bond'[j] = identity_to_bond[j]
    BY <1>3, <1>4 DEF RegisteredSet
  <2> QED
    BY <1>2, <1>3, <2>1, <2>2, Bindings
<1>7. {j \in Identities : IsRegistered(j)}' = {j \in Identities : IsRegistered(j)} \cup {i}
  BY <1>2, <1>3 DEF IsRegistered
<1>8. ToSet(identities)' = ToSet(identities) \cup {i}
  BY <1>4, Bindings DEF DirectoryInv, IdentitiesListed, Lists
<1> QED
  BY <1>5, <1>6, <1>7, <1>8 DEF ByIdentity!Bind

(* deactivate and reactivate.                                               *)
LEMMA ToggleSwitches ==
    ASSUME DirectoryInv, NEW i \in Identities, NEW active \in BOOLEAN, SetEntryActive(i, active)
    PROVE  ByIdentity!Switch(i)
<1> DEFINE entry == [identity_to_bond[i] EXCEPT !.active = active]
<1>1. /\ Registered(i) /\ identities' = identities
      /\ identity_to_bond' = [identity_to_bond EXCEPT ![i] = entry]
  BY DEF SetEntryActive
<1>2. identity_to_bond[i] \in Entries
  BY <1>1 DEF DirectoryInv, DirectoryTyped, Registered
<1>3. /\ entry \in Entries /\ entry.bond = identity_to_bond[i].bond
      /\ entry.active = active
  BY <1>2 DEF Entries
<1> HIDE DEF entry
<1>4. /\ identity_to_bond'[i] = entry
      /\ \A j \in Identities \ {i} : identity_to_bond'[j] = identity_to_bond[j]
  BY <1>1 DEF DirectoryInv, DirectoryTyped
<1>5. \A j \in Identities : /\ identity_to_bond'[j].bond = identity_to_bond[j].bond
                            /\ Registered(j)' <=> Registered(j)
  BY <1>1, <1>3, <1>4, EntryFields DEF Registered
<1>6. RegisteredSet' = RegisteredSet /\ i \in RegisteredSet
  BY <1>1, <1>5 DEF RegisteredSet
<1>7. BoundForward' = BoundForward
  <2>1. BoundForward' = {<<j, identity_to_bond'[j].bond>> : j \in RegisteredSet}
    BY <1>6 DEF BoundForward, RegisteredSet
  <2>2. \A j \in RegisteredSet : identity_to_bond'[j].bond = identity_to_bond[j].bond
    BY <1>5 DEF RegisteredSet
  <2> QED
    BY <2>1, <2>2, Bindings
<1>8. LET on == {j \in Identities : IsRegistered(j)}
      IN  on' = on \cup {i} \/ on' = on \ {i}
  <2>1. CASE active
    BY <1>3, <1>4, <2>1 DEF IsRegistered
  <2>2. CASE ~active
    BY <1>3, <1>4, <2>2 DEF IsRegistered
  <2> QED
    BY <2>1, <2>2
<1> QED
  BY <1>1, <1>6, <1>7, <1>8, Bindings DEF ByIdentity!Switch

(* remove.                                                                  *)
LEMMA RemoveUnbinds ==
    ASSUME DirectoryInv, DirectoryInv', NEW i \in Identities, RegistryRemove(i)
    PROVE  ByIdentity!Unbind(i)
<1>1. /\ Registered(i)
      /\ identity_to_bond' = [identity_to_bond EXCEPT ![i] = NoEntry]
  BY DEF RegistryRemove
<1>2. /\ identity_to_bond'[i] = NoEntry
      /\ \A j \in Identities \ {i} : identity_to_bond'[j] = identity_to_bond[j]
  BY <1>1 DEF DirectoryInv, DirectoryTyped
<1>3. RegisteredSet' = RegisteredSet \ {i} /\ i \in RegisteredSet
  BY <1>1, <1>2 DEF RegisteredSet, Registered
<1>4. BoundForward' = {p \in BoundForward : p[1] # i}
  <2>1. BoundForward' = {<<j, identity_to_bond'[j].bond>> : j \in RegisteredSet \ {i}}
    BY <1>3 DEF BoundForward, RegisteredSet
  <2>2. \A j \in RegisteredSet \ {i} : identity_to_bond'[j] = identity_to_bond[j]
    BY <1>2 DEF RegisteredSet
  <2> QED
    BY <2>1, <2>2, Bindings
<1>5. {j \in Identities : IsRegistered(j)}' = {j \in Identities : IsRegistered(j)} \ {i}
  BY <1>2 DEF IsRegistered, NoEntry
<1>6. ToSet(identities)' = ToSet(identities) \ {i}
  BY <1>3, Bindings DEF DirectoryInv, IdentitiesListed, Lists
<1> QED
  BY <1>3, <1>4, <1>5, <1>6, Bindings DEF ByIdentity!Unbind

(* Every call of the registry is one operation of the directory, or none.   *)
LEMMA RegistryLooksUp ==
    ASSUME DirectoryInv, DirectoryInv', [RegistryNext]_registryVars
    PROVE  [ByIdentity!Next]_(ByIdentity!directory)
<1>1. ASSUME NEW a \in RegistryAdmins, RegistryInitialize(a)
      PROVE  UNCHANGED ByIdentity!directory
  BY <1>1, DirectoryStays DEF RegistryInitialize, directoryVars, DirectoryInv, Unopened
<1>2. ASSUME NEW i \in Identities, NEW b \in BondContracts, NEW any,
             Register(i, b, any) \/ RegisterTrustless(b, i)
      PROVE  ByIdentity!Next
  BY <1>2, BindBinds DEF Register, RegisterTrustless, ByIdentity!Next
<1>3. ASSUME NEW i \in Identities, RegistryDeactivate(i) \/ RegistryReactivate(i)
      PROVE  ByIdentity!Next
  BY <1>3, ToggleSwitches DEF RegistryDeactivate, RegistryReactivate, ByIdentity!Next
<1>4. ASSUME NEW i \in Identities, RegistryRemove(i) PROVE ByIdentity!Next
  BY <1>4, RemoveUnbinds DEF ByIdentity!Next
<1>5. ASSUME \/ \E a \in RegistryAdmins : RegistryTransferAdmin(a)
             \/ \E h \in CodeHashes : SetBondCodeHash(h)
             \/ RegistrySwitchPause
             \/ UNCHANGED registryVars
      PROVE  UNCHANGED ByIdentity!directory
  BY <1>5, DirectoryStays
  DEF RegistryTransferAdmin, SetBondCodeHash, RegistrySwitchPause, registryVars
<1> QED
  BY <1>1, <1>2, <1>3, <1>4, <1>5 DEF RegistryNext

(* What one side sees the other sees too.                                   *)
SameBindings == BoundBackward = BoundForward

LEMMA EitherSide ==
    ASSUME SameBindings, SameBindings',
           [ByIdentity!Next]_(ByIdentity!directory)
    PROVE  [ByContract!Next]_(ByContract!directory)
<1> USE DEF SameBindings
<1>1. ASSUME NEW i \in Identities, ByIdentity!Bind(i)
      PROVE  ByContract!Next
  BY <1>1 DEF ByIdentity!Bind, ByIdentity!Unbound, ByContract!Bind, ByContract!Unbound,
              ByContract!Next
<1>2. ASSUME NEW i \in Identities, ByIdentity!Switch(i)
      PROVE  ByContract!Next
  BY <1>2 DEF ByIdentity!Switch, ByContract!Switch, ByContract!Next
<1>3. ASSUME NEW i \in Identities, ByIdentity!Unbind(i)
      PROVE  ByContract!Next
  BY <1>3 DEF ByIdentity!Unbind, ByContract!Unbind, ByContract!Next
<1>4. CASE UNCHANGED ByIdentity!directory
  BY <1>4 DEF ByIdentity!directory, ByContract!directory
<1> QED
  BY <1>1, <1>2, <1>3, <1>4 DEF ByIdentity!Next

LEMMA DirectoryStarts == RegistryInit => ByIdentity!Init
<1> SUFFICES ASSUME RegistryInit PROVE ByIdentity!Init
  OBVIOUS
<1>1. DirectoryInv
  BY RegistryStarts
<1>2. RegisteredSet = {}
  BY DEF RegistryInit, RegisteredSet, Registered
<1>3. \A i \in Identities : ~IsRegistered(i)
  BY <1>1, <1>2, Bindings
<1> QED
  BY <1>1, <1>2, <1>3, Bindings DEF ByIdentity!Init

(* credence_registry/src/lib.rs: for any identities and bond contracts, any *)
(* order of registrations, removals and changes of an entry, and a pause at *)
(* any time, the two maps and the list are one directory.                   *)
THEOREM RegistryIsADirectory == RegistrySpec => ImplementsDirectory
<1> DEFINE Step == (RegistryNext /\ UNCHANGED now) \/ (Tick /\ UNCHANGED registryVars)
<1>1. RegistryInit => DirectoryInv /\ ByIdentity!Init
  BY RegistryStarts, DirectoryStarts
<1>2. DirectoryInv => SameBindings
  BY Bindings DEF SameBindings
<1>3. DirectoryInv /\ ByIdentity!Init => ByContract!Init
  BY <1>2 DEF SameBindings, ByIdentity!Init, ByContract!Init
<1>4. DirectoryInv /\ [Step]_<<now, registryVars>> => DirectoryInv'
  BY RegistryKeeps
<1>5. DirectoryInv /\ DirectoryInv' /\ [Step]_<<now, registryVars>>
        => [ByIdentity!Next]_(ByIdentity!directory)
  BY RegistryLooksUp
<1>6. SameBindings /\ SameBindings' /\ [ByIdentity!Next]_(ByIdentity!directory)
        => [ByContract!Next]_(ByContract!directory)
  BY EitherSide
<1> QED
  BY <1>1, <1>2, <1>3, <1>4, <1>5, <1>6, PTL
  DEF RegistrySpec, ImplementsDirectory, ByIdentity!Spec, ByContract!Spec

-----------------------------------------------------------------------------
(***************************************************************************)
(* Arbitration: the bench, the ballots and the verdict.                    *)
(***************************************************************************)
USE ArbitrationAssumption

(***************************************************************************)
(* The verdict.                                                            *)
(***************************************************************************)

(* One outcome more is read.                                                *)
CountStep(votes, g, n) ==
    IF n = 0 THEN [winner |-> 0, weight |-> -1, tie |-> FALSE]
    ELSE IF votes[n] = 0 THEN g[n - 1]
    ELSE IF votes[n] > g[n - 1].weight
         THEN [winner |-> n, weight |-> votes[n], tie |-> FALSE]
    ELSE [g[n - 1] EXCEPT !.tie = @ \/ votes[n] = g[n - 1].weight]
Counts(votes, g) == g = [n \in 0 .. MaxOutcome |-> CountStep(votes, g, n)]

(* What the pass knows after the first n outcomes.                          *)
Standing(votes, n, c) ==
    /\ c \in [winner : 0 .. n, weight : Nat \cup {-1}, tie : BOOLEAN]
    /\ c.weight = -1 => c.winner = 0 /\ ~c.tie /\ \A o \in 1 .. n : votes[o] = 0
    /\ c.weight # -1 =>
          /\ c.winner \in 1 .. n /\ c.weight = votes[c.winner] /\ c.weight > 0
          /\ \A o \in 1 .. n : votes[o] <= c.weight
          /\ c.tie <=> \E o \in 1 .. n : o # c.winner /\ votes[o] = c.weight

(* One outcome more changes what is known the way the loop does.            *)
LEMMA StandingStep ==
    ASSUME NEW votes \in [Outcomes -> Nat], NEW n \in Nat, n + 1 \in Outcomes,
           NEW c, Standing(votes, n, c)
    PROVE  Standing(votes, n + 1,
              IF votes[n + 1] = 0 THEN c
              ELSE IF votes[n + 1] > c.weight
                   THEN [winner |-> n + 1, weight |-> votes[n + 1], tie |-> FALSE]
              ELSE [c EXCEPT !.tie = @ \/ votes[n + 1] = c.weight])
<1> DEFINE m == n + 1
<1>1. /\ c.winner \in 0 .. n /\ c.weight \in Nat \cup {-1} /\ c.tie \in BOOLEAN
      /\ c = [winner |-> c.winner, weight |-> c.weight, tie |-> c.tie]
  BY DEF Standing
<1>2. votes[m] \in Nat /\ \A o \in 1 .. n : votes[o] \in Nat /\ o \in 1 .. m /\ o # m
  <2>1. \A o \in 1 .. n : o \in Outcomes /\ o \in 1 .. m /\ o # m
    BY DEF Outcomes
  <2> QED
    BY <2>1
<1>3. \A o \in 1 .. m : o = m \/ o \in 1 .. n
  OBVIOUS
<1>4. m \in 1 .. m /\ m \in 0 .. m /\ \A w \in 0 .. n : w \in 0 .. m /\ w # m
  OBVIOUS
<1> HIDE DEF m
<1>5. CASE votes[m] = 0
  <2>1. c \in [winner : 0 .. m, weight : Nat \cup {-1}, tie : BOOLEAN]
    BY <1>1, <1>4
  <2>2. c.weight = -1 => c.winner = 0 /\ ~c.tie /\ \A o \in 1 .. m : votes[o] = 0
    BY <1>3, <1>5 DEF Standing
  <2>3. ASSUME c.weight # -1
        PROVE  /\ c.winner \in 1 .. m /\ c.weight = votes[c.winner] /\ c.weight > 0
               /\ \A o \in 1 .. m : votes[o] <= c.weight
               /\ c.tie <=> \E o \in 1 .. m : o # c.winner /\ votes[o] = c.weight
    <3>1. /\ c.winner \in 1 .. n /\ c.weight = votes[c.winner] /\ c.weight > 0
          /\ \A o \in 1 .. n : votes[o] <= c.weight
          /\ c.tie <=> \E o \in 1 .. n : o # c.winner /\ votes[o] = c.weight
      BY <2>3 DEF Standing
    <3>2. votes[m] <= c.weight /\ votes[m] # c.weight
      BY <1>1, <1>5, <3>1
    <3> QED
      BY <1>2, <1>3, <3>1, <3>2
  <2>4. Standing(votes, m, c)
    BY <2>1, <2>2, <2>3 DEF Standing
  <2> QED
    BY <1>5, <2>4 DEF m
<1>6. CASE votes[m] # 0 /\ votes[m] > c.weight
  <2> DEFINE new == [winner |-> m, weight |-> votes[m], tie |-> FALSE]
  <2>1. /\ new \in [winner : 0 .. m, weight : Nat \cup {-1}, tie : BOOLEAN]
        /\ new.winner = m /\ new.weight = votes[m] /\ ~new.tie
    BY <1>2, <1>4
  <2> HIDE DEF new
  <2>2. \A o \in 1 .. n : votes[o] < votes[m]
    <3>1. CASE c.weight = -1
      BY <1>2, <1>6, <3>1 DEF Standing
    <3>2. CASE c.weight # -1
      BY <1>1, <1>2, <1>6, <3>2 DEF Standing
    <3> QED
      BY <3>1, <3>2
  <2>3. /\ m \in 1 .. m /\ votes[m] > 0 /\ votes[m] # -1
        /\ \A o \in 1 .. m : votes[o] <= votes[m]
        /\ \A o \in 1 .. m : o # m => votes[o] # votes[m]
    BY <1>2, <1>3, <1>4, <1>6, <2>2
  <2>4. Standing(votes, m, new)
    BY <2>1, <2>3 DEF Standing
  <2> QED
    BY <1>6, <2>4 DEF m, new
<1>7. CASE votes[m] # 0 /\ ~(votes[m] > c.weight)
  <2> DEFINE new == [c EXCEPT !.tie = @ \/ votes[m] = c.weight]
  <2>1. /\ new \in [winner : 0 .. m, weight : Nat \cup {-1}, tie : BOOLEAN]
        /\ new.winner = c.winner /\ new.weight = c.weight
        /\ new.tie <=> c.tie \/ votes[m] = c.weight
    BY <1>1, <1>4
  <2> HIDE DEF new
  <2>2. c.weight # -1 /\ votes[m] <= c.weight
    BY <1>1, <1>2, <1>7
  <2>3. /\ c.winner \in 1 .. n /\ c.weight = votes[c.winner] /\ c.weight > 0
        /\ \A o \in 1 .. n : votes[o] <= c.weight
        /\ c.tie <=> \E o \in 1 .. n : o # c.winner /\ votes[o] = c.weight
    BY <2>2 DEF Standing
  <2>4. /\ c.winner \in 1 .. m /\ c.winner # m
        /\ \A o \in 1 .. m : votes[o] <= c.weight
    BY <1>2, <1>3, <2>2, <2>3
  <2>5. new.tie <=> \E o \in 1 .. m : o # c.winner /\ votes[o] = c.weight
    BY <1>2, <1>3, <1>4, <2>1, <2>3, <2>4
  <2>6. Standing(votes, m, new)
    BY <2>1, <2>2, <2>3, <2>4, <2>5 DEF Standing
  <2> QED
    BY <1>7, <2>6 DEF m, new
<1> QED
  BY <1>5, <1>6, <1>7

(* The loop has a result...                                                 *)
LEMMA CountExists ==
    ASSUME NEW votes \in [Outcomes -> Nat]
    PROVE  \E g : Counts(votes, g)
<1> DEFINE N == {n \in Nat : \E g : \A i \in 0 .. n : g[i] = CountStep(votes, g, i)}
<1>1. 0 \in N
  <2> DEFINE g == [i \in {0} |-> [winner |-> 0, weight |-> -1, tie |-> FALSE]]
  <2>1. \A i \in 0 .. 0 : g[i] = CountStep(votes, g, i)
    BY DEF CountStep
  <2> QED
    BY <2>1
<1>2. ASSUME NEW n \in Nat, n \in N PROVE n + 1 \in N
  <2>1. PICK g : \A i \in 0 .. n : g[i] = CountStep(votes, g, i)
    BY <1>2
  <2> DEFINE h == [i \in 0 .. n + 1 |-> IF i <= n THEN g[i] ELSE CountStep(votes, g, i)]
  <2>2. \A i \in 0 .. n : h[i] = g[i]
    OBVIOUS
  <2>3. h[n + 1] = CountStep(votes, g, n + 1)
    OBVIOUS
  <2> HIDE DEF h
  <2>4. ASSUME NEW i \in 0 .. n + 1 PROVE h[i] = CountStep(votes, h, i)
    <3>1. i # 0 => h[i - 1] = g[i - 1]
      BY <2>2
    <3>2. h[i] = CountStep(votes, g, i)
      <4>1. CASE i \in 0 .. n
        BY <4>1, <2>1, <2>2
      <4>2. CASE i = n + 1
        BY <4>2, <2>3
      <4> QED
        BY <4>1, <4>2
    <3> QED
      BY <3>1, <3>2 DEF CountStep
  <2> QED
    BY <2>4
<1>3. MaxOutcome \in N
  <2> HIDE DEF N
  <2> QED
    BY <1>1, <1>2, NumberInduction
<1>4. PICK g : \A i \in 0 .. MaxOutcome : g[i] = CountStep(votes, g, i)
  BY <1>3
<1> DEFINE h == [i \in 0 .. MaxOutcome |-> g[i]]
<1>5. \A i \in 0 .. MaxOutcome : CountStep(votes, h, i) = CountStep(votes, g, i)
  <2>1. \A i \in 0 .. MaxOutcome : i # 0 => h[i - 1] = g[i - 1]
    OBVIOUS
  <2> HIDE DEF h
  <2> QED
    BY <2>1 DEF CountStep
<1>6. h = [i \in 0 .. MaxOutcome |-> CountStep(votes, h, i)]
  BY <1>4, <1>5
<1> QED
  BY <1>6 DEF Counts

(* ...which is what stands after the last outcome.                          *)
LEMMA CountStands ==
    ASSUME NEW votes \in [Outcomes -> Nat]
    PROVE  Standing(votes, MaxOutcome, Count(votes))
<1> DEFINE g == CHOOSE g : Counts(votes, g)
<1>1. Count(votes) = g[MaxOutcome]
  BY Zenon DEF Count, Counts, CountStep
<1>2. Counts(votes, g)
  BY CountExists
<1> HIDE DEF g
<1>3. \A n \in 0 .. MaxOutcome : g[n] = CountStep(votes, g, n)
  BY <1>2 DEF Counts
<1> DEFINE N == {n \in Nat : n <= MaxOutcome => Standing(votes, n, g[n])}
<1>4. 0 \in N
  <2>1. g[0] = [winner |-> 0, weight |-> -1, tie |-> FALSE]
    <3>1. 0 \in 0 .. MaxOutcome
      OBVIOUS
    <3>2. g[0] = CountStep(votes, g, 0)
      BY <1>3, <3>1
    <3> QED
      BY <3>2, Zenon DEF CountStep
  <2>2. Standing(votes, 0, [winner |-> 0, weight |-> -1, tie |-> FALSE])
    BY DEF Standing
  <2> QED
    BY <2>1, <2>2
<1>5. ASSUME NEW n \in Nat, n \in N PROVE n + 1 \in N
  <2> SUFFICES ASSUME n + 1 <= MaxOutcome PROVE Standing(votes, n + 1, g[n + 1])
    OBVIOUS
  <2>1. n + 1 \in Outcomes /\ n <= MaxOutcome /\ n + 1 \in 0 .. MaxOutcome
        /\ n + 1 # 0 /\ (n + 1) - 1 = n
    BY DEF Outcomes
  <2>2. Standing(votes, n, g[n])
    BY <1>5, <2>1
  <2>3. g[n + 1] = IF votes[n + 1] = 0 THEN g[n]
                   ELSE IF votes[n + 1] > g[n].weight
                        THEN [winner |-> n + 1, weight |-> votes[n + 1], tie |-> FALSE]
                   ELSE [g[n] EXCEPT !.tie = @ \/ votes[n + 1] = g[n].weight]
    BY <1>3, <2>1 DEF CountStep
  <2> QED
    BY <2>1, <2>2, <2>3, StandingStep
<1> HIDE DEF N
<1>6. MaxOutcome \in N
  BY <1>4, <1>5, NumberInduction
<1> QED
  BY <1>1, <1>6 DEF N

(* One pass over the tallies finds the outcome that beats each other, and   *)
(* says so exactly when there is one.                                       *)
Beats(votes, o) == votes[o] > 0 /\ \A p \in Outcomes \ {o} : votes[p] < votes[o]

(* Hence the verdict read from the tallies is the outcome that beats all    *)
(* others.                                                                  *)
LEMMA VerdictOfTallies ==
    ASSUME NEW votes \in [Outcomes -> Nat]
    PROVE  /\ Count(votes).winner \in 0 .. MaxOutcome
           /\ ~Tied(Count(votes)) => /\ Count(votes).winner # 0
                                     /\ Beats(votes, Count(votes).winner)
           /\ Tied(Count(votes)) => \A o \in Outcomes : ~Beats(votes, o)
<1> DEFINE c == Count(votes)
<1>1. Standing(votes, MaxOutcome, c)
  BY CountStands
<1> HIDE DEF c
<1>2. c.winner \in 0 .. MaxOutcome /\ c.weight \in Nat \cup {-1} /\ c.tie \in BOOLEAN
  BY <1>1 DEF Standing
<1>3. \A o \in Outcomes : votes[o] \in Nat
  OBVIOUS
<1>4. CASE c.weight = -1
  <2>1. \A o \in Outcomes : votes[o] = 0
    BY <1>1, <1>4 DEF Standing, Outcomes
  <2>2. \A o \in Outcomes : ~Beats(votes, o)
    BY <2>1 DEF Beats
  <2>3. Tied(c)
    BY <1>4 DEF Tied
  <2> QED
    BY <1>2, <2>2, <2>3 DEF c
<1>5. CASE c.weight # -1
  <2>1. /\ c.winner \in Outcomes /\ c.weight = votes[c.winner] /\ c.weight > 0
        /\ \A o \in Outcomes : votes[o] <= c.weight
        /\ c.tie <=> \E o \in Outcomes : o # c.winner /\ votes[o] = c.weight
    BY <1>1, <1>5 DEF Standing, Outcomes
  <2>2. Tied(c) <=> c.tie
    BY <1>2, <1>5 DEF Tied
  <2>3. c.winner # 0
    BY <2>1 DEF Outcomes
  <2>4. ASSUME ~c.tie PROVE Beats(votes, c.winner)
    BY <1>3, <2>1, <2>4 DEF Beats
  <2>5. ASSUME c.tie, NEW o \in Outcomes PROVE ~Beats(votes, o)
    <3>1. PICK p \in Outcomes : p # c.winner /\ votes[p] = c.weight
      BY <2>1, <2>5
    <3>2. PICK q \in Outcomes \ {o} : votes[q] = c.weight
      BY <2>1, <3>1
    <3> QED
      BY <1>3, <2>1, <3>2 DEF Beats
  <2> QED
    BY <1>2, <2>2, <2>3, <2>4, <2>5 DEF c
<1> QED
  BY <1>4, <1>5

(***************************************************************************)
(* The bench.                                                              *)
(***************************************************************************)
(* The arbitrators registered, those with a weight.                         *)
BenchSet == {v \in Arbitrators : arbitrator[v] > 0}

(* The list holds them in order, each once.                                 *)
BenchInv ==
    /\ arbitrator \in [Arbitrators -> Nat]
    /\ arbitrators \in Seq(Arbitrators)
    /\ Lists(arbitrators, BenchSet)

(* register_arbitrator appends a newcomer only.                             *)
LEMMA BenchJoined ==
    ASSUME BenchInv, NEW v \in Arbitrators, NEW weight \in Weights,
           RegisterArbitrator(v, weight)
    PROVE  BenchInv'
<1>1. /\ weight \in Nat /\ weight > 0
      /\ arbitrator' = [arbitrator EXCEPT ![v] = weight]
      /\ arbitrators' = IF Contains(arbitrators, v) THEN arbitrators ELSE Append(arbitrators, v)
  BY DEF RegisterArbitrator
<1>2. /\ arbitrator \in [Arbitrators -> Nat] /\ arbitrators \in Seq(Arbitrators)
      /\ Lists(arbitrators, BenchSet)
  BY DEF BenchInv
<1>3. arbitrator' \in [Arbitrators -> Nat]
  BY <1>1, <1>2
<1>4. BenchSet' = BenchSet \cup {v}
  BY <1>1, <1>2 DEF BenchSet
<1>5. Contains(arbitrators, v) <=> v \in BenchSet
  BY <1>2, ListsContains
<1>6. CASE v \in BenchSet
  <2>1. arbitrators' = arbitrators
    BY <1>1, <1>5, <1>6
  <2>2. BenchSet' = BenchSet
    BY <1>4, <1>6
  <2> QED
    BY <1>2, <1>3, <2>1, <2>2 DEF BenchInv
<1>7. CASE v \notin BenchSet
  <2>1. arbitrators' = Append(arbitrators, v)
    BY <1>1, <1>5, <1>7
  <2>2. /\ Append(arbitrators, v) \in Seq(Arbitrators)
        /\ Lists(Append(arbitrators, v), BenchSet \cup {v})
    BY <1>2, <1>7, ListsAppend
  <2> QED
    BY <1>3, <1>4, <2>1, <2>2 DEF BenchInv
<1> QED
  BY <1>6, <1>7

(* unregister_arbitrator builds the list anew without the leaver.           *)
LEMMA BenchLeft ==
    ASSUME BenchInv, NEW v \in Arbitrators, UnregisterArbitrator(v)
    PROVE  BenchInv'
<1>1. /\ arbitrator' = [arbitrator EXCEPT ![v] = 0]
      /\ arbitrators' = Without(arbitrators, {v})
  BY DEF UnregisterArbitrator
<1>2. /\ arbitrator \in [Arbitrators -> Nat] /\ arbitrators \in Seq(Arbitrators)
      /\ Lists(arbitrators, BenchSet)
  BY DEF BenchInv
<1>3. arbitrator' \in [Arbitrators -> Nat]
  BY <1>1, <1>2
<1>4. BenchSet' = BenchSet \ {v}
  BY <1>1, <1>2 DEF BenchSet
<1>5. /\ Without(arbitrators, {v}) \in Seq(Arbitrators)
      /\ Lists(Without(arbitrators, {v}), BenchSet \ {v})
  BY <1>2, ListsWithout
<1> QED
  BY <1>1, <1>3, <1>4, <1>5 DEF BenchInv

(* Reading on from the cursor that each page gives.                         *)
BenchReader(limit, read) ==
    read = [cursor \in 0 .. Cardinality(Arbitrators) |->
              ArbitratorsPage(cursor, limit).members
                \o (IF ArbitratorsPage(cursor, limit).next = -1 THEN <<>>
                    ELSE read[ArbitratorsPage(cursor, limit).next])]

(* The page that a limit asks for, and where it ends.                       *)
BenchPageSize(limit) ==
    IF limit = 0 THEN DefaultBenchPage
    ELSE IF limit < MaxBenchPage THEN limit ELSE MaxBenchPage
BenchPageEnd(limit, o) ==
    IF o + BenchPageSize(limit) < Len(arbitrators) THEN o + BenchPageSize(limit)
    ELSE Len(arbitrators)

(* A page starts where its cursor is, or after where it would be.           *)
LEMMA BenchPage ==
    ASSUME arbitrators \in Seq(Arbitrators), NEW limit \in Nat, NEW o \in Nat
    PROVE  /\ o >= Len(arbitrators) =>
                 /\ ArbitratorsPage(o, limit).members = <<>>
                 /\ ArbitratorsPage(o, limit).next = -1
           /\ o < Len(arbitrators) =>
                 /\ BenchPageEnd(limit, o) \in o + 1 .. Len(arbitrators)
                 /\ ArbitratorsPage(o, limit).members
                       = SubSeq(arbitrators, o + 1, BenchPageEnd(limit, o))
                 /\ ArbitratorsPage(o, limit).next =
                       IF BenchPageEnd(limit, o) = Len(arbitrators) THEN -1
                       ELSE BenchPageEnd(limit, o)
<1> DEFINE n == Len(arbitrators)
           end == BenchPageEnd(limit, o)
<1>1. n \in Nat /\ BenchPageSize(limit) \in Nat /\ BenchPageSize(limit) >= 1
  BY DEF BenchPageSize
<1>2. ArbitratorsPage(o, limit) =
         IF o >= n THEN [members |-> <<>>, next |-> -1]
         ELSE [members |-> SubSeq(arbitrators, o + 1, end),
               next |-> IF end >= n THEN -1 ELSE end]
  BY Zenon DEF ArbitratorsPage, BenchPageEnd, BenchPageSize
<1>3. o < n => end \in o + 1 .. n
  BY <1>1 DEF BenchPageEnd
<1> HIDE DEF end
<1>4. o < n => ~(o >= n) /\ (end >= n <=> end = n)
  BY <1>1, <1>3
<1> QED
  BY <1>2, <1>3, <1>4 DEF end

(* So the pages cover the list, at any limit.                               *)
LEMMA BenchPagesCover ==
    ASSUME BenchInv, NEW limit \in Nat
    PROVE  /\ \E read : BenchReader(limit, read)
           /\ \A read : BenchReader(limit, read) => read[0] = arbitrators
<1> DEFINE n == Len(arbitrators)
           all == Cardinality(Arbitrators)
           end == [o \in 0 .. n |-> BenchPageEnd(limit, o)]
           page(o) == ArbitratorsPage(o, limit)
<1>1. arbitrators \in Seq(Arbitrators) /\ n \in Nat /\ all \in Nat /\ n <= all
  <2>1. IsFiniteSet(BenchSet) /\ Cardinality(BenchSet) = n
    BY ListsLen DEF BenchInv
  <2>2. BenchSet \subseteq Arbitrators
    BY DEF BenchSet
  <2>3. Cardinality(BenchSet) <= all /\ all \in Nat
    BY <2>2, FS_Subset, FS_CardinalityType
  <2> QED
    BY <2>1, <2>3 DEF BenchInv
<1>2. ASSUME NEW o \in 0 .. all, o >= n PROVE page(o).members = <<>> /\ page(o).next = -1
  BY <1>1, <1>2, BenchPage
<1>3. ASSUME NEW o \in 0 .. all, o < n
      PROVE  /\ end[o] \in o + 1 .. n
             /\ page(o).members = SubSeq(arbitrators, o + 1, end[o])
             /\ page(o).next = IF end[o] = n THEN -1 ELSE end[o]
  <2>1. o \in 0 .. n /\ o \in Nat
    BY <1>1, <1>3
  <2> QED
    BY <1>1, <1>3, <2>1, BenchPage
<1> HIDE DEF page, end
<1>4. \E read : BenchReader(limit, read)
  <2> DEFINE read == [o \in 0 .. all |-> IF o >= n THEN <<>> ELSE SubSeq(arbitrators, o + 1, n)]
  <2>1. ASSUME NEW o \in 0 .. all
        PROVE  read[o] = page(o).members \o (IF page(o).next = -1 THEN <<>> ELSE read[page(o).next])
    <3>1. CASE o >= n
      <4>1. page(o).members = <<>> /\ page(o).next = -1 /\ read[o] = <<>>
        BY <1>2, <3>1
      <4> QED
        BY <4>1
    <3>2. CASE o < n
      <4>1. /\ end[o] \in o + 1 .. n
            /\ page(o).members = SubSeq(arbitrators, o + 1, end[o])
            /\ page(o).next = IF end[o] = n THEN -1 ELSE end[o]
        BY <1>3, <3>2
      <4>2. o \in 0 .. n /\ end[o] \in o .. n /\ end[o] \in 0 .. all /\ end[o] # -1
            /\ ~(o >= n) /\ (end[o] # n => ~(end[o] >= n))
        BY <1>1, <3>2, <4>1
      <4>3. SubSeq(arbitrators, o + 1, n) = SubSeq(arbitrators, o + 1, end[o])
              \o (IF end[o] = n THEN <<>> ELSE SubSeq(arbitrators, end[o] + 1, n))
        BY <1>1, <4>2, PageAndRest
      <4>4. end[o] # n => read[end[o]] = SubSeq(arbitrators, end[o] + 1, n)
        BY <4>2
      <4>5. read[o] = SubSeq(arbitrators, o + 1, n)
        BY <4>2
      <4> HIDE DEF read
      <4> QED
        BY <4>1, <4>2, <4>3, <4>4, <4>5
    <3>3. o >= n \/ o < n
      BY <1>1
    <3> QED
      BY <3>1, <3>2, <3>3
  <2>2. BenchReader(limit, read)
    BY <2>1 DEF BenchReader, page
  <2> QED
    BY <2>2
<1>5. ASSUME NEW read, BenchReader(limit, read) PROVE read[0] = arbitrators
  <2>1. \A o \in 0 .. all :
           read[o] = page(o).members \o (IF page(o).next = -1 THEN <<>> ELSE read[page(o).next])
    BY <1>5 DEF BenchReader, page
  <2>2. ASSUME NEW o \in 0 .. n - 1
        PROVE  /\ end[o] \in o + 1 .. n
               /\ read[o] = SubSeq(arbitrators, o + 1, end[o])
                              \o (IF end[o] = n THEN <<>> ELSE read[end[o]])
    <3>1. o \in 0 .. all /\ o < n
      BY <1>1
    <3>2. /\ end[o] \in o + 1 .. n
          /\ page(o).members = SubSeq(arbitrators, o + 1, end[o])
          /\ page(o).next = IF end[o] = n THEN -1 ELSE end[o]
      BY <1>3, <3>1
    <3>3. end[o] # -1
      BY <3>1, <3>2
    <3> QED
      BY <2>1, <3>1, <3>2, <3>3
  <2>3. CASE n = 0
    <3>1. 0 \in 0 .. all /\ 0 >= n
      BY <1>1, <2>3
    <3>2. page(0).members = <<>> /\ page(0).next = -1
      BY <1>2, <3>1
    <3>3. arbitrators = <<>>
      BY <1>1, <2>3
    <3>4. read[0] = <<>> \o <<>>
      BY <2>1, <3>1, <3>2
    <3>5. <<>> \o <<>> = <<>>
      OBVIOUS
    <3> QED
      BY <3>3, <3>4, <3>5
  <2>4. CASE n # 0
    <3>1. 0 \in 0 .. n - 1
      BY <1>1, <2>4
    <3>2. arbitrators \in Seq(Arbitrators)
      BY <1>1
    <3>3. \A o \in 0 .. n - 1 : read[o] = SubSeq(arbitrators, o + 1, n)
      <4>1. PICK list, ends : list = arbitrators /\ ends = end
        OBVIOUS
      <4>2. /\ list \in Seq(Arbitrators)
            /\ \A o \in 0 .. Len(list) - 1 :
                  /\ ends[o] \in o + 1 .. Len(list)
                  /\ read[o] = SubSeq(list, o + 1, ends[o])
                                 \o (IF ends[o] = Len(list) THEN <<>> ELSE read[ends[o]])
        BY <2>2, <3>2, <4>1
      <4>3. \A o \in 0 .. Len(list) - 1 : read[o] = SubSeq(list, o + 1, Len(list))
        BY ONLY <4>2, PagesRead
      <4> QED
        BY <4>1, <4>3
    <3>4. read[0] = SubSeq(arbitrators, 1, n)
      BY <3>1, <3>3
    <3> QED
      BY <3>2, <3>4, SubSeqFull
  <2> QED
    BY <2>3, <2>4
<1> QED
  BY <1>4, <1>5

LEMMA BenchListed == BenchInv => BenchIsListed
<1> SUFFICES ASSUME BenchInv PROVE BenchIsListed
  OBVIOUS
<1>1. Lists(arbitrators, {v \in Arbitrators : arbitrator[v] > 0})
  BY DEF BenchInv, BenchSet
<1>2. ASSUME NEW limit \in 0 .. MaxBenchPage + 1
      PROVE  (CHOOSE read : BenchReader(limit, read))[0] = arbitrators
  <2>1. limit \in Nat
    OBVIOUS
  <2> QED
    BY <2>1, BenchPagesCover
<1> QED
  BY <1>1, <1>2 DEF BenchIsListed, BenchReader

(***************************************************************************)
(* The ballots.                                                            *)
(***************************************************************************)
(* The ballots of a dispute, those for an outcome, and their weight.        *)
Ballots == [voter : Arbitrators, outcome : Outcomes, weight : Nat]
CastFor(id, o) == {b \in ballots[id] : b.outcome = o}
WeightOf(S) == SumFunction([b \in S |-> b.weight])

(* What the contract stores of the votes.                                   *)
BallotsTyped ==
    /\ ballots \in [DisputeIds -> SUBSET Ballots]
    /\ voter_casted \in [DisputeIds -> SUBSET Arbitrators]
    /\ voter_counter \in [DisputeIds -> Nat]
    /\ dispute_votes \in [DisputeIds -> [Outcomes -> Nat]]

(* Who voted, how many they are, and what they gave each outcome.           *)
BallotsOf(id) ==
    /\ IsFiniteSet(ballots[id])
    /\ voter_casted[id] = {b.voter : b \in ballots[id]}
    /\ Cardinality(voter_casted[id]) = Cardinality(ballots[id])
    /\ voter_counter[id] = Cardinality(ballots[id])
    /\ \A o \in Outcomes : dispute_votes[id][o] = WeightOf(CastFor(id, o))

BallotsInv == BallotsTyped /\ \A id \in DisputeIds : BallotsOf(id)

(* A ballot more adds its weight.                                           *)
LEMMA WeightOfMore ==
    ASSUME NEW S, IsFiniteSet(S), NEW b, b \notin S, \A c \in S \cup {b} : c.weight \in Int
    PROVE  WeightOf(S \cup {b}) = WeightOf(S) + b.weight
<1> DEFINE w == [c \in S |-> c.weight]
           x == [c \in S \cup {b} |-> c.weight]
<1>1. /\ w \in [S -> Int] /\ x \in [S \cup {b} -> Int]
      /\ \A c \in S : x[c] = w[c]
      /\ x[b] = b.weight
  OBVIOUS
<1>2. PICK one, more : one = w /\ more = x
  OBVIOUS
<1> HIDE DEF w, x
<1>3. one \in [S -> Int] /\ more \in [S \cup {b} -> Int] /\ \A c \in S : more[c] = one[c]
  BY <1>1, <1>2
<1>4. SumFunction(more) = SumFunction(one) + more[b]
  BY ONLY IsFiniteSet(S), b \notin S, <1>3, SumExtend
<1> QED
  BY <1>1, <1>2, <1>4 DEF WeightOf, w, x

(* A dispute nobody voted on.                                               *)
LEMMA NoBallots ==
    ASSUME ballots = [id \in DisputeIds |-> {}], voter_casted = [id \in DisputeIds |-> {}],
           voter_counter = [id \in DisputeIds |-> 0],
           dispute_votes = [id \in DisputeIds |-> [o \in Outcomes |-> 0]]
    PROVE  BallotsInv
<1>1. BallotsTyped
  BY DEF BallotsTyped
<1>2. ASSUME NEW id \in DisputeIds PROVE BallotsOf(id)
  <2>1. ballots[id] = {} /\ voter_casted[id] = {} /\ voter_counter[id] = 0
    OBVIOUS
  <2>2. IsFiniteSet({}) /\ Cardinality({}) = 0
    BY FS_EmptySet
  <2>3. ASSUME NEW o \in Outcomes PROVE dispute_votes[id][o] = WeightOf(CastFor(id, o))
    <3>1. CastFor(id, o) = {}
      BY <2>1 DEF CastFor
    <3>2. WeightOf({}) = 0
      <4>1. DOMAIN [b \in {} |-> b.weight] = {}
        OBVIOUS
      <4> QED
        BY <4>1, SumEmpty DEF WeightOf, SumFunction
    <3>3. dispute_votes[id][o] = 0
      OBVIOUS
    <3> QED
      BY <3>1, <3>2, <3>3
  <2> QED
    BY <2>1, <2>2, <2>3 DEF BallotsOf
<1> QED
  BY <1>1, <1>2 DEF BallotsInv

(* vote adds one ballot, one voter, and the weight to one tally.            *)
LEMMA BallotCast ==
    ASSUME BallotsInv, arbitrator \in [Arbitrators -> Nat],
           NEW v \in Arbitrators, NEW id \in DisputeIds, NEW o \in Outcomes, CastVote(v, id, o)
    PROVE  BallotsInv'
<1> DEFINE b == [voter |-> v, outcome |-> o, weight |-> arbitrator[v]]
<1>1. /\ v \notin voter_casted[id]
      /\ voter_casted' = [voter_casted EXCEPT ![id] = @ \cup {v}]
      /\ voter_counter' = [voter_counter EXCEPT ![id] = @ + 1]
      /\ dispute_votes' = [dispute_votes EXCEPT ![id][o] = @ + arbitrator[v]]
      /\ ballots' = [ballots EXCEPT ![id] = @ \cup {b}]
  BY DEF CastVote, CanVote
<1>2. /\ b \in Ballots /\ b.voter = v /\ b.outcome = o /\ b.weight = arbitrator[v]
      /\ b.weight \in Nat
  BY DEF Ballots
<1> DEFINE votes == [dispute_votes[id] EXCEPT ![o] = @ + arbitrator[v]]
<1>3. /\ dispute_votes' = [dispute_votes EXCEPT ![id] = votes]
      /\ BallotsTyped /\ \A i \in DisputeIds : BallotsOf(i)
  BY <1>1 DEF BallotsInv
<1>4. /\ votes \in [Outcomes -> Nat] /\ votes[o] = dispute_votes[id][o] + b.weight
      /\ \A p \in Outcomes \ {o} : votes[p] = dispute_votes[id][p]
  BY <1>2, <1>3 DEF BallotsTyped
<1>5. PICK ballot : ballot = b
  OBVIOUS
<1>6. PICK tally : tally = votes
  OBVIOUS
<1> HIDE DEF b, votes
<1>7. /\ ballots'[id] = ballots[id] \cup {ballot}
      /\ voter_casted'[id] = voter_casted[id] \cup {v}
      /\ voter_counter'[id] = voter_counter[id] + 1
      /\ dispute_votes'[id] = tally
  BY <1>1, <1>3, <1>5, <1>6 DEF BallotsTyped
<1>8. ASSUME NEW i \in DisputeIds, i # id
      PROVE  /\ ballots'[i] = ballots[i] /\ voter_casted'[i] = voter_casted[i]
             /\ voter_counter'[i] = voter_counter[i] /\ dispute_votes'[i] = dispute_votes[i]
  BY <1>1, <1>3, <1>8 DEF BallotsTyped
<1>9. BallotsTyped'
  <2>1. ballots' \in [DisputeIds -> SUBSET Ballots]
    BY <1>1, <1>2, <1>3 DEF BallotsTyped
  <2>2. voter_casted' \in [DisputeIds -> SUBSET Arbitrators]
    BY <1>1, <1>3 DEF BallotsTyped
  <2>3. voter_counter' \in [DisputeIds -> Nat]
    BY <1>1, <1>3 DEF BallotsTyped
  <2>4. dispute_votes' \in [DisputeIds -> [Outcomes -> Nat]]
    BY <1>3, <1>4 DEF BallotsTyped
  <2> QED
    BY <2>1, <2>2, <2>3, <2>4 DEF BallotsTyped
<1>10. BallotsOf(id)
  BY <1>3
<1>11. ballot \notin ballots[id]
  BY <1>1, <1>2, <1>5, <1>10 DEF BallotsOf
<1>12. /\ IsFiniteSet(ballots'[id])
       /\ Cardinality(ballots'[id]) = Cardinality(ballots[id]) + 1
  <2>1. IsFiniteSet(ballots[id])
    BY <1>10 DEF BallotsOf
  <2>2. /\ IsFiniteSet(ballots[id] \cup {ballot})
        /\ Cardinality(ballots[id] \cup {ballot}) = Cardinality(ballots[id]) + 1
    BY <1>11, <2>1, FS_AddElement
  <2> QED
    BY <1>7, <2>2
<1>13. Cardinality(voter_casted'[id]) = Cardinality(voter_casted[id]) + 1
  <2>1. IsFiniteSet(voter_casted[id])
    BY <1>3, FS_Subset DEF BallotsTyped
  <2> QED
    BY <1>1, <1>7, <2>1, FS_AddElement
<1>14. voter_casted'[id] = {c.voter : c \in ballots'[id]}
  BY <1>2, <1>5, <1>7, <1>10 DEF BallotsOf
<1>15. ASSUME NEW p \in Outcomes PROVE dispute_votes'[id][p] = WeightOf(CastFor(id, p)')
  <2>1. dispute_votes[id][p] = WeightOf(CastFor(id, p))
    BY <1>10 DEF BallotsOf
  <2>2. CASE p = o
    <3>1. /\ CastFor(id, o)' = CastFor(id, o) \cup {ballot}
          /\ ballot \notin CastFor(id, o)
      BY <1>2, <1>5, <1>7, <1>11 DEF CastFor
    <3>2. /\ IsFiniteSet(CastFor(id, o))
          /\ \A c \in CastFor(id, o) \cup {ballot} : c.weight \in Int
      <4>1. CastFor(id, o) \subseteq ballots[id] /\ ballots[id] \subseteq Ballots
        BY <1>3 DEF CastFor, BallotsTyped
      <4>2. \A c \in Ballots : c.weight \in Int
        BY DEF Ballots
      <4> QED
        BY <1>2, <1>5, <1>10, <4>1, <4>2, FS_Subset DEF BallotsOf
    <3>3. PICK S : S = CastFor(id, o)
      OBVIOUS
    <3>4. /\ IsFiniteSet(S) /\ ballot \notin S
          /\ \A c \in S \cup {ballot} : c.weight \in Int
      BY <3>1, <3>2, <3>3
    <3>5. WeightOf(S \cup {ballot}) = WeightOf(S) + ballot.weight
      BY <3>4, WeightOfMore
    <3> QED
      BY <1>2, <1>4, <1>5, <1>6, <1>7, <2>1, <2>2, <3>1, <3>3, <3>5
  <2>3. CASE p # o
    <3>1. CastFor(id, p)' = CastFor(id, p)
      BY <1>2, <1>5, <1>7, <2>3 DEF CastFor
    <3> QED
      BY <1>4, <1>6, <1>7, <2>1, <2>3, <3>1
  <2> QED
    BY <2>2, <2>3
<1>16. BallotsOf(id)'
  <2>1. voter_counter'[id] = Cardinality(ballots'[id])
    BY <1>7, <1>10, <1>12 DEF BallotsOf
  <2>2. Cardinality(voter_casted'[id]) = Cardinality(ballots'[id])
    BY <1>10, <1>12, <1>13 DEF BallotsOf
  <2>3. \A p \in Outcomes : dispute_votes'[id][p] = WeightOf(CastFor(id, p)')
    BY <1>15
  <2> QED
    BY <1>12, <1>14, <2>1, <2>2, <2>3 DEF BallotsOf, WeightOf
<1>17. ASSUME NEW i \in DisputeIds, i # id PROVE BallotsOf(i)'
  <2>1. /\ ballots'[i] = ballots[i] /\ voter_casted'[i] = voter_casted[i]
        /\ voter_counter'[i] = voter_counter[i] /\ dispute_votes'[i] = dispute_votes[i]
    BY <1>8, <1>17
  <2>2. \A p : CastFor(i, p)' = CastFor(i, p)
    BY <2>1 DEF CastFor
  <2>3. BallotsOf(i)
    BY <1>3
  <2> QED
    BY <2>1, <2>2, <2>3 DEF BallotsOf, WeightOf
<1> QED
  BY <1>9, <1>16, <1>17 DEF BallotsInv

(***************************************************************************)
(* The contract.                                                           *)
(***************************************************************************)
(* A resolved dispute has the outcome that its tallies decide.              *)
VerdictOf(id) == dispute[id] # NoDispute =>
    /\ dispute[id].status = "Resolved" =>
          dispute[id].outcome # 0 /\ Beats(dispute_votes[id], dispute[id].outcome)
    /\ dispute[id].status = "Tied" =>
          dispute[id].outcome = 0 /\ \A o \in Outcomes : ~Beats(dispute_votes[id], o)
    /\ dispute[id].status \in {"Resolved", "Tied"} => now > dispute[id].voting_end

(* What the contract stores of the disputes.                                *)
DisputesTyped == dispute \in [DisputeIds -> Disputes \cup {NoDispute}] /\ now \in Nat

ArbitrationInv ==
    /\ BenchInv /\ BallotsInv /\ DisputesTyped
    /\ \A id \in DisputeIds : VerdictOf(id)

LEMMA ArbitrationStarts == LedgerInit /\ ArbitrationInit => ArbitrationInv
<1> SUFFICES ASSUME LedgerInit, ArbitrationInit PROVE ArbitrationInv
  OBVIOUS
<1>1. BenchInv
  <2>1. BenchSet = {}
    BY DEF BenchSet, ArbitrationInit
  <2> QED
    BY <2>1, ListsEmpty DEF BenchInv, ArbitrationInit
<1>2. BallotsInv
  BY NoBallots DEF ArbitrationInit
<1>3. DisputesTyped /\ \A id \in DisputeIds : dispute[id] = NoDispute
  BY DEF DisputesTyped, ArbitrationInit, LedgerInit
<1> QED
  BY <1>1, <1>2, <1>3 DEF ArbitrationInv, VerdictOf

(* A verdict outlives whatever leaves it and its tallies alone.             *)
LEMMA VerdictOutlives ==
    ASSUME ArbitrationInv, NEW id \in DisputeIds, dispute'[id] = dispute[id],
           \/ dispute_votes'[id] = dispute_votes[id]
           \/ dispute[id].status = "Voting",
           now' \in Nat, now <= now'
    PROVE  VerdictOf(id)'
<1>1. VerdictOf(id) /\ now \in Nat
  BY DEF ArbitrationInv, DisputesTyped
<1>2. dispute[id] # NoDispute => dispute[id].voting_end \in Nat
  BY DEF ArbitrationInv, DisputesTyped, Disputes
<1>3. CASE dispute_votes'[id] = dispute_votes[id]
  BY <1>1, <1>2, <1>3 DEF VerdictOf
<1>4. CASE dispute[id].status = "Voting"
  BY <1>4 DEF VerdictOf
<1> QED
  BY <1>3, <1>4

(* A dispute without votes has no verdict.                                  *)
LEMMA NothingDecided ==
    ASSUME ArbitrationInv, UNCHANGED <<dispute, votesVars>>, now' \in Nat, now <= now', BenchInv'
    PROVE  ArbitrationInv'
<1>1. /\ dispute' = dispute /\ dispute_votes' = dispute_votes /\ ballots' = ballots
      /\ voter_casted' = voter_casted /\ voter_counter' = voter_counter
  BY DEF votesVars
<1>2. BallotsInv'
  BY <1>1 DEF ArbitrationInv, BallotsInv, BallotsTyped, BallotsOf, CastFor
<1>3. DisputesTyped'
  BY <1>1 DEF ArbitrationInv, DisputesTyped
<1>4. \A id \in DisputeIds : VerdictOf(id)'
  BY <1>1, VerdictOutlives
<1> QED
  BY <1>2, <1>3, <1>4 DEF ArbitrationInv

(* A new status for one dispute, with its ballots as they are.              *)
LEMMA DisputeSet ==
    ASSUME ArbitrationInv, NEW id \in DisputeIds, NEW d \in Disputes,
           dispute' = [dispute EXCEPT ![id] = d],
           UNCHANGED <<now, benchVars, votesVars>>,
           /\ d.status = "Resolved" => d.outcome # 0 /\ Beats(dispute_votes[id], d.outcome)
           /\ d.status = "Tied" => d.outcome = 0 /\ \A o \in Outcomes : ~Beats(dispute_votes[id], o)
           /\ d.status \in {"Resolved", "Tied"} => now > d.voting_end
    PROVE  ArbitrationInv'
<1>1. /\ now' = now /\ arbitrator' = arbitrator /\ arbitrators' = arbitrators
      /\ dispute_votes' = dispute_votes /\ ballots' = ballots
      /\ voter_casted' = voter_casted /\ voter_counter' = voter_counter
  BY DEF votesVars, benchVars
<1>2. /\ dispute'[id] = d
      /\ \A i \in DisputeIds \ {id} : dispute'[i] = dispute[i]
      /\ dispute' \in [DisputeIds -> Disputes \cup {NoDispute}]
      /\ now \in Nat /\ now <= now
  BY DEF ArbitrationInv, DisputesTyped
<1>3. BenchInv'
  BY <1>1 DEF ArbitrationInv, BenchInv, BenchSet
<1>4. BallotsInv'
  BY <1>1 DEF ArbitrationInv, BallotsInv, BallotsTyped, BallotsOf, CastFor
<1>5. DisputesTyped'
  BY <1>1, <1>2 DEF DisputesTyped
<1>6. VerdictOf(id)'
  BY <1>1, <1>2 DEF VerdictOf
<1>7. \A i \in DisputeIds \ {id} : VerdictOf(i)'
  BY <1>1, <1>2, VerdictOutlives
<1> QED
  BY <1>3, <1>4, <1>5, <1>6, <1>7 DEF ArbitrationInv

(* create_dispute, under the next identifier.                               *)
LEMMA DisputeOpened ==
    ASSUME ArbitrationInv, NEW c \in Creators, NEW duration \in Windows,
           CreateDispute(c, duration), UNCHANGED now, dispute_counter \in Nat
    PROVE  ArbitrationInv'
<1> DEFINE d == [creator |-> c, voting_end |-> now + duration, status |-> "Voting", outcome |-> 0]
<1>1. PICK new : new = d
  OBVIOUS
<1>2. /\ dispute_counter < MaxDisputes /\ dispute' = [dispute EXCEPT ![dispute_counter] = new]
      /\ UNCHANGED <<now, benchVars, votesVars>>
  BY <1>1 DEF CreateDispute
<1>3. new \in Disputes /\ new.status = "Voting"
  <2>1. now + duration \in Nat /\ 0 \in 0 .. MaxOutcome
    BY DEF ArbitrationInv, DisputesTyped
  <2> QED
    BY <1>1, <2>1 DEF Disputes, DisputeStatuses
<1>4. dispute_counter \in DisputeIds
  BY <1>2 DEF DisputeIds
<1> HIDE DEF d
<1>5. PICK id \in DisputeIds : id = dispute_counter
  BY <1>4
<1>6. dispute' = [dispute EXCEPT ![id] = new]
  BY <1>2, <1>5
<1> QED
  BY <1>2, <1>3, <1>6, DisputeSet

(* cancel_dispute, of an open one.                                          *)
LEMMA DisputeCancelled ==
    ASSUME ArbitrationInv, NEW c, NEW id \in DisputeIds, CancelDispute(c, id), UNCHANGED now
    PROVE  ArbitrationInv'
<1> DEFINE d == [dispute[id] EXCEPT !.status = "Cancelled"]
<1>1. PICK new : new = d
  OBVIOUS
<1>2. /\ dispute[id] # NoDispute /\ dispute' = [dispute EXCEPT ![id] = new]
      /\ UNCHANGED <<now, benchVars, votesVars>>
  BY <1>1 DEF CancelDispute
<1>3. new \in Disputes /\ new.status = "Cancelled"
  <2>1. dispute[id] \in Disputes
    BY <1>2 DEF ArbitrationInv, DisputesTyped
  <2> QED
    BY <1>1, <2>1 DEF Disputes, DisputeStatuses
<1> QED
  BY <1>2, <1>3, DisputeSet

(* resolve_dispute writes the verdict of the tallies.                       *)
LEMMA DisputeResolved ==
    ASSUME ArbitrationInv, NEW id \in DisputeIds, ResolveDispute(id), UNCHANGED now
    PROVE  ArbitrationInv'
<1> DEFINE votes == dispute_votes[id]
           d == [dispute[id] EXCEPT
                   !.status = IF Tied(Count(votes)) THEN "Tied" ELSE "Resolved",
                   !.outcome = IF Tied(Count(votes)) THEN 0 ELSE Count(votes).winner]
<1>1. PICK new : new = d
  OBVIOUS
<1>2. /\ dispute[id] # NoDispute /\ now > dispute[id].voting_end
      /\ dispute' = [dispute EXCEPT ![id] = d]
      /\ UNCHANGED <<now, benchVars, votesVars>>
  BY DEF ResolveDispute
<1>3. votes \in [Outcomes -> Nat]
  BY DEF ArbitrationInv, BallotsInv, BallotsTyped
<1>4. PICK count : count = Count(votes)
  OBVIOUS
<1>5. /\ count.winner \in 0 .. MaxOutcome
      /\ ~Tied(count) => count.winner # 0 /\ Beats(votes, count.winner)
      /\ Tied(count) => \A o \in Outcomes : ~Beats(votes, o)
  BY <1>3, <1>4, VerdictOfTallies
<1>6. dispute[id] \in Disputes /\ 0 \in 0 .. MaxOutcome
  BY <1>2 DEF ArbitrationInv, DisputesTyped
<1>7. /\ new \in Disputes /\ new.voting_end = dispute[id].voting_end
      /\ new.status = IF Tied(count) THEN "Tied" ELSE "Resolved"
      /\ new.outcome = IF Tied(count) THEN 0 ELSE count.winner
  BY <1>1, <1>4, <1>5, <1>6 DEF Disputes, DisputeStatuses
<1>8. dispute' = [dispute EXCEPT ![id] = new]
  BY <1>1, <1>2
<1> HIDE DEF d
<1>9. /\ new.status = "Resolved" => new.outcome # 0 /\ Beats(dispute_votes[id], new.outcome)
      /\ new.status = "Tied" => /\ new.outcome = 0
                                /\ \A o \in Outcomes : ~Beats(dispute_votes[id], o)
      /\ new.status \in {"Resolved", "Tied"} => now > new.voting_end
  <2>1. CASE Tied(count)
    BY <1>2, <1>5, <1>7, <2>1
  <2>2. CASE ~Tied(count)
    BY <1>2, <1>5, <1>7, <2>2
  <2> QED
    BY <2>1, <2>2
<1> QED
  BY <1>2, <1>7, <1>8, <1>9, DisputeSet

(* vote, on a dispute that is still open.                                   *)
LEMMA VoteTaken ==
    ASSUME ArbitrationInv, NEW v \in Arbitrators, NEW id \in DisputeIds, NEW o \in Outcomes,
           CastVote(v, id, o), UNCHANGED now
    PROVE  ArbitrationInv'
<1>1. /\ UNCHANGED <<now, benchVars, dispute>>
      /\ dispute[id].status = "Voting"
      /\ dispute_votes' = [dispute_votes EXCEPT ![id][o] = @ + arbitrator[v]]
  BY DEF CastVote, CanVote
<1>2. BallotsInv'
  BY BallotCast DEF ArbitrationInv, BenchInv
<1>3. BenchInv' /\ DisputesTyped' /\ now' \in Nat /\ now <= now'
  BY <1>1 DEF ArbitrationInv, BenchInv, BenchSet, DisputesTyped, benchVars
<1>4. ASSUME NEW i \in DisputeIds PROVE VerdictOf(i)'
  <2>1. dispute'[i] = dispute[i]
    BY <1>1
  <2>2. i # id => dispute_votes'[i] = dispute_votes[i]
    BY <1>1 DEF ArbitrationInv, BallotsInv, BallotsTyped
  <2> QED
    BY <1>1, <1>3, <2>1, <2>2, VerdictOutlives
<1> QED
  BY <1>2, <1>3, <1>4 DEF ArbitrationInv

(* Every entry point, and the clock, keeps all of it.                       *)
LEMMA ArbitrationKeeps ==
    ASSUME ArbitrationInv, dispute_counter \in Nat, ArbitrationNext, UNCHANGED now
    PROVE  ArbitrationInv' /\ dispute_counter' \in Nat
<1>1. now' \in Nat /\ now <= now'
  BY DEF ArbitrationInv, DisputesTyped
<1>2. (UNCHANGED benchVars) => BenchInv'
  BY DEF ArbitrationInv, BenchInv, BenchSet, benchVars
<1>3. ASSUME NEW a \in ArbitrationAdmins, ArbitrationInitialize(a)
      PROVE  ArbitrationInv' /\ dispute_counter' \in Nat
  BY <1>1, <1>2, <1>3, NothingDecided DEF ArbitrationInitialize
<1>4. ASSUME NEW v \in Arbitrators, NEW weight \in Weights, RegisterArbitrator(v, weight)
      PROVE  ArbitrationInv' /\ dispute_counter' \in Nat
  <2>1. BenchInv'
    BY <1>4, BenchJoined DEF ArbitrationInv
  <2> QED
    BY <1>1, <1>4, <2>1, NothingDecided DEF RegisterArbitrator
<1>5. ASSUME NEW v \in Arbitrators, UnregisterArbitrator(v)
      PROVE  ArbitrationInv' /\ dispute_counter' \in Nat
  <2>1. BenchInv'
    BY <1>5, BenchLeft DEF ArbitrationInv
  <2> QED
    BY <1>1, <1>5, <2>1, NothingDecided DEF UnregisterArbitrator
<1>6. ASSUME NEW q \in Quorums, SetQuorum(q)
      PROVE  ArbitrationInv' /\ dispute_counter' \in Nat
  BY <1>1, <1>2, <1>6, NothingDecided DEF SetQuorum
<1>7. ASSUME NEW c \in Creators, NEW duration \in Windows, CreateDispute(c, duration)
      PROVE  ArbitrationInv' /\ dispute_counter' \in Nat
  <2>1. dispute_counter' \in Nat
    BY <1>7 DEF CreateDispute
  <2> QED
    BY <1>7, <2>1, DisputeOpened
<1>8. ASSUME NEW c, NEW id \in DisputeIds, CancelDispute(c, id)
      PROVE  ArbitrationInv' /\ dispute_counter' \in Nat
  BY <1>8, DisputeCancelled DEF CancelDispute
<1>9. ASSUME NEW v \in Arbitrators, NEW id \in DisputeIds, NEW o \in Outcomes, CastVote(v, id, o)
      PROVE  ArbitrationInv' /\ dispute_counter' \in Nat
  BY <1>9, VoteTaken DEF CastVote
<1>10. ASSUME NEW id \in DisputeIds, ResolveDispute(id)
       PROVE  ArbitrationInv' /\ dispute_counter' \in Nat
  BY <1>10, DisputeResolved DEF ResolveDispute
<1>11. ASSUME ArbitrationSwitchPause
       PROVE  ArbitrationInv' /\ dispute_counter' \in Nat
  BY <1>1, <1>2, <1>11, NothingDecided DEF ArbitrationSwitchPause
<1> QED
  BY <1>3, <1>4, <1>5, <1>6, <1>7, <1>8, <1>9, <1>10, <1>11 DEF ArbitrationNext

(* The bench, the ballots and the verdicts stay right through every call of *)
(* arbitration/src/lib.rs and every closing ledger.                         *)
THEOREM ArbitrationInvariant == ArbitrationSpec => [](ArbitrationInv /\ dispute_counter \in Nat)
<1>1. LedgerInit /\ ArbitrationInit => ArbitrationInv /\ dispute_counter \in Nat
  BY ArbitrationStarts DEF ArbitrationInit
<1>2. ArbitrationInv /\ dispute_counter \in Nat
      /\ [\/ ArbitrationNext /\ UNCHANGED now
          \/ Tick /\ UNCHANGED arbitrationVars]_<<now, arbitrationVars>>
        => (ArbitrationInv /\ dispute_counter \in Nat)'
  <2> SUFFICES ASSUME ArbitrationInv, dispute_counter \in Nat,
                      [\/ ArbitrationNext /\ UNCHANGED now
                       \/ Tick /\ UNCHANGED arbitrationVars]_<<now, arbitrationVars>>
               PROVE  ArbitrationInv' /\ dispute_counter' \in Nat
    OBVIOUS
  <2>1. CASE ArbitrationNext /\ UNCHANGED now
    BY <2>1, ArbitrationKeeps
  <2>2. ASSUME now' \in Nat, now <= now', UNCHANGED arbitrationVars
        PROVE  ArbitrationInv' /\ dispute_counter' \in Nat
    <3>1. UNCHANGED <<dispute, votesVars>> /\ dispute_counter' = dispute_counter
      BY <2>2 DEF arbitrationVars
    <3>2. BenchInv'
      BY <2>2 DEF ArbitrationInv, BenchInv, BenchSet, arbitrationVars, benchVars
    <3> QED
      BY <2>2, <3>1, <3>2, NothingDecided
  <2>3. CASE Tick /\ UNCHANGED arbitrationVars
    BY <2>2, <2>3 DEF Tick, ArbitrationInv, DisputesTyped
  <2>4. CASE UNCHANGED <<now, arbitrationVars>>
    BY <2>2, <2>4 DEF ArbitrationInv, DisputesTyped
  <2> QED
    BY <2>1, <2>3, <2>4
<1> QED
  BY <1>1, <1>2, PTL DEF ArbitrationSpec

(* The list of arbitrators that get_arbitrators pages through has exactly   *)
(* the registered ones, in registration order and each once, and the pages  *)
(* cover it at any limit.                                                   *)
THEOREM BenchKept == ArbitrationSpec => []BenchIsListed
<1>1. ArbitrationInv => BenchIsListed
  BY BenchListed DEF ArbitrationInv
<1> QED
  BY <1>1, ArbitrationInvariant, PTL

(* vote: every arbitrator has at most one ballot in a dispute and the       *)
(* tallies are the weights of the ballots, whatever happens to his weight   *)
(* after he voted.                                                          *)
THEOREM BallotsKept == ArbitrationSpec => []OneBallotEach
<1>1. ArbitrationInv => OneBallotEach
  <2> SUFFICES ASSUME ArbitrationInv, NEW id \in DisputeIds
               PROVE  /\ Cardinality({b.voter : b \in ballots[id]}) = Cardinality(ballots[id])
                      /\ voter_counter[id] = Cardinality(ballots[id])
                      /\ \A o \in Outcomes :
                            dispute_votes[id][o]
                              = SumFunction([b \in {c \in ballots[id] : c.outcome = o} |-> b.weight])
    BY Zenon DEF OneBallotEach
  <2>1. BallotsOf(id)
    BY DEF ArbitrationInv, BallotsInv
  <2> QED
    BY <2>1 DEF BallotsOf, WeightOf, CastFor
<1> QED
  BY <1>1, ArbitrationInvariant, PTL

(* resolve_dispute: the outcome stored is the one that the tallies decide   *)
(* and stays so, for any number of outcomes and any weights.                *)
THEOREM VerdictStandsKept == ArbitrationSpec => []VerdictStands
<1>1. ArbitrationInv => VerdictStands
  <2> SUFFICES ASSUME ArbitrationInv PROVE VerdictStands
    OBVIOUS
  <2>1. \A id \in DisputeIds : VerdictOf(id)
    BY DEF ArbitrationInv
  <2> QED
    BY <2>1, Zenon DEF VerdictStands, VerdictOf, Beats
<1> QED
  BY <1>1, ArbitrationInvariant, PTL

HIDE ArbitrationAssumption

-----------------------------------------------------------------------------
(***************************************************************************)
(* The contracts together: each behaves as if it were alone on the ledger. *)
(***************************************************************************)
(* A step of MCContracts is the passing of time or a step of one contract,  *)
(* and leaves the storage of every other one as it was.                     *)
LEMMA OneMovesAtATime ==
    ASSUME [Next]_vars
    PROVE  \/ Tick /\ UNCHANGED <<adminVars, registryVars, arbitrationVars, upgradeVars,
                                  AttestingVars, governanceVars,
                                  evidenceVars, drainVars>>
           \/ /\ UNCHANGED now
              /\ AdminNext \/ UNCHANGED adminVars
              /\ RegistryNext \/ UNCHANGED registryVars
              /\ ArbitrationNext \/ UNCHANGED arbitrationVars
              /\ UpgradeNext \/ UNCHANGED upgradeVars
              /\ AttestingNext \/ UNCHANGED AttestingVars
              /\ GovernanceNext \/ UNCHANGED governanceVars
              /\ EvidenceNext \/ UNCHANGED evidenceVars
              /\ DrainNext \/ UNCHANGED drainVars
BY Zenon DEF Next, vars

(* These parts share the ledger and nothing else (no key of one is read or  *)
(* written by another; the attestations and the verifiers, which do share   *)
(* keys, are one part): whatever the others do between its calls, the       *)
(* storage of each goes through a behaviour of that part alone, so what is  *)
(* proved of it alone holds of all of them together.                        *)
THEOREM EachContractAlone ==
    Spec => /\ AdminSpec /\ RegistrySpec /\ ArbitrationSpec /\ UpgradeSpec
            /\ AttestingSpec /\ GovernanceSpec /\ EvidenceSpec /\ DrainSpec
<1>1. Init => /\ LedgerInit /\ AdminInit /\ RegistryInit /\ ArbitrationInit /\ UpgradeInit
              /\ AttestingInit /\ GovernanceInit /\ EvidenceInit /\ DrainInit
  BY DEF Init
<1>2. [Next]_vars
        => [(AdminNext /\ UNCHANGED now) \/ (Tick /\ UNCHANGED adminVars)]_<<now, adminVars>>
  BY OneMovesAtATime, Zenon
<1>3. [Next]_vars
        => [(RegistryNext /\ UNCHANGED now) \/ (Tick /\ UNCHANGED registryVars)]_<<now, registryVars>>
  BY OneMovesAtATime, Zenon
<1>4. [Next]_vars
        => [\/ ArbitrationNext /\ UNCHANGED now
            \/ Tick /\ UNCHANGED arbitrationVars]_<<now, arbitrationVars>>
  BY OneMovesAtATime, Zenon
<1>5. [Next]_vars
        => [(UpgradeNext /\ UNCHANGED now) \/ (Tick /\ UNCHANGED upgradeVars)]_<<now, upgradeVars>>
  BY OneMovesAtATime, Zenon
<1>6. [Next]_vars
        => [(DrainNext /\ UNCHANGED now) \/ (Tick /\ UNCHANGED drainVars)]_<<now, drainVars>>
  BY OneMovesAtATime, Zenon
<1>7. [Next]_vars => /\ [AttestingNext]_AttestingVars
                     /\ [GovernanceNext]_governanceVars /\ [EvidenceNext]_evidenceVars
  BY OneMovesAtATime, Zenon
<1> QED
  BY <1>1, <1>2, <1>3, <1>4, <1>5, <1>6, <1>7, PTL
  DEF Spec, AdminSpec, RegistrySpec, ArbitrationSpec, UpgradeSpec, AttestingSpec,
      GovernanceSpec, EvidenceSpec, DrainSpec
=============================================================================
