------------------------------ MODULE Registry ------------------------------
(***************************************************************************)
(* credence_registry: which bond contract belongs to which identity.  The  *)
(* binding is kept in both directions, and the identities also in a list   *)
(* that readers fetch in pages.                                            *)
(*                                                                         *)
(* What a bond contract answers to supports_interface and to               *)
(* get_contract_code_hash is a property of the contract: Supporting and    *)
(* CodeHash.  The calls of the admin carry no argument for it: the stored  *)
(* admin signs.  The pause may flip at any time (see module Pausable).     *)
(***************************************************************************)
EXTENDS LedgerClock

CONSTANTS
    RegistryAdmins, NoRegistryAdmin,   \* holders of DataKey::Admin; absent
    Identities, NoIdentity,            \* keys of IdentityToBond; absent
    BondContracts, NoBondContract,     \* addresses of bond contracts; absent
    Supporting,                        \* those that implement the interface
    CodeHashes, NoCodeHash,            \* values of DataKey::BondCodeHash; empty
    CodeHash,                          \* of each bond contract
    MaxPage,                           \* MAX_IDENTITIES_PAGE_SIZE
    PageLimits                         \* arguments limit

NoEntry == [bond |-> NoBondContract, active |-> FALSE]
Entries == [bond : BondContracts, active : BOOLEAN]

ASSUME RegistryAssumption ==
    /\ NoRegistryAdmin \notin RegistryAdmins /\ NoIdentity \notin Identities
    /\ NoBondContract \notin BondContracts /\ NoCodeHash \notin CodeHashes
    /\ IsFiniteSet(Identities)
    /\ Supporting \subseteq BondContracts /\ CodeHash \in [BondContracts -> CodeHashes]
    /\ MaxPage \in Nat \ {0} /\ PageLimits \subseteq Nat

VARIABLES
    registry_admin,     \* DataKey::Admin
    registry_paused,    \* DataKey::Paused
    identity_to_bond,   \* DataKey::IdentityToBond
    bond_to_identity,   \* DataKey::BondToIdentity
    identities,         \* DataKey::RegisteredIdentities
    bond_code_hash      \* DataKey::BondCodeHash

directoryVars == <<identity_to_bond, bond_to_identity, identities>>
registryVars == <<registry_admin, registry_paused, directoryVars, bond_code_hash>>

RegistryInit ==
    /\ registry_admin = NoRegistryAdmin /\ registry_paused = FALSE
    /\ identity_to_bond = [i \in Identities |-> NoEntry]
    /\ bond_to_identity = [b \in BondContracts |-> NoIdentity]
    /\ identities = <<>> /\ bond_code_hash = NoCodeHash

RegistryInitialize(a) ==
    /\ registry_admin = NoRegistryAdmin
    /\ registry_admin' = a /\ registry_paused' = FALSE /\ identities' = <<>>
    /\ UNCHANGED <<identity_to_bond, bond_to_identity, bond_code_hash>>

Operating == ~registry_paused
AdminSigns == registry_admin # NoRegistryAdmin
Registered(i) == identity_to_bond[i] # NoEntry

-----------------------------------------------------------------------------
(* The directory.                                                           *)

Fault_Free(i, b) == ~Registered(i)
Free(i, b) == ~Registered(i) /\ bond_to_identity[b] = NoIdentity

Bind(i, b) ==
    /\ Free(i, b)
    /\ identity_to_bond' = [identity_to_bond EXCEPT ![i] = [bond |-> b, active |-> TRUE]]
    /\ bond_to_identity' = [bond_to_identity EXCEPT ![b] = i]
    /\ identities' = IF Contains(identities, i) THEN identities
                     ELSE Append(identities, i)
    /\ UNCHANGED <<registry_admin, registry_paused, bond_code_hash>>

Register(i, b, allow_non_interface) ==
    /\ Operating /\ AdminSigns
    /\ allow_non_interface \/ b \in Supporting
    /\ Bind(i, b)

(* The bond contract registers itself if its code is the endorsed one; a    *)
(* repetition of a call that succeeded changes nothing, and is no step.     *)
RegisterTrustless(b, i) ==
    /\ Operating
    /\ bond_code_hash # NoCodeHash /\ CodeHash[b] = bond_code_hash
    /\ Bind(i, b)

SetEntryActive(i, active) ==
    /\ Operating /\ AdminSigns
    /\ Registered(i) /\ identity_to_bond[i].active # active
    /\ identity_to_bond' = [identity_to_bond EXCEPT ![i].active = active]
    /\ UNCHANGED <<registry_admin, registry_paused, bond_to_identity, identities,
                   bond_code_hash>>

RegistryDeactivate(i) == SetEntryActive(i, FALSE)
RegistryReactivate(i) == SetEntryActive(i, TRUE)

RegistryRemove(i) ==
    /\ Operating /\ AdminSigns
    /\ Registered(i)
    /\ identity_to_bond' = [identity_to_bond EXCEPT ![i] = NoEntry]
    /\ bond_to_identity' = [bond_to_identity EXCEPT ![identity_to_bond[i].bond] = NoIdentity]
    /\ identities' = RemoveFirst(identities, i)
    /\ UNCHANGED <<registry_admin, registry_paused, bond_code_hash>>

-----------------------------------------------------------------------------
RegistryTransferAdmin(a) ==
    /\ Operating /\ AdminSigns
    /\ registry_admin' = a
    /\ UNCHANGED <<registry_paused, directoryVars, bond_code_hash>>

(* Not stopped by a pause.                                                  *)
SetBondCodeHash(h) ==
    /\ AdminSigns
    /\ bond_code_hash' = h
    /\ UNCHANGED <<registry_admin, registry_paused, directoryVars>>

RegistrySwitchPause ==
    /\ AdminSigns
    /\ registry_paused' = ~registry_paused
    /\ UNCHANGED <<registry_admin, directoryVars, bond_code_hash>>

RegistryNext ==
    \/ \E a \in RegistryAdmins : RegistryInitialize(a)
    \/ \E i \in Identities, b \in BondContracts, any \in BOOLEAN : Register(i, b, any)
    \/ \E i \in Identities, b \in BondContracts : RegisterTrustless(b, i)
    \/ \E i \in Identities : RegistryDeactivate(i)
    \/ \E i \in Identities : RegistryReactivate(i)
    \/ \E i \in Identities : RegistryRemove(i)
    \/ \E a \in RegistryAdmins : RegistryTransferAdmin(a)
    \/ \E h \in CodeHashes : SetBondCodeHash(h)
    \/ RegistrySwitchPause

(* The contract alone on its ledger.                                        *)
RegistrySpec ==
    /\ LedgerInit /\ RegistryInit
    /\ [][(RegistryNext /\ UNCHANGED now) \/ (Tick /\ UNCHANGED registryVars)]_<<now, registryVars>>

-----------------------------------------------------------------------------
(* Reading.                                                                 *)

(* is_registered.                                                           *)
IsRegistered(i) == identity_to_bond[i].active

LesserOf(a, b) == IF a <= b THEN a ELSE b

Fault_IdentitiesPage(offset, limit) ==
    SubSeq(identities, offset + 1, LesserOf(offset + LesserOf(limit, MaxPage), Len(identities)) - 1)

(* get_identities_page, its offset counted from 0.                          *)
IdentitiesPage(offset, limit) ==
    IF offset >= Len(identities) THEN <<>>
    ELSE SubSeq(identities, offset + 1, LesserOf(offset + LesserOf(limit, MaxPage), Len(identities)))

-----------------------------------------------------------------------------
(* Properties.                                                              *)

(* A reader who asks for pages of one size, each from where the last one    *)
(* ended, sees the list: no identity twice, none left out, at every size    *)
(* below, at and above the cap and the length, except that size 0 gives     *)
(* nothing for ever.                                                        *)
PagesCoverTheList ==
    \A limit \in PageLimits \ {0} :
        LET size == LesserOf(limit, MaxPage)
            read[offset \in 0..(Len(identities) + MaxPage)] ==
                IF IdentitiesPage(offset, limit) = <<>> THEN <<>>
                ELSE IdentitiesPage(offset, limit) \o read[offset + size]
        IN  read[0] = identities

(* Both directions and the list say the same after any sequence of          *)
(* registrations of either kind, removals and registrations anew: a bond    *)
(* contract names the identity that names it, no two identities share one,  *)
(* and who reads the list page by page (get_identities_page) sees every     *)
(* registered identity once.                                                *)
DirectoryConsistent ==
    /\ \A i \in Identities, b \in BondContracts :
           bond_to_identity[b] = i <=> identity_to_bond[i].bond = b
    /\ Lists(identities, {i \in Identities : Registered(i)})
    /\ PagesCoverTheList

(* The bindings found by identity, and those found by bond contract.        *)
BoundForward == {<<i, identity_to_bond[i].bond>> : i \in {j \in Identities : Registered(j)}}
BoundBackward ==
    {<<bond_to_identity[b], b>> : b \in {c \in BondContracts : bond_to_identity[c] # NoIdentity}}

ByIdentity == INSTANCE Directory
    WITH bound <- BoundForward, answering <- {i \in Identities : IsRegistered(i)},
         listed <- ToSet(identities)
ByContract == INSTANCE Directory
    WITH bound <- BoundBackward, answering <- {i \in Identities : IsRegistered(i)},
         listed <- ToSet(identities)

(* To those who look up by identity (get_bond_contract) and to those who    *)
(* look up by bond contract (get_identity) the registry is the same one     *)
(* directory: no call binds what is bound, in either direction, leaves half *)
(* a binding behind, or lets the list go another way than the bindings.     *)
ImplementsDirectory == ByIdentity!Spec /\ ByContract!Spec
=============================================================================
