------------------------------ MODULE Scanner -------------------------------
(***************************************************************************)
(* credence_bond, liquidation_scanner.rs: keepers look through the bond    *)
(* holders page by page, each with a cursor of his own, for bonds that     *)
(* have been slashed far enough to be liquidated.                          *)
(*                                                                         *)
(* A holder's slot in the registry is for ever: one who leaves is marked   *)
(* inactive, and the size counts those who are not.  Whether a bond        *)
(* qualifies is up to its owner and the slashes (external).                *)
(***************************************************************************)
EXTENDS LedgerClock

CONSTANTS
    Holders, Keepers,
    Diligent,           \* the keepers who always scan on from their cursor
    PageSizes,          \* arguments max_iter
    DefaultIter,        \* DEFAULT_MAX_ITER
    MaxIter             \* MAX_ITER_HARD_CAP

ASSUME ScannerAssumption ==
    /\ IsFiniteSet(Holders) /\ Diligent \subseteq Keepers
    /\ PageSizes \subseteq Nat /\ DefaultIter \in Nat \ {0} /\ MaxIter \in Nat \ {0}

VARIABLES
    bond_holders,       \* ScanKey::BondHolderRegistry
    holder_active,      \* ScanKey::BondHolderActive, TRUE when absent
    registry_size,      \* ScanKey::RegistrySize
    keeper_cursor,      \* ScanKey::KeeperCursor
    liquidatable,       \* the holders whose bonds qualify
    reported            \* history: the candidates of the last scan of each keeper

scannerVars == <<bond_holders, holder_active, registry_size, keeper_cursor,
                 liquidatable, reported>>

ScannerInit ==
    /\ bond_holders = <<>> /\ registry_size = 0
    /\ holder_active = [h \in Holders |-> TRUE]
    /\ keeper_cursor = [k \in Keepers |-> 0]
    /\ liquidatable = {} /\ reported = [k \in Keepers |-> {}]

Listed(h) == Contains(bond_holders, h)

(* A holder who is listed and active is no change.                          *)
RegisterBondHolder(h) ==
    /\ \/ /\ Listed(h) /\ ~holder_active[h]
          /\ UNCHANGED bond_holders
       \/ /\ ~Listed(h)
          /\ bond_holders' = Append(bond_holders, h)
    /\ holder_active' = [holder_active EXCEPT ![h] = TRUE]
    /\ registry_size' = registry_size + 1
    /\ UNCHANGED <<keeper_cursor, liquidatable, reported>>

Fault_DeregisterBondHolder(h) ==
    /\ Listed(h)
    /\ holder_active' = [holder_active EXCEPT ![h] = FALSE]
    /\ registry_size' = IF registry_size > 0 THEN registry_size - 1 ELSE 0
    /\ UNCHANGED <<bond_holders, keeper_cursor, liquidatable, reported>>
DeregisterBondHolder(h) ==
    /\ Listed(h) /\ holder_active[h]
    /\ holder_active' = [holder_active EXCEPT ![h] = FALSE]
    /\ registry_size' = IF registry_size > 0 THEN registry_size - 1 ELSE 0
    /\ UNCHANGED <<bond_holders, keeper_cursor, liquidatable, reported>>

(* Back to the start, or forward as far as the keeper likes, the end of the *)
(* registry included.                                                       *)
AdvanceKeeperCursor(k, next) ==
    /\ \/ next = 0
       \/ next > keeper_cursor[k] /\ next <= Len(bond_holders)
    /\ keeper_cursor' = [keeper_cursor EXCEPT ![k] = next]
    /\ UNCHANGED <<bond_holders, holder_active, registry_size, liquidatable, reported>>

-----------------------------------------------------------------------------
PageSize(max) == IF max = 0 THEN DefaultIter ELSE IF max < MaxIter THEN max ELSE MaxIter

(* The end of a page and the cursor of the next one, counted from 0.        *)
PageEnd(cursor, max) ==
    IF cursor + PageSize(max) < Len(bond_holders) THEN cursor + PageSize(max)
    ELSE Len(bond_holders)
Fault_NextCursor(cursor, max) ==
    IF PageEnd(cursor, max) >= Len(bond_holders) THEN 0 ELSE PageEnd(cursor, max) + 1
NextCursor(cursor, max) ==
    IF PageEnd(cursor, max) >= Len(bond_holders) THEN 0 ELSE PageEnd(cursor, max)

(* From any position of an existing slot; an empty registry has the page 0. *)
Scan(k, cursor, max) ==
    /\ bond_holders # <<>> => cursor < Len(bond_holders)
    /\ LET page == {bond_holders[i] : i \in cursor + 1 .. PageEnd(cursor, max)}
       IN  reported' = [reported EXCEPT
              ![k] = {h \in page : holder_active[h] /\ h \in liquidatable}]
    /\ keeper_cursor' = [keeper_cursor EXCEPT ![k] = NextCursor(cursor, max)]
    /\ UNCHANGED <<bond_holders, holder_active, registry_size, liquidatable>>

ScanOn(k) == \E max \in PageSizes : Scan(k, keeper_cursor[k], max)

(* A bond is slashed, topped up, closed or created: external.               *)
BondMoves(h) ==
    /\ liquidatable' = IF h \in liquidatable THEN liquidatable \ {h} ELSE liquidatable \cup {h}
    /\ UNCHANGED <<bond_holders, holder_active, registry_size, keeper_cursor, reported>>

ScannerNext ==
    \/ \E h \in Holders : RegisterBondHolder(h) \/ DeregisterBondHolder(h) \/ BondMoves(h)
    \/ \E k \in Diligent : ScanOn(k)
    \/ \E k \in Keepers \ Diligent, next \in 0 .. Cardinality(Holders) :
          \/ AdvanceKeeperCursor(k, next)
          \/ \E max \in PageSizes : Scan(k, next, max)

(* The registry alone: nothing in it reads the time.                        *)
ScannerSpec == ScannerInit /\ [][ScannerNext]_scannerVars

-----------------------------------------------------------------------------
(* Properties.                                                              *)

(* The size reported to keepers counts the holders who are registered and   *)
(* have not left, each in one slot, through leaving (also repeated) and     *)
(* coming back.                                                             *)
SizeCountsHolders ==
    /\ registry_size = Cardinality({h \in Holders : Listed(h) /\ holder_active[h]})
    /\ Lists(bond_holders, {h \in Holders : Listed(h)})

(* A holder who is registered and stays liquidatable is reported to every   *)
(* diligent keeper, whatever page sizes he takes, whoever registers or      *)
(* leaves between two pages and whatever other keepers do with theirs.      *)
CandidatesAreReported == \A h \in Holders, k \in Diligent :
    (Listed(h) /\ holder_active[h] /\ h \in liquidatable) ~>
        (h \in reported[k] \/ ~holder_active[h] \/ h \notin liquidatable)

(* A diligent keeper starts another pass after each (the keeper workflow in *)
(* the header of liquidation_scanner.rs: scan, liquidate, go on from the    *)
(* cursor returned until the pass is done).                                 *)
KeepersScan == \A k \in Diligent : WF_scannerVars(ScanOn(k))
=============================================================================
