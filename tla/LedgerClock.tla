---- MODULE LedgerClock ----
(***************************************************************************)
(* The clock of the ledger that several contracts run on.  A contract      *)
(* reads it and never sets it; a module of one contract EXTENDS this one,  *)
(* so that several contracts can be put side by side under the same clock. *)
(* It is external: time passes when a ledger closes, and a timestamp never *)
(* runs back.                                                              *)
(***************************************************************************)
EXTENDS Lists

CONSTANT MaxTime     \* bound: last ledger timestamp explored

ASSUME LedgerAssumption == MaxTime \in Nat

VARIABLE now         \* e.ledger().timestamp()

LedgerInit == now = 1

(* A ledger closes.                                                         *)
Tick ==
    /\ now < MaxTime
    /\ now' = now + 1
====
