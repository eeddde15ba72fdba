---- MODULE MCTimelock ----
(* An instance of Timelock for TLC.                                         *)
EXTENDS Timelock, TLC

(* Hashes are compared for equality only.                                   *)
HashSymmetry == Permutations(Hashes)
====
