---- MODULE MCBond ----
(* Instances of Bond for TLC.                                               *)
EXTENDS Bond, TLC

(* Identities play the same part in Bond, and so do the addresses that may  *)
(* hold the admin role; the accounts do not.                                *)
OwnerSymmetry == Permutations(Owners)
AdminSymmetry == Permutations(Admins)
TokenSymmetry == Permutations(Tokens)
CustodySymmetry == OwnerSymmetry \cup TokenSymmetry
SlashingSymmetry == AdminSymmetry \cup TokenSymmetry

(* i128 arguments of either sign (a .cfg has no negative set elements).     *)
SmallAmounts == {-1, 2}
ExitAmounts == {-1, 0, 1, 2}
SlashAmounts == {-1, 10}
====
