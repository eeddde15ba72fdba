---- MODULE MCMultiSig ----
(* An instance of MultiSig for TLC.                                         *)
EXTENDS MultiSig, TLC

CONSTANTS s1, s2

(* One signer, both, or one of them named twice.                            *)
InitialLists == {<<s1>>, <<s1, s2>>, <<s2, s2>>}

(* Hashes are compared for equality only.                                   *)
HashSymmetry == Permutations(Hashes)

(* One proposal before and one after a second initialize are enough for it  *)
(* to meet the records of the first: both are identifier 0.                 *)
OneProposalAroundReset == inits = 2 => counter <= 1 /\ proposal[1] = NoProposal
====
