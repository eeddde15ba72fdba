---- MODULE Lists ----
(***************************************************************************)
(* The lists that the contracts keep in storage: a Vec of addresses or of  *)
(* identifiers beside the records they are about.  An entry is taken out   *)
(* of one in two ways: by its position (RemoveFirst of SequencesExt), or   *)
(* by building the list anew without it.                                   *)
(***************************************************************************)
EXTENDS Integers, FiniteSets, SequencesExt

(* The list without the members of gone, built anew entry by entry.         *)
Without(seq, gone) ==
    LET kept[i \in 0 .. Len(seq)] ==
            IF i = 0 THEN <<>>
            ELSE IF seq[i] \in gone THEN kept[i - 1] ELSE Append(kept[i - 1], seq[i])
    IN  kept[Len(seq)]

(* A list with every member of S once and nothing else.                     *)
Lists(seq, S) == ToSet(seq) = S /\ IsInjective(seq)

Ascending(seq) == \A i, j \in DOMAIN seq : i < j => seq[i] < seq[j]
====
