---- MODULE Directory ----
(***************************************************************************)
(* What the registry promises to those who look something up, without maps *)
(* and lists: identities and bond contracts are bound to each other one to *)
(* one, and whoever reads the list sees those who are bound.  An entry may *)
(* be switched off and on again, and keeps its binding.  Module Registry   *)
(* implements it (credence_registry/src/lib.rs).                           *)
(***************************************************************************)
CONSTANTS Identities, BondContracts

VARIABLES
    bound,        \* pairs of an identity and its bond contract
    answering,    \* identities that are answered as registered
    listed        \* identities that a reader of the list sees

directory == <<bound, answering, listed>>

Init == bound = {} /\ answering = {} /\ listed = {}

Unbound(i, b) == \A p \in bound : p[1] # i /\ p[2] # b

(* Neither of the two belongs to another.                                   *)
Bind(i) ==
    /\ listed' = listed \cup {i} /\ answering' = answering \cup {i}
    /\ \E b \in BondContracts : Unbound(i, b) /\ bound' = bound \cup {<<i, b>>}

Switch(i) ==
    /\ i \in listed
    /\ answering' = answering \cup {i} \/ answering' = answering \ {i}
    /\ UNCHANGED <<bound, listed>>

Unbind(i) ==
    /\ i \in listed
    /\ bound' = {p \in bound : p[1] # i}
    /\ answering' = answering \ {i} /\ listed' = listed \ {i}

Next == \E i \in Identities : Bind(i) \/ Switch(i) \/ Unbind(i)

Spec == Init /\ [][Next]_directory
====
