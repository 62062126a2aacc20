---------------------------- MODULE MCGraphStore ----------------------------
(* Values of the constants of GraphStore for TLC: two documents that share *)
(* an entity; one of them also mentions it by a name that is only similar. *)
EXTENDS GraphStore, TLC

CONSTANTS d1, d2, acme, acmeInc

MCSpelling == [n \in Names |-> n]

MCKeys == {"acme", "acme inc"}

MCLower == [n \in Names |-> IF n = acme THEN "acme" ELSE "acme inc"]

MCClose == [n \in Names |-> Names]

MCNamesIn == [d \in Docs |-> IF d = d1 THEN {acme, acmeInc} ELSE {acme}]

MCRelsIn ==
  [d \in Docs |-> IF d = d1 THEN {<<"acme", "acme inc">>} ELSE {<<"acme", "acme">>}]

(* Builds differ in nothing but their names. *)
BuildSymmetry == Permutations(Builds)
=============================================================================
