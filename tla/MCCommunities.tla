--------------------------- MODULE MCCommunities ----------------------------
(* Communities for TLC: four entities of two names and three graphs; in    *)
(* the second an entity is gone whose relationships are still there, the   *)
(* third is too small.                                                     *)
EXTENDS Communities, TLC

MCNameOf == <<"ada", "bell", "ada", "bell">>

MCGraphs ==
  {[mentions |-> <<1, 1, 1, 1>>, rels |-> {<<1, 2>>, <<3, 2>>, <<3, 4>>}],
   [mentions |-> <<1, 2, 0, 1>>, rels |-> {<<1, 2>>, <<2, 3>>, <<3, 4>>}],
   [mentions |-> <<0, 1, 1, 0>>, rels |-> {<<2, 3>>}]}

RebuildSymmetry == Permutations(Rebuilds)
=============================================================================
