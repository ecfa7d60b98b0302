------------------------------- MODULE MCView --------------------------------
(* Instances of View for TLC: two players and a monster on a row of three   *)
(* tiles, from which one sees one tile far; a revival finds one tile only,  *)
(* which the others may hold.                                               *)
EXTENDS View, TLC

Symmetric == Permutations(Players)
=============================================================================
