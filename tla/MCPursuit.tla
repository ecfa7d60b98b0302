------------------------------ MODULE MCPursuit ------------------------------
(* An instance of Pursuit for TLC.                                           *)
EXTENDS Pursuit

\* A wall to walk round.
MCWalls == {<<1, 1>>, <<2, 1>>}
MCSpawn == <<1, 0>>
MCEntries == {<<1, 2>>, <<0, 0>>}
=============================================================================
