--------------------------- MODULE MCSectorManager ---------------------------
(* An instance of SectorManager for TLC.                                     *)
EXTENDS SectorManager, TLC

\* A row of four tiles, two sectors.  With the second tile a wall, an AddObject
\* around the first with radius 1 has one candidate and may find no room.
MCWalls == {<<1, 0>>}

\* Objects are told apart by their ids only.
Symmetry == Permutations(Objects)
=============================================================================
