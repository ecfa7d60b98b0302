---------------------------- MODULE MCPlayerDeath ----------------------------
(* Instances of PlayerDeath for TLC: four tiles in two sectors, those of    *)
(* the first around (0, 0).                                                 *)
EXTENDS PlayerDeath

MCTiles    == 0 .. 3
MCSpawn    == {0, 1}
MCSectorOf == [t \in MCTiles |-> t \div 2]
=============================================================================
