---------------------------- MODULE MCMonsterLife ----------------------------
(* Instances of MonsterLife for TLC: two viewers, so that one may come while *)
(* the other leaves, or two attackers, and a roaming range of two tiles.     *)
EXTENDS MonsterLife
=============================================================================
