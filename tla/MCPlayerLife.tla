---------------------------- MODULE MCPlayerLife ----------------------------
(* Instances of PlayerLife for TLC: two attackers and two workers that can  *)
(* handle the regeneration timer, enough for every race of two of a kind.   *)
EXTENDS PlayerLife
=============================================================================
