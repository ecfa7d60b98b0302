------------------------------- MODULE MCLogin -------------------------------
(* Instances of Login for TLC: two session ids, so that an id is reused by  *)
(* the third connection, and two characters.                                *)
EXTENDS Login, TLC

CONSTANTS c1, c2, c3, r1, r2, r3

MCPool  == <<0, 1>>

\* The first connection logs in twice.
MCOwner == (r1 :> c1) @@ (r2 :> c1) @@ (r3 :> c3)
=============================================================================
