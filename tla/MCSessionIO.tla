----------------------------- MODULE MCSessionIO -----------------------------
(* Instances of SessionIO for TLC: two sessions that send to each other, and *)
(* to themselves.                                                            *)
EXTENDS SessionIO
=============================================================================
