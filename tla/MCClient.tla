------------------------------ MODULE MCClient ------------------------------
(* An instance of Client for TLC.                                            *)
EXTENDS Client

MCReasons == {1, 2}
=============================================================================
