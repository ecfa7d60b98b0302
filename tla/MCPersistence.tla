---------------------------- MODULE MCPersistence ----------------------------
(* An instance of Persistence for TLC.  The levels take one, two and four    *)
(* points: a reward of three leads from the first level to the third, the    *)
(* next one leaves three points there, also with a snapshot half taken.  The *)
(* first session plays from the start, the second logs in.                   *)
EXTENDS Persistence

MCFirst == [level |-> 1, exp |-> 0]
MCRewards == {3}
=============================================================================
