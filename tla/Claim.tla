-------------------------------- MODULE Claim --------------------------------
(***************************************************************************)
(* What logging in promises to one character, without sessions, session    *)
(* ids, requests or callbacks: it is claimed before it enters the world,   *)
(* given back only when it is out of it, and a claim that nobody is left   *)
(* to give back stays for good.                                            *)
(***************************************************************************)
VARIABLE stage      \* "free", "held": claimed and outside, "in" the world, "lost"

Init == stage = "free"

Take     == stage = "free" /\ stage' = "held"
Enter    == stage = "held" /\ stage' = "in"
Leave    == stage = "in"   /\ stage' = "held"
GiveBack == stage = "held" /\ stage' = "free"
Lose     == stage \in {"held", "in"} /\ stage' = "lost"

Next == Take \/ Enter \/ Leave \/ GiveBack \/ Lose

Spec == Init /\ [][Next]_stage
=============================================================================
