------------------------------ MODULE Occupancy ------------------------------
(***************************************************************************)
(* What the tile map promises to the game, without CAS words, sectors or   *)
(* worker threads: every object is on one walkable tile or in the world    *)
(* not at all, and nobody enters a tile somebody else stands on.           *)
(***************************************************************************)
CONSTANTS Objects, Places, Nowhere

VARIABLE at      \* at[o]: the tile o stands on, or Nowhere

Vacant(p) == \A o \in Objects : at[o] # p

Init == at = [o \in Objects |-> Nowhere]

Enter(o, p) ==
    /\ at[o] = Nowhere
    /\ Vacant(p)
    /\ at' = [at EXCEPT ![o] = p]

Walk(o, p) ==
    /\ at[o] # Nowhere
    /\ Vacant(p)
    /\ at' = [at EXCEPT ![o] = p]

Leave(o) ==
    /\ at[o] # Nowhere
    /\ at' = [at EXCEPT ![o] = Nowhere]

Next == \E o \in Objects :
           \/ at'[o] # at[o] /\ \E p \in Places : Enter(o, p) \/ Walk(o, p)
           \/ Leave(o)

Spec == Init /\ [][Next]_at
=============================================================================
