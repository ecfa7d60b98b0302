-------------------------------- MODULE View ---------------------------------
(***************************************************************************)
(* What each player's client shows.  Server/Game/ViewProcessor.cpp sends   *)
(* SC_ADD_OBJECT and SC_REMOVE_OBJECT on the worker of the object that     *)
(* moved, appeared or left: it scans the sectors, reads the others'        *)
(* positions one by one and compares the view before with the view after.  *)
(* Handlers of different objects overlap, and so do two of one object: a   *)
(* death, on the worker of the killer, under a move, a teleport or a       *)
(* logout, on that of the victim.                                          *)
(*                                                                         *)
(* The places lie in neighbouring sectors, so that a scan lists everybody  *)
(* in the index (module SectorManager), and a client applies its packets   *)
(* in the order in which they were queued (module SessionIO).              *)
(***************************************************************************)
EXTENDS Integers, FiniteSets

CONSTANTS
    Players,        \* players, with their clients
    Monsters,
    Places,         \* the walkable tiles, one row of the map
    HalfView,       \* HALF_VIEW
    Spawn,          \* the tiles AddObject looks at around (0, 0)
    Corner,         \* (0, 0), where Die puts a player
    MaxOps          \* bound: operations started in a behaviour

ASSUME ViewAssumption ==
    /\ Players \cap Monsters = {}
    /\ Places \subseteq Int /\ Spawn \subseteq Places /\ Corner \in Places
    /\ HalfView \in Nat /\ MaxOps \in Nat

Objects == Players \cup Monsters

VARIABLES
    indexed,        \* objects in some sector's set
    online,         \* players in m_players
    pos,            \* GameObject::m_pos
    pc,             \* where the object's handler is
    from,           \* ProcessMoveView: oldX, oldY
    oldNearby, newNearby,  \* what the two scans found and is not looked at yet
    oldView, newView,      \* the two views; later what is left to remove, to add
    shown,          \* GameState::m_objects of each client
    ops,            \* operations started (bounded by MaxOps)
    raced,          \* history: pairs of which one changed under the other's handler
    ghosts,         \* history: what a client showed when its player died
    astray          \* those who acted outside the index, or in two handlers at once

placeVars   == <<indexed, online, pos>>
scanVars    == <<oldNearby, newNearby>>
diffVars    == <<oldView, newView>>
history     == <<ops, raced, ghosts, astray>>
viewVars == <<placeVars, pc, from, scanVars, diffVars, shown, history>>

\* Monsters stand where SpawnMonsters put them; nobody is logged in.
ViewInit ==
    /\ indexed = Monsters /\ online = {}
    /\ pos \in [Objects -> Places]
    /\ \A m, n \in Monsters : pos[m] = pos[n] => m = n
    /\ pc = [o \in Objects |-> "idle"]
    /\ from = [o \in Objects |-> 0]
    /\ oldNearby = [o \in Objects |-> {}] /\ newNearby = [o \in Objects |-> {}]
    /\ oldView = [o \in Objects |-> {}] /\ newView = [o \in Objects |-> {}]
    /\ shown = [p \in Players |-> {}]
    /\ ops = 0 /\ raced = {} /\ ghosts = [p \in Players |-> {}] /\ astray = {}

Goto(o, a, b) == pc[o] = a /\ pc' = [pc EXCEPT ![o] = b]

IsInView(s, t) == s - t \in -HalfView .. HalfView

Free(t) == \A o \in indexed : pos[o] # t

\* AddObject returns false; a tile that overlapping handlers left behind
\* (module PlayerDeath) is free to nobody.
NoneFree == (\A t \in Spawn : ~Free(t)) \/ astray # {}

\* o changes, or is about to vanish, under whoever is in a handler.
Change(o) == raced' = raced \cup {{o, b} : b \in {x \in Objects \ {o} : pc[x] # "idle"}}

Start == ops < MaxOps /\ ops' = ops + 1

\* GetNearbyObjects without o itself; monsters are of no interest to monsters.
Nearby(o) == (IF o \in Players THEN indexed ELSE indexed \cap Players) \ {o}

\* GetPlayer finds the players only, GetMonster every monster.
Known(b) == b \in Monsters \/ b \in online

\* A player that stands in no sector acts all the same.
StrayIfOut(o) == astray' = IF o \in indexed THEN astray ELSE astray \cup {o}

\* Clients get o's SC_ADD_OBJECT and o's client that of b.
Introduce(o, b) ==
    shown' = [p \in Players |->
                CASE p = b /\ b \in online -> shown[p] \cup {o}
                  [] p = o -> shown[p] \cup {b}
                  [] OTHER -> shown[p]]

\* They get SC_REMOVE_OBJECT.
Part(o, b) ==
    shown' = [p \in Players |->
                CASE p = b -> shown[p] \ {o}
                  [] p = o -> shown[p] \ {b}
                  [] OTHER -> shown[p]]

-----------------------------------------------------------------------------
(* SendFullView after a login and a respawn; BroadcastAddMonster is the     *)
(* same with a monster, which has no client.                                *)

\* AddObject, SetPos, m_players: visible with the last of them.
AddPlayer(p) ==
    /\ p \notin online /\ Start
    /\ Goto(p, "idle", "scanFull")
    /\ \E t \in Places : Free(t) /\ pos' = [pos EXCEPT ![p] = t]
    /\ indexed' = indexed \cup {p} /\ online' = online \cup {p}
    /\ Change(p)
    /\ UNCHANGED <<from, scanVars, diffVars, shown, ghosts, astray>>

RespawnMonster(m) ==
    /\ m \notin indexed /\ Start
    /\ Goto(m, "idle", "scanFull")
    /\ \E t \in Places : Free(t) /\ pos' = [pos EXCEPT ![m] = t]
    /\ indexed' = indexed \cup {m}
    /\ Change(m)
    /\ UNCHANGED <<online, from, scanVars, diffVars, shown, ghosts, astray>>

ScanFull(o) ==
    /\ Goto(o, "scanFull", "full")
    /\ newNearby' = [newNearby EXCEPT ![o] = Nearby(o)]
    /\ UNCHANGED <<placeVars, from, oldNearby, diffVars, shown, history>>

SendFullView(o, b) ==
    /\ pc[o] = "full" /\ b \in newNearby[o]
    /\ newNearby' = [newNearby EXCEPT ![o] = @ \ {b}]
    /\ IF Known(b) /\ IsInView(pos[o], pos[b]) THEN Introduce(o, b) ELSE UNCHANGED shown
    /\ UNCHANGED <<placeVars, pc, from, oldNearby, diffVars, history>>

FullViewSent(o) ==
    /\ newNearby[o] = {}
    /\ Goto(o, "full", "idle")
    /\ UNCHANGED <<placeVars, from, scanVars, diffVars, shown, history>>

-----------------------------------------------------------------------------
(* ProcessMoveView after a move of a player or a monster and a teleport *)

\* TryMoveObject and SetPos.  A player outside the index gets into a sector's
\* set only where it changes the sector.
Move(o, t) ==
    /\ o \in indexed \cup online /\ Start /\ t - pos[o] \in {-1, 1} /\ Free(t)
    /\ Goto(o, "idle", "scanOld")
    /\ from' = [from EXCEPT ![o] = pos[o]]
    /\ pos' = [pos EXCEPT ![o] = t]
    /\ indexed' = indexed \/ (o \notin indexed /\ indexed' = indexed \cup {o})
    /\ StrayIfOut(o)
    /\ Change(o)
    /\ UNCHANGED <<online, scanVars, diffVars, shown, ghosts>>

\* RemoveObject, then AddObject and SetPos.
ProcessTeleport(p) ==
    /\ p \in online /\ Start
    /\ Goto(p, "idle", "land")
    /\ indexed' = indexed \ {p}
    /\ StrayIfOut(p)
    /\ Change(p)
    /\ UNCHANGED <<online, pos, from, scanVars, diffVars, shown, ghosts>>

Land(p) ==
    /\ Goto(p, "land", "scanOld")
    /\ from' = [from EXCEPT ![p] = pos[p]]
    /\ \E t \in Places : Free(t) /\ pos' = [pos EXCEPT ![p] = t]
    /\ indexed' = indexed \cup {p}
    /\ Change(p)
    /\ UNCHANGED <<online, scanVars, diffVars, shown, ops, ghosts, astray>>

\* Neither the target nor (0, 0) has a free tile near: newX and newY are read
\* unwritten, and the player goes on outside the index.
LandFails(p) ==
    /\ NoneFree
    /\ Goto(p, "land", "scanOld")
    /\ from' = [from EXCEPT ![p] = pos[p]]
    /\ \E t \in Places : pos' = [pos EXCEPT ![p] = t]
    /\ astray' = astray \cup {p}
    /\ Change(p)
    /\ UNCHANGED <<indexed, online, scanVars, diffVars, shown, ops, ghosts>>

ScanOld(o) ==
    /\ Goto(o, "scanOld", "scanNew")
    /\ oldNearby' = [oldNearby EXCEPT ![o] = Nearby(o)]
    /\ UNCHANGED <<placeVars, from, newNearby, diffVars, shown, history>>

ScanNew(o) ==
    /\ Goto(o, "scanNew", "look")
    /\ newNearby' = [newNearby EXCEPT ![o] = Nearby(o)]
    /\ UNCHANGED <<placeVars, from, oldNearby, diffVars, shown, history>>

\* Is b, where it is now, in the view o had?
LookOld(o, b) ==
    /\ pc[o] = "look" /\ b \in oldNearby[o]
    /\ oldNearby' = [oldNearby EXCEPT ![o] = @ \ {b}]
    /\ oldView' = [oldView EXCEPT ![o] = IF Known(b) /\ IsInView(pos[b], from[o])
                                         THEN @ \cup {b} ELSE @]
    /\ UNCHANGED <<placeVars, pc, from, newNearby, newView, shown, history>>

\* Is it in the view o has?
LookNew(o, b) ==
    /\ pc[o] = "look" /\ oldNearby[o] = {} /\ b \in newNearby[o]
    /\ newNearby' = [newNearby EXCEPT ![o] = @ \ {b}]
    /\ newView' = [newView EXCEPT ![o] = IF Known(b) /\ IsInView(pos[b], pos[o])
                                         THEN @ \cup {b} ELSE @]
    /\ UNCHANGED <<placeVars, pc, from, oldNearby, oldView, shown, history>>

\* newView - oldView is to be added, oldView - newView to be removed; the
\* others get SC_MOVE_OBJECT, which adds nothing that a client does not show.
Diff(o) ==
    /\ oldNearby[o] = {} /\ newNearby[o] = {}
    /\ Goto(o, "look", "send")
    /\ newView' = [newView EXCEPT ![o] = @ \ oldView[o]]
    /\ oldView' = [oldView EXCEPT ![o] = @ \ newView[o]]
    /\ UNCHANGED <<placeVars, from, scanVars, shown, history>>

AddSeen(o, b) ==
    /\ pc[o] = "send" /\ b \in newView[o]
    /\ newView' = [newView EXCEPT ![o] = @ \ {b}]
    /\ IF Known(b) THEN Introduce(o, b) ELSE UNCHANGED shown
    /\ UNCHANGED <<placeVars, pc, from, scanVars, oldView, history>>

\* Mutant: only the others are told.
RemoveOneWay(o, b) ==
    /\ pc[o] = "send" /\ newView[o] = {} /\ b \in oldView[o]
    /\ oldView' = [oldView EXCEPT ![o] = @ \ {b}]
    /\ shown' = [p \in Players |-> IF p = b THEN shown[p] \ {o} ELSE shown[p]]
    /\ UNCHANGED <<placeVars, pc, from, scanVars, newView, history>>

RemoveUnseen(o, b) ==
    /\ pc[o] = "send" /\ newView[o] = {} /\ b \in oldView[o]
    /\ oldView' = [oldView EXCEPT ![o] = @ \ {b}]
    /\ Part(o, b)
    /\ UNCHANGED <<placeVars, pc, from, scanVars, newView, history>>

DiffSent(o) ==
    /\ newView[o] = {} /\ oldView[o] = {}
    /\ Goto(o, "send", "idle")
    /\ from' = [from EXCEPT ![o] = 0]
    /\ UNCHANGED <<placeVars, scanVars, diffVars, shown, history>>

-----------------------------------------------------------------------------
(* SendDisappear before a death and a disconnect; OnMonsterDied has the     *)
(* same loop of its own.                                                    *)

OnDied(o) ==
    /\ o \in indexed \cup online /\ Start
    /\ Goto(o, "idle", "dying")
    /\ oldNearby' = [oldNearby EXCEPT ![o] = Nearby(o) \cap Players]
    /\ Change(o)
    /\ UNCHANGED <<placeVars, from, newNearby, diffVars, shown, ghosts, astray>>

ProcessDisconnect(p) ==
    /\ p \in online /\ Start
    /\ Goto(p, "idle", "leaving")
    /\ oldNearby' = [oldNearby EXCEPT ![p] = Nearby(p) \cap Players]
    /\ Change(p)
    /\ UNCHANGED <<placeVars, from, newNearby, diffVars, shown, ghosts, astray>>

SendDisappear(o, b) ==
    /\ pc[o] \in {"dying", "leaving"} /\ b \in oldNearby[o]
    /\ oldNearby' = [oldNearby EXCEPT ![o] = @ \ {b}]
    /\ shown' = IF b \in online /\ IsInView(pos[o], pos[b])
                THEN [shown EXCEPT ![b] = @ \ {o}] ELSE shown
    /\ UNCHANGED <<placeVars, pc, from, newNearby, diffVars, history>>

\* RemoveObject; a monster is dead then, a player revived at (0, 0) or gone.
RemoveObject(o) ==
    /\ pc[o] \in {"dying", "leaving"} /\ oldNearby[o] = {}
    /\ indexed' = indexed \ {o}
    /\ pc' = [pc EXCEPT ![o] = CASE pc[o] = "leaving" -> "remove"
                                 [] o \in Monsters -> "idle"
                                 [] OTHER -> "revive"]
    /\ Change(o)
    /\ UNCHANGED <<online, pos, from, scanVars, diffVars, shown, ops, ghosts, astray>>

\* Die, AddObject, SetPos.  The victim's client is not told to forget what
\* it showed.
Revive(p) ==
    /\ Goto(p, "revive", "scanFull")
    /\ \E t \in Spawn : Free(t) /\ pos' = [pos EXCEPT ![p] = t]
    /\ indexed' = indexed \cup {p}
    /\ ghosts' = [ghosts EXCEPT ![p] = @ \cup shown[p]]
    /\ Change(p)
    /\ UNCHANGED <<online, from, scanVars, diffVars, shown, ops, astray>>

\* No tile is free: the player stays online, in no sector, at (0, 0).
ReviveFails(p) ==
    /\ NoneFree
    /\ Goto(p, "revive", "idle")
    /\ pos' = [pos EXCEPT ![p] = Corner]
    /\ ghosts' = [ghosts EXCEPT ![p] = @ \cup shown[p]]
    /\ Change(p)
    /\ UNCHANGED <<indexed, online, from, scanVars, diffVars, shown, ops, astray>>

\* RemovePlayer; the connection is closed, and with it the client's world.
RemovePlayer(p) ==
    /\ Goto(p, "remove", "idle")
    /\ online' = online \ {p}
    /\ shown' = [shown EXCEPT ![p] = {}]
    /\ ghosts' = [ghosts EXCEPT ![p] = {}]
    /\ Change(p)
    /\ UNCHANGED <<indexed, pos, from, scanVars, diffVars, ops, astray>>

-----------------------------------------------------------------------------
(* A second handler of one object, under the first or one that outlives it: *)
(* a death by a monster's tick, a packet or a logout of the victim's own    *)
(* client, the deaths by two monsters.  One of its steps each; what such    *)
(* handlers leave behind is open, and nothing is claimed of their object.   *)

Overlap(o) == Start /\ (pc[o] # "idle" \/ o \in astray) /\ astray' = astray \cup {o}

\* TryMoveObject, RemoveObject, AddObject, SetPos
Strays(o, t) ==
    /\ Overlap(o)
    /\ pos' = [pos EXCEPT ![o] = t]
    /\ \/ indexed' = indexed \cup {o}
       \/ indexed' = indexed \ {o}
    /\ UNCHANGED <<online, pc, from, scanVars, diffVars, shown, raced, ghosts>>

\* SendAddObject, SendRemoveObject
Tells(o, b) ==
    /\ o # b /\ Overlap(o)
    /\ Introduce(o, b) \/ Part(o, b)
    /\ UNCHANGED <<placeVars, pc, from, scanVars, diffVars, raced, ghosts>>

\* RemovePlayer
Leaves(p) ==
    /\ p \in online /\ Overlap(p)
    /\ online' = online \ {p}
    /\ shown' = [shown EXCEPT ![p] = {}]
    /\ UNCHANGED <<indexed, pos, pc, from, scanVars, diffVars, raced, ghosts>>

-----------------------------------------------------------------------------
ViewNext ==
    \/ \E p \in Players :
          \/ AddPlayer(p) \/ ProcessTeleport(p) \/ Land(p) \/ LandFails(p)
          \/ ProcessDisconnect(p) \/ Revive(p) \/ ReviveFails(p)
          \/ RemovePlayer(p) \/ Leaves(p)
    \/ \E m \in Monsters : RespawnMonster(m)
    \/ \E o \in Objects :
          \/ \E t \in Places : Move(o, t) \/ Strays(o, t)
          \/ ScanFull(o) \/ FullViewSent(o)
          \/ ScanOld(o) \/ ScanNew(o) \/ Diff(o) \/ DiffSent(o)
          \/ OnDied(o) \/ RemoveObject(o)
          \/ \E b \in Objects :
                \/ SendFullView(o, b) \/ LookOld(o, b) \/ LookNew(o, b)
                \/ AddSeen(o, b) \/ RemoveUnseen(o, b) \/ SendDisappear(o, b)
                \/ Tells(o, b)

ViewSpec == ViewInit /\ [][ViewNext]_viewVars

-----------------------------------------------------------------------------
ViewTypeOK ==
    /\ indexed \subseteq Objects /\ online \subseteq Players
    /\ pos \in [Objects -> Places]
    /\ pc \in [Objects -> {"idle", "scanFull", "full", "land", "scanOld", "scanNew", "look",
                           "send", "dying", "leaving", "remove", "revive"}]
    /\ from \in [Objects -> Places \cup {0}]
    /\ oldNearby \in [Objects -> SUBSET Objects] /\ newNearby \in [Objects -> SUBSET Objects]
    /\ oldView \in [Objects -> SUBSET Objects] /\ newView \in [Objects -> SUBSET Objects]
    /\ shown \in [Players -> SUBSET Objects]
    /\ ops \in 0 .. MaxOps
    /\ raced \subseteq SUBSET Objects
    /\ ghosts \in [Players -> SUBSET Objects]
    /\ astray \subseteq Objects

Sees(p, o) == {p, o} \subseteq indexed /\ IsInView(pos[p], pos[o])

(* Two objects of which neither changed under the other's handler, or acted *)
(* outside the index, or in two handlers at once, however third ones        *)
(* interfere: between handlers a client shows the other if it is in view,   *)
(* and does not show it otherwise, unless it is left over from the player's *)
(* death, after moves, teleports, deaths, respawns with and without a free  *)
(* tile, logins and logouts in any order.                                   *)
ShowsWhatIsInView ==
    /\ ViewTypeOK
    /\ \A p \in online \ astray, o \in Objects \ astray :
        p # o /\ pc[p] = "idle" /\ pc[o] = "idle" /\ {p, o} \notin raced =>
            /\ Sees(p, o) => o \in shown[p]
            /\ o \in shown[p] => Sees(p, o) \/ o \in ghosts[p]
=============================================================================
