----------------------------- MODULE PlayerDeath -----------------------------
(***************************************************************************)
(* The places of one player when several workers move it at once.  The     *)
(* player's packets (ProcessMove, ProcessTeleport) are handled one after   *)
(* another, but its disconnect may start on the worker of a failed send,   *)
(* and OnPlayerDied runs on the worker of the monster that dealt the last  *)
(* blow; nothing orders the three.  Each has got the player from the table *)
(* first, in a step of its own, and then works from a copy of the position.*)
(*                                                                         *)
(* held and inSectors are this player's share of SectorManager's two       *)
(* structures; what overlapping operations on this id do to other objects  *)
(* is answered there (Careless).  Other objects may hold any other tile.   *)
(***************************************************************************)
EXTENDS Integers, FiniteSets

CONSTANTS
    Session,        \* the worker with the player's packets
    Closer,         \* the worker that runs DisconnectSession
    Killers,        \* workers that run MonsterAttackPlayer
    Tiles,          \* the walkable tiles, one row of the map
    SectorOf,       \* GetSectorCoord
    Origin,         \* the tile (0, 0)
    Spawn,          \* the tiles AddObject looks at around (0, 0)
    MaxOps          \* bound: operations started in a behaviour

ASSUME DeathAssumption ==
    /\ Session \notin Killers /\ Closer \notin Killers /\ Session # Closer
    /\ Tiles \subseteq Int /\ Origin \in Tiles /\ Spawn \subseteq Tiles
    /\ MaxOps \in Nat

Actors == {Session, Closer} \cup Killers

VARIABLES
    held,           \* tiles whose word is this id
    inSectors,      \* sectors whose set contains this id
    pos,            \* Player::m_pos
    pc, op,         \* where each actor is, and in which handler
    old, new,       \* its local copies: position read first, tile claimed
    gone,           \* RemovePlayer has run
    limbo,          \* some AddObject found no tile
    ops,            \* operations started (bounded by MaxOps)
    stale           \* history: a position, or the player, changed under an actor

mapVars == <<held, inSectors, pos>>
deathVars    == <<held, inSectors, pos, pc, op, old, new, gone, limbo, ops, stale>>

DeathInit ==
    /\ pos \in Tiles
    /\ held = {pos}
    /\ inSectors = {SectorOf[pos]}
    /\ pc = [a \in Actors |-> "idle"]
    /\ op = [a \in Actors |-> "none"]
    /\ old = [a \in Actors |-> Origin]
    /\ new = [a \in Actors |-> Origin]
    /\ gone = FALSE /\ limbo = FALSE /\ ops = 0 /\ stale = FALSE

Goto(a, from, to) == pc[a] = from /\ pc' = [pc EXCEPT ![a] = to]

\* An actor with a copy of the position that it has not used up.
Busy(a) == pc[a] \notin {"idle", "found"}

\* A handler that has the player begins: GetPos copies its position.  Nothing
\* asks again whether the player is still in the world.
Begin(a, name, to) ==
    /\ ops < MaxOps
    /\ Goto(a, "found", to)
    /\ ops' = ops + 1
    /\ op' = [op EXCEPT ![a] = name]
    /\ old' = [old EXCEPT ![a] = pos]
    /\ UNCHANGED <<mapVars, gone, limbo, stale>>

\* One step in a direction, onto a walkable tile.
Steps(t) == t \in {pos - 1, pos + 1} /\ t \in Tiles

\* GetPlayer, or FindNearestPlayerInRange for a monster, has returned the
\* player: from here on it stays reachable, whatever becomes of it.
GetPlayer(a) ==
    /\ ~gone
    /\ Goto(a, "idle", "found")
    /\ UNCHANGED <<mapVars, op, old, new, gone, limbo, ops, stale>>

\* The move comes too early or into a wall; the hit does not kill.
GiveUp(a) ==
    /\ a # Closer
    /\ Goto(a, "found", "idle")
    /\ UNCHANGED <<mapVars, op, old, new, gone, limbo, ops, stale>>

ProcessMove(t) ==
    /\ Steps(t)
    /\ Begin(Session, "move", "claimTarget")
    /\ new' = [new EXCEPT ![Session] = t]

ProcessTeleport == Begin(Session, "teleport", "release") /\ UNCHANGED new

ProcessDisconnect == Begin(Closer, "disconnect", "release") /\ UNCHANGED new

OnPlayerDied(k) == Begin(k, "die", "release") /\ UNCHANGED new

-----------------------------------------------------------------------------
(* TryMoveObject *)

ClaimTarget ==
    /\ new[Session] \notin held
    /\ Goto(Session, "claimTarget", "release")
    /\ held' = held \cup {new[Session]}
    /\ UNCHANGED <<inSectors, pos, op, old, new, gone, limbo, ops, stale>>

\* The CAS fails: the tile is taken, by somebody else or by this very id.
MoveRefused ==
    /\ Goto(Session, "claimTarget", "idle")
    /\ UNCHANGED <<mapVars, op, old, new, gone, limbo, ops, stale>>

MoveSector ==
    LET from == SectorOf[old[Session]]
        to   == SectorOf[new[Session]]
    IN  /\ Goto(Session, "moveSector", "setPos")
        /\ inSectors' = IF from = to THEN inSectors ELSE (inSectors \ {from}) \cup {to}
        /\ UNCHANGED <<held, pos, op, old, new, gone, limbo, ops, stale>>

-----------------------------------------------------------------------------
(* RemoveObject(id, old) *)

Release(a) ==
    /\ Goto(a, "release", IF op[a] = "move" THEN "moveSector" ELSE "erase")
    /\ held' = held \ {old[a]}
    /\ UNCHANGED <<inSectors, pos, op, old, new, gone, limbo, ops, stale>>

AfterErase == [teleport |-> "claim", disconnect |-> "remove", die |-> "revive"]

Erase(a) ==
    /\ Goto(a, "erase", AfterErase[op[a]])
    /\ inSectors' = inSectors \ {SectorOf[old[a]]}
    /\ UNCHANGED <<held, pos, op, old, new, gone, limbo, ops, stale>>

\* Player::Die: the position is (0, 0) until the respawn has found a tile.
Revive(k) ==
    /\ Goto(k, "revive", "claim")
    /\ pos' = Origin
    /\ stale' = (stale \/ \E b \in Actors \ {k} : Busy(b))
    /\ UNCHANGED <<held, inSectors, op, old, new, gone, limbo, ops>>

RemovePlayer ==
    /\ Goto(Closer, "remove", "idle")
    /\ gone' = TRUE
    /\ stale' = (stale \/ \E b \in Actors \ {Closer} : pc[b] # "idle")
    /\ UNCHANGED <<mapVars, op, old, new, limbo, ops>>

-----------------------------------------------------------------------------
(* AddObject *)

Around(a) == IF op[a] = "teleport" THEN Tiles ELSE Spawn

Claim(a) ==
    /\ Goto(a, "claim", "insert")
    /\ \E t \in Around(a) \ held :
          held' = held \cup {t} /\ new' = [new EXCEPT ![a] = t]
    /\ UNCHANGED <<inSectors, pos, op, old, gone, limbo, ops, stale>>

\* No tile free: ProcessTeleport tries again around (0, 0) ...
ReturnToOrigin ==
    /\ pc[Session] = "claim" /\ op[Session] = "teleport"
    /\ op' = [op EXCEPT ![Session] = "return"]
    /\ UNCHANGED <<mapVars, pc, old, new, gone, limbo, ops, stale>>

\* ... ignores the answer and stores a position that nobody has assigned;
\* OnPlayerDied returns.
NoTile(a) ==
    /\ op[a] # "teleport"
    /\ Goto(a, "claim", IF op[a] = "die" THEN "idle" ELSE "setPos")
    /\ limbo' = TRUE
    /\ \E t \in Tiles : new' = [new EXCEPT ![a] = t]
    /\ UNCHANGED <<mapVars, op, old, gone, ops, stale>>

Insert(a) ==
    /\ Goto(a, "insert", "setPos")
    /\ inSectors' = inSectors \cup {SectorOf[new[a]]}
    /\ UNCHANGED <<held, pos, op, old, new, gone, limbo, ops, stale>>

\* Mutant: OnPlayerDied relies on Die() for the position.
ForgetPos(a) ==
    /\ Goto(a, "setPos", "idle")
    /\ pos' = IF op[a] = "die" THEN pos ELSE new[a]
    /\ stale' = (stale \/ \E b \in Actors \ {a} : Busy(b))
    /\ UNCHANGED <<held, inSectors, op, old, new, gone, limbo, ops>>

SetPos(a) ==
    /\ Goto(a, "setPos", "idle")
    /\ pos' = new[a]
    /\ stale' = (stale \/ \E b \in Actors \ {a} : Busy(b))
    /\ UNCHANGED <<held, inSectors, op, old, new, gone, limbo, ops>>

-----------------------------------------------------------------------------
DeathNext ==
    \/ \E t \in {pos - 1, pos + 1} : ProcessMove(t)
    \/ ProcessTeleport \/ ProcessDisconnect
    \/ ClaimTarget \/ MoveRefused \/ MoveSector \/ RemovePlayer \/ ReturnToOrigin
    \/ \E k \in Killers : OnPlayerDied(k) \/ Revive(k)
    \/ \E a \in Actors : GetPlayer(a) \/ GiveUp(a)
    \/ \E a \in Actors : Release(a) \/ Erase(a) \/ Claim(a) \/ NoTile(a) \/ Insert(a) \/ SetPos(a)

DeathSpec == DeathInit /\ [][DeathNext]_deathVars

-----------------------------------------------------------------------------
DeathTypeOK ==
    /\ held \subseteq Tiles
    /\ inSectors \subseteq {SectorOf[t] : t \in Tiles}
    /\ pos \in Tiles
    /\ pc \in [Actors -> {"idle", "found", "claimTarget", "release", "moveSector", "erase",
                          "remove", "revive", "claim", "insert", "setPos"}]
    /\ op \in [Actors -> {"none", "move", "teleport", "return", "disconnect", "die"}]
    /\ old \in [Actors -> Tiles] /\ new \in [Actors -> Tiles]
    /\ gone \in BOOLEAN /\ limbo \in BOOLEAN /\ stale \in BOOLEAN /\ ops \in 0 .. MaxOps

NobodyBusy == \A a \in Actors : pc[a] = "idle"

(* Unless a handler stores a position under another one that works with a  *)
(* copy, or takes the player out under one that has got it, however        *)
(* moves, teleports, hits, deaths and the disconnect overlap, they leave   *)
(* the player on one tile and in one sector, those of its position, or     *)
(* nowhere once it has left.                                               *)
(* It is on tiles that can be walked on at any time.                       *)
ExactUnlessStale ==
    /\ DeathTypeOK
    /\ NobodyBusy /\ ~stale /\ ~limbo =>
        IF gone THEN held = {} /\ inSectors = {}
        ELSE held = {pos} /\ inSectors = {SectorOf[pos]}
=============================================================================
