------------------------------- MODULE Pursuit -------------------------------
(***************************************************************************)
(* An AGRO monster and its MONSTER_AI timer (Server/Game/GameWorld.cpp,    *)
(* Monster.cpp): HasObserverNearby and Deactivate, AITick, AgroPursue,     *)
(* RoamingMove, FindNearestPlayerInRange and MoveMonster, over the search  *)
(* of module Pathfinder.  Other workers run the handlers of the players,   *)
(* who come, move, die, come back, leave and wake the monster at any       *)
(* moment: each place where the tick reads their state is an action.       *)
(* GetPlayer and the first read of the player it returns are one, for one  *)
(* who leaves in between is as it was when it left.                        *)
(*                                                                         *)
(* A player's tile and its position are one variable; module SectorManager *)
(* takes a move apart.  The monster lives; module MonsterLife has its      *)
(* death.                                                                  *)
(***************************************************************************)
EXTENDS Pathfinder, FiniteSets

CONSTANTS
    Players,        \* session ids
    Spawn,          \* m_spawnPos
    HalfView,       \* HALF_VIEW
    HalfAgro,       \* HALF_AGRO
    RoamingRange,   \* ROAMING_RANGE
    Entries,        \* tiles players come in, land and respawn on
    MaxMoves,       \* bound: moves, entries, departures and deaths of players
    Nobody          \* no player

ASSUME PursuitAssumption ==
    /\ Spawn \in Walkable /\ Entries \subseteq Walkable
    /\ HalfView \in Nat /\ HalfAgro \in 0 .. HalfView /\ RoamingRange \in Nat
    /\ MaxMoves \in Nat /\ Nobody \notin Players

VARIABLES
    at,             \* each player's m_pos, and its tile if it has one
    stage,          \* where each player stands between coming and leaving
    listed,         \* players in the sectors' sets
    waking,         \* <<player, tile>>: ActivateNearbyMonsters, not run yet
    pos,            \* m_pos of the monster
    active,         \* m_isActive
    target,         \* m_targetPlayerId
    tick,           \* where the MONSTER_AI handler stands
    unread,         \* players listed by GetNearbyObjects and not yet read
    who, gone,      \* the id or player in hand; that player has left
    nearest, distSq,  \* nearest, minDistSq
    seen,           \* targetPos
    side,           \* i, of the loops over the four sides
    victims,        \* adjacentVictims left to attack
    picked,         \* the side goalPos is on; 0: targetPos itself
    ready,          \* CanAttack
    moves,          \* what players have done so far
    stuck,          \* history: this tick, or the last, found no next tile
    met             \* history: see HitsWhoStoodBeside

worldVars == <<at, stage, listed, moves>>
scanVars  == <<unread, who, gone, nearest, distSq>>
aimVars   == <<seen, side, victims, picked, met>>
stateVars == <<target, active, ready, stuck>>
vars == <<pathVars, worldVars, waking, pos, tick, stateVars, scanVars, aimVars>>

Max(a, b) == IF a >= b THEN a ELSE b
Chebyshev(a, b) == Max(Abs(a[1] - b[1]), Abs(a[2] - b[2]))
InRoamingRange(t) == Chebyshev(t, Spawn) <= RoamingRange

\* "entering": on its tile and not in m_players yet; "removed": the reverse,
\* leaving; "dead", "buried", "corner": OnPlayerDied; "lifted": ProcessTeleport.
OnTile(p)  == stage[p] \in {"entering", "in", "dead"}
Present(p) == stage[p] \notin {"out", "entering"}
Alive(p)   == Present(p) /\ stage[p] \notin {"dead", "buried"}
Occupied(t) == t = pos \/ \E p \in Players : OnTile(p) /\ at[p] = t
InView(p)  == Present(p) /\ Chebyshev(at[p], pos) <= HalfView
Corner == <<0, 0>>

Init ==
    /\ PathInit /\ start = Spawn
    /\ at = [p \in Players |-> Corner] /\ stage = [p \in Players |-> "out"]
    /\ listed = {} /\ waking = {} /\ moves = 0
    /\ pos = Spawn /\ active = FALSE /\ target = Nobody /\ tick = "idle"
    /\ unread = {} /\ who = Nobody /\ gone = FALSE /\ nearest = Nobody /\ distSq = 0
    /\ seen = Spawn /\ side = 1 /\ victims = <<>> /\ picked = 0
    /\ ready = TRUE /\ stuck = FALSE /\ met = {}

-----------------------------------------------------------------------------
(* The players, by other workers *)

\* FindPath reads nothing that others write: what they do while it runs is as
\* good as done right after it.
PathRests == search \in {"idle", "done"}

Changes(p, a, b) == stage[p] = a /\ stage' = [stage EXCEPT ![p] = b]
Counted == moves < MaxMoves /\ moves' = moves + 1

\* GetNearbyObjects reads sector after sector: it may meet a player that comes
\* or moves twice, or not at all.
Scanned(q) ==
    unread' \in IF q # {} /\ tick \in {"look", "nearest", "distance"}
                THEN {unread \ q, unread \cup q} ELSE {unread}

Unlists(p) ==
    /\ listed' = listed \ {p}
    /\ unread' \in {unread \ {p}, unread}

Lists(p) == listed' = listed \cup {p} /\ Scanned({p})

\* MoveObject lists a player only if it comes to another sector.
Relists(p) ==
    /\ listed' \in {listed, listed \cup {p}}
    /\ Scanned({p} \cap listed')

\* It has its new tile and goes on to ActivateNearbyMonsters.
Arrives(p, t) ==
    /\ ~Occupied(t)
    /\ at' = [at EXCEPT ![p] = t]
    /\ met' = IF Adjacent(t, pos) THEN met \cup {p} ELSE met

Rest == UNCHANGED <<pathVars, pos, tick, stateVars>>
HandRests == UNCHANGED <<who, gone, nearest, distSq, side, picked>>

\* The handlers of one player run one after another.
HasLooked(p) == \A t \in Tiles : <<p, t>> \notin waking
Looks(p, t) == waking' = waking \cup {<<p, t>>}

\* One that OnPlayerDied left without a tile gets one with its next move.
Moves(p) ==
    /\ PathRests /\ Counted /\ HasLooked(p)
    /\ \E s \in {"in", "corner"} : Changes(p, s, "in")
    /\ \E t \in Around(at[p]) : Arrives(p, t) /\ Looks(p, t)
    /\ Relists(p)
    /\ Rest /\ HandRests /\ UNCHANGED <<seen, victims>>

\* ProcessTeleport: RemoveObject, and AddObject at another place.
Lifts(p) ==
    /\ PathRests /\ Counted /\ HasLooked(p)
    /\ \E s \in {"in", "corner"} : Changes(p, s, "lifted")
    /\ Unlists(p)
    /\ Rest /\ HandRests /\ UNCHANGED <<at, waking, seen, victims, met>>

\* OnPlayerDied goes on in the same way.
Lands(p) ==
    /\ PathRests
    /\ \E s \in {"lifted", "corner"} : Changes(p, s, "in")
    /\ \E t \in Entries : Arrives(p, t) /\ Looks(p, t)
    /\ Lists(p)
    /\ Rest /\ HandRests /\ UNCHANGED <<moves, seen, victims>>

\* AddPlayer: AddObject, then m_players.
AddObject(p) ==
    /\ PathRests /\ Counted
    /\ Changes(p, "out", "entering")
    /\ \E t \in Entries : Arrives(p, t)
    /\ Lists(p)
    /\ Rest /\ HandRests /\ UNCHANGED <<waking, seen, victims>>

\* A reused id is taken for the one read before.
AddPlayer(p) ==
    /\ PathRests
    /\ Changes(p, "entering", "in")
    /\ Looks(p, at[p])
    /\ met' = IF tick = "player" /\ who = p THEN met \cup {p} ELSE met
    /\ Rest /\ HandRests /\ UNCHANGED <<at, listed, moves, unread, seen, victims>>

\* ActivateNearbyMonsters.
Wakes(p) ==
    /\ PathRests
    /\ \E t \in Tiles :
          /\ <<p, t>> \in waking
          /\ waking' = waking \ {<<p, t>>}
          /\ active' = (active \/ Chebyshev(t, pos) <= HalfView)
    /\ UNCHANGED <<pathVars, pos, tick, target, ready, stuck, worldVars, scanVars, aimVars>>

\* ProcessDisconnect, whatever else happens to the player: RemoveObject ...
RemoveObject(p) ==
    /\ PathRests /\ Counted
    /\ \E s \in {"in", "dead", "buried", "corner"} : Changes(p, s, "removed")
    /\ Unlists(p)
    /\ Rest /\ HandRests /\ UNCHANGED <<at, waking, seen, victims, met>>

\* ... and RemovePlayer.  Who has the player in hand keeps it as it was; a hit
\* on it then reaches nobody.
RemovePlayer(p) ==
    /\ PathRests
    /\ Changes(p, "removed", "out")
    /\ at' = [at EXCEPT ![p] = Corner]
    /\ IF tick \in {"position", "distance"} /\ who = p /\ ~gone
       THEN gone' = TRUE /\ seen' = at[p] ELSE UNCHANGED <<gone, seen>>
    /\ victims' = [i \in DOMAIN victims |-> IF victims[i] = p THEN Nobody ELSE victims[i]]
    /\ met' = met \ {p}
    /\ Rest /\ UNCHANGED <<listed, waking, moves, unread, who, nearest, distSq, side, picked>>

\* A hit takes the last hit point, and OnPlayerDied goes on: RemoveObject,
\* Die(), which makes it alive at (0, 0), AddObject if that finds a tile.  (A
\* death under the player's own handler or disconnect: module PlayerDeath.)
Dies(p) ==
    /\ PathRests /\ Counted
    /\ Changes(p, "in", "dead")
    /\ Rest /\ UNCHANGED <<at, listed, waking, scanVars, aimVars>>

Buried(p) ==
    /\ PathRests
    /\ Changes(p, "dead", "buried")
    /\ Unlists(p)
    /\ Rest /\ HandRests /\ UNCHANGED <<at, waking, moves, seen, victims, met>>

Revives(p) ==
    /\ PathRests
    /\ Changes(p, "buried", "corner")
    /\ at' = [at EXCEPT ![p] = Corner]
    /\ Rest /\ UNCHANGED <<listed, waking, moves, scanVars, aimVars>>

PlayerAct(p) ==
    \/ Moves(p) \/ Lifts(p) \/ Lands(p) \/ AddObject(p) \/ AddPlayer(p) \/ Wakes(p)
    \/ RemoveObject(p) \/ RemovePlayer(p) \/ Dies(p) \/ Buried(p) \/ Revives(p)

-----------------------------------------------------------------------------
(* HandleTimerEvent(MONSTER_AI): the timer is there as long as the monster  *)
(* is active (module MonsterLife), and each tick adds the next.             *)

\* The handler's steps outside the search.
Step(x, y) == tick = x /\ tick' = y /\ UNCHANGED <<worldVars, waking, pathVars>>
Ends(x) ==
    /\ Step(x, "idle")
    /\ unread' = {} /\ who' = Nobody /\ gone' = FALSE /\ nearest' = Nobody /\ distSq' = 0
    /\ seen' = Spawn /\ side' = 1 /\ victims' = <<>> /\ picked' = 0 /\ met' = {}

AITimerFires ==
    /\ Step("idle", "look") /\ active
    /\ unread' = listed /\ stuck' = FALSE
    /\ UNCHANGED <<pos, target, active, ready, who, gone, nearest, distSq, aimVars>>

\* HasObserverNearby.
Sees(p) ==
    /\ Step("look", "target") /\ p \in unread /\ InView(p)
    /\ unread' = {}
    /\ UNCHANGED <<pos, stateVars, who, gone, nearest, distSq, aimVars>>

Passes(p) ==
    /\ Step("look", "look") /\ p \in unread /\ ~InView(p)
    /\ unread' = unread \ {p}
    /\ UNCHANGED <<pos, stateVars, who, gone, nearest, distSq, aimVars>>

SeesNobody ==
    /\ Step("look", "deactivate") /\ unread = {}
    /\ UNCHANGED <<pos, stateVars, scanVars, aimVars>>

\* No tick, no next timer: the target is kept.
Deactivate ==
    /\ Ends("deactivate")
    /\ active' = FALSE
    /\ UNCHANGED <<pos, target, ready, stuck>>

-----------------------------------------------------------------------------
(* AgroPursue without a target: FindNearestPlayerInRange *)

NoTarget ==
    /\ Step("target", "nearest") /\ target = Nobody
    /\ unread' = listed
    /\ UNCHANGED <<pos, stateVars, who, gone, nearest, distSq, aimVars>>

\* Gone or dead.
PassesOver(p) ==
    /\ Step("nearest", "nearest") /\ p \in unread /\ ~Alive(p)
    /\ unread' = unread \ {p}
    /\ UNCHANGED <<pos, stateVars, who, gone, nearest, distSq, aimVars>>

Considers(p) ==
    /\ Step("nearest", "distance") /\ p \in unread /\ Alive(p)
    /\ unread' = unread \ {p} /\ who' = p
    /\ UNCHANGED <<pos, stateVars, gone, nearest, distSq, aimVars>>

\* The position of the player in hand.
HandPos == IF gone THEN seen ELSE at[who]
InAgroRange(t) == Chebyshev(t, pos) <= HalfAgro
Square(n) == n * n
DistSq(t) == Square(t[1] - pos[1]) + Square(t[2] - pos[2])

Measures ==
    /\ Step("distance", "nearest")
    /\ IF InAgroRange(HandPos) /\ (nearest = Nobody \/ DistSq(HandPos) < distSq)
       THEN nearest' = who /\ distSq' = DistSq(HandPos)
       ELSE UNCHANGED <<nearest, distSq>>
    /\ who' = Nobody /\ gone' = FALSE /\ seen' = Spawn
    /\ UNCHANGED <<pos, stateVars, unread, side, victims, picked, met>>

SetTarget ==
    /\ Ends("nearest") /\ unread = {} /\ nearest # Nobody
    /\ target' = nearest
    /\ UNCHANGED <<pos, active, ready, stuck>>

\* Nobody there: a step in a random direction, if MoveMonster can take it.
RoamingMove ==
    /\ Ends("nearest") /\ unread = {} /\ nearest = Nobody
    /\ \/ \E t \in Around(pos) : InRoamingRange(t) /\ ~Occupied(t) /\ pos' = t
       \/ UNCHANGED pos
    /\ UNCHANGED stateVars

-----------------------------------------------------------------------------
(* AgroPursue with a target *)

\* Mutant: whoever is gone or dead stays the target.
KeepTarget ==
    /\ Ends("target") /\ target # Nobody /\ ~Alive(target)
    /\ UNCHANGED <<pos, stateVars>>

ClearTarget ==
    /\ Ends("target") /\ target # Nobody /\ ~Alive(target)
    /\ target' = Nobody
    /\ UNCHANGED <<pos, active, ready, stuck>>

HasTarget ==
    /\ Step("target", "position") /\ target # Nobody /\ Alive(target)
    /\ who' = target
    /\ UNCHANGED <<pos, stateVars, unread, gone, nearest, distSq, aimVars>>

OutOfRange ==
    /\ Ends("position") /\ ~InAgroRange(HandPos)
    /\ target' = Nobody
    /\ UNCHANGED <<pos, active, ready, stuck>>

SeeTarget ==
    /\ Step("position", "occupant") /\ InAgroRange(HandPos)
    /\ seen' = HandPos
    /\ who' = Nobody /\ gone' = FALSE
    /\ met' = {p \in Players : OnTile(p) /\ Adjacent(at[p], pos)}
    /\ UNCHANGED <<pos, stateVars, unread, nearest, distSq, side, victims, picked>>

\* The tiles around t in the order of DX, DY.
Sides(t) == <<<<t[1], t[2] - 1>>, <<t[1], t[2] + 1>>, <<t[1] - 1, t[2]>>, <<t[1] + 1, t[2]>>>>

\* Mutant: the tiles around the target, as in the loop after.
WrongSide ==
    /\ Step("occupant", "player") /\ side <= 4
    /\ \E p \in Players : OnTile(p) /\ at[p] = Sides(seen)[side] /\ who' = p
    /\ UNCHANGED <<pos, stateVars, unread, gone, nearest, distSq, aimVars>>

\* Who is on the next of the four tiles around the monster ...
GetOccupant ==
    /\ Step("occupant", "player") /\ side <= 4
    /\ \E p \in Players : OnTile(p) /\ at[p] = Sides(pos)[side] /\ who' = p
    /\ UNCHANGED <<pos, stateVars, unread, gone, nearest, distSq, aimVars>>

NoOccupant ==
    /\ Step("occupant", "occupant") /\ side <= 4
    /\ \A p \in Players : ~(OnTile(p) /\ at[p] = Sides(pos)[side])
    /\ side' = side + 1
    /\ UNCHANGED <<pos, stateVars, scanVars, seen, victims, picked, met>>

\* ... and, asked a moment later, whether it is there and alive.
CollectVictim ==
    /\ Step("player", "occupant")
    /\ victims' = IF Alive(who) THEN Append(victims, who) ELSE victims
    /\ side' = side + 1 /\ who' = Nobody
    /\ UNCHANGED <<pos, stateVars, unread, gone, nearest, distSq, seen, picked, met>>

Beside ==
    /\ Step("occupant", "attack") /\ side = 5 /\ victims # <<>> /\ ready
    /\ UNCHANGED <<pos, stateVars, scanVars, aimVars>>

Waits ==
    /\ Ends("occupant") /\ side = 5 /\ victims # <<>> /\ ~ready
    /\ UNCHANGED <<pos, stateVars>>

\* MonsterAttackPlayer, one after another.
Attack ==
    /\ Step("attack", "attack") /\ victims # <<>>
    /\ victims' = Tail(victims)
    /\ UNCHANGED <<pos, stateVars, scanVars, seen, side, picked, met>>

OnAttackPerformed ==
    /\ Ends("attack") /\ victims = <<>>
    /\ ready' = FALSE
    /\ UNCHANGED <<pos, target, active, stuck>>

\* ATTACK_COOLDOWN_MS have passed.
CooledDown ==
    /\ ~ready /\ PathRests
    /\ ready' = TRUE
    /\ UNCHANGED <<pathVars, worldVars, waking, pos, tick, target, active, stuck, scanVars,
                   aimVars>>

NobodyBeside ==
    /\ Step("occupant", "goal") /\ side = 5 /\ victims = <<>>
    /\ side' = 1
    /\ UNCHANGED <<pos, stateVars, scanVars, seen, victims, picked, met>>

\* Of the tiles around the target's position that are free when read, the
\* first that none is nearer than, else that position itself.
Free(t) == t \in Walkable /\ (t = pos \/ ~Occupied(t))
GoalPos == IF picked = 0 THEN seen ELSE Sides(seen)[picked]

\* Mutant: the comparison is the wrong way round.
Farther(t) == picked = 0 \/ Manhattan(t, pos) > Manhattan(GoalPos, pos)

Nearer(t) == picked = 0 \/ Manhattan(t, pos) < Manhattan(GoalPos, pos)

ConsiderSide ==
    /\ Step("goal", "goal") /\ side <= 4
    /\ LET t == Sides(seen)[side] IN picked' = IF Free(t) /\ Nearer(t) THEN side ELSE picked
    /\ side' = side + 1
    /\ UNCHANGED <<pos, stateVars, scanVars, seen, victims, met>>

ChooseGoal ==
    /\ tick = "goal" /\ tick' = "path" /\ side = 5
    /\ FindPath(pos, GoalPos)
    /\ UNCHANGED <<worldVars, waking, pos, stateVars, scanVars, aimVars>>

Search == PathStep /\ UNCHANGED <<worldVars, waking, pos, tick, stateVars, scanVars, aimVars>>

NextTile == path[1]

\* MoveMonster, if there is a next tile, inside the range: TryMoveObject.
MoveMonster ==
    /\ tick = "path" /\ tick' = "idle" /\ search = "done"
    /\ IF path # <<>> /\ InRoamingRange(NextTile) /\ ~Occupied(NextTile)
       THEN pos' = NextTile /\ UNCHANGED stuck
       ELSE stuck' = TRUE /\ UNCHANGED pos
    /\ Forget
    /\ seen' = Spawn /\ side' = 1 /\ picked' = 0 /\ met' = {}
    /\ UNCHANGED <<worldVars, waking, target, active, ready, scanVars, victims>>

-----------------------------------------------------------------------------
AITick ==
    \/ AITimerFires \/ SeesNobody \/ Deactivate \/ NoTarget
    \/ \E p \in Players : Sees(p) \/ Passes(p) \/ PassesOver(p) \/ Considers(p)
    \/ Measures \/ SetTarget \/ RoamingMove
    \/ ClearTarget \/ HasTarget \/ OutOfRange \/ SeeTarget
    \/ GetOccupant \/ NoOccupant \/ CollectVictim \/ Beside \/ Waits \/ Attack
    \/ OnAttackPerformed \/ NobodyBeside \/ ConsiderSide \/ ChooseGoal \/ Search \/ MoveMonster

Next == (\E p \in Players : PlayerAct(p)) \/ AITick \/ CooledDown

\* A handler that has begun goes on, and the timer of an active monster fires.
Spec == Init /\ [][Next]_vars /\ WF_vars(AITick) /\ WF_vars(CooledDown)

TypeOK ==
    /\ PathTypeOK
    /\ at \in [Players -> Tiles]
    /\ stage \in [Players -> {"out", "entering", "in", "removed", "dead", "buried", "corner",
                            "lifted"}]
    /\ listed \subseteq Players
    /\ waking \subseteq Players \X Tiles /\ moves \in 0 .. MaxMoves
    /\ pos \in Walkable /\ active \in BOOLEAN /\ target \in Players \cup {Nobody}
    /\ tick \in {"idle", "look", "deactivate", "target", "nearest", "distance", "position",
                 "occupant", "player", "attack", "goal", "path"}
    /\ unread \subseteq Players /\ who \in Players \cup {Nobody} /\ gone \in BOOLEAN
    /\ nearest \in Players \cup {Nobody} /\ distSq \in Int
    /\ seen \in Tiles /\ side \in 1 .. 5 /\ picked \in 0 .. 4
    /\ victims \in Seq(Players \cup {Nobody})
    /\ ready \in BOOLEAN /\ stuck \in BOOLEAN /\ met \subseteq Players

(* The monster does not leave its range, chasing or roaming.               *)
StaysInRange == InRoamingRange(pos)

(* Whom the monster is about to hit has stood beside it since the tick     *)
(* looked around, whatever it has done since: moved off, died, come back.  *)
(* Nobody else is hit, but one who logged in under the id of a player that *)
(* left between GetOccupant and GetPlayer.  (Nobody is one that has left.) *)
HitsWhoStoodBeside ==
    \A i \in DOMAIN victims : victims[i] \in met \cup {Nobody}

(* A step of the chase is on a shortest way to the tile it has chosen,     *)
(* whatever the players have done since it looked at the first of them.    *)
GainsOnTarget ==
    [][tick = "path" /\ pos' # pos =>
           /\ Adjacent(pos, pos')
           /\ goal \notin Within(pos)[Len(path) - 1]
           /\ goal \in Within(pos')[Len(path) - 1]]_vars

(* A target that is dead or gone is let go, unless nobody is seen in view  *)
(* any more: then the monster sleeps, and keeps it.                        *)
LetsGo == \A p \in Players : target = p /\ ~Alive(p) ~> target # p \/ Alive(p) \/ ~active

InSight(p) ==
    /\ moves = MaxMoves /\ waking = {}
    /\ tick = "target" /\ target = p /\ stage[p] = "in" /\ p \in listed

(* Once the players stand still, the monster reaches a target in range, or *)
(* another player on the way, or a tick finds no tile to step on, or the   *)
(* walls take it out of range.  It does not fall asleep on the way.        *)
Catches ==
    \A p \in Players : InSight(p) ~> tick = "attack" \/ stuck \/ target # p \/ stage[p] # "in"
=============================================================================
