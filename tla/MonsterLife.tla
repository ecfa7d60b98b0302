----------------------------- MODULE MonsterLife -----------------------------
(***************************************************************************)
(* One monster between its timers and the players around it.  The players' *)
(* workers hit it (ProcessAttack, OnMonsterDied) and wake it               *)
(* (ActivateNearbyMonsters); other workers run its MONSTER_AI and          *)
(* MONSTER_RESPAWN timers.  Each call that takes Monster::m_lock, each     *)
(* access to m_isActive and each step of SectorManager is one action.      *)
(*                                                                         *)
(* The monster's roaming range lies in one sector here, so that its place  *)
(* in the sector index is a Boolean (module PlayerDeath has several        *)
(* sectors), and no other object competes for the tiles (SectorManager).   *)
(***************************************************************************)
EXTENDS Integers, FiniteSets

CONSTANTS
    Attackers,      \* players whose workers run ProcessAttack
    Viewers,        \* players that come into view and leave
    Brains,         \* workers that may be handling a MONSTER_AI timer
    Spawners,       \* workers that may be handling a MONSTER_RESPAWN timer
    Tiles,          \* the walkable tiles of the roaming range
    SpawnTile,      \* Monster::m_spawnPos
    MaxHp,          \* Monster::m_maxHp; a hit takes 1
    MaxLives,       \* bound: lives in a behaviour
    MaxViews,       \* bound: times a player comes into view
    MaxFull         \* bound: respawns that find no tile

ASSUME MonsterAssumption ==
    /\ SpawnTile \in Tiles
    /\ MaxHp \in Nat \ {0} /\ MaxLives \in Nat \ {0} /\ MaxViews \in Nat /\ MaxFull \in Nat
    /\ Brains \cap Spawners = {}

Lives   == 1 .. MaxLives
Lookers == Brains \cup Spawners    \* workers that call HasObserverNearby

VARIABLES
    hp, active, pos,    \* m_hp, m_isActive, m_pos
    held, indexed,      \* tiles whose word is this id; in its sector's set
    life,               \* how often Respawn() has run, plus 1
    aiTimers,           \* MONSTER_AI entries, by the life they were added in
    respawns,           \* MONSTER_RESPAWN entries, by the life they were added in
    apc, at,            \* ProcessAttack: where, and OnMonsterDied's monsterPos
    vpc, vlife,         \* ActivateNearbyMonsters: where, and since which life
    bpc, blife, from, to,  \* MONSTER_AI handler: where, life, MoveMonster's tiles
    unread,             \* HasObserverNearby: players listed and not yet looked at
    rpc, place,         \* RespawnMonster: where, and the tile AddObject found
    views, full,        \* counters bounded by MaxViews, MaxFull
    kills, rewards,     \* history: hits that took hp to 0, and GainExp calls
    overlooked,         \* history: the last to come found the flag set, and the AI
                        \* handler past it or about to clear the flag
    raced               \* history: a death overlapped a move, a respawn or another death,
                        \* or a move began after a death or under a respawn

mapVars   == <<held, indexed>>
attackVars == <<apc, at, kills, rewards>>
viewVars  == <<vpc, vlife, unread, views, overlooked>>
brainVars == <<bpc, blife, from, to>>
spawnVars == <<rpc, place, full>>
monsterVars == <<hp, active, pos, life, aiTimers, respawns, raced,
          mapVars, attackVars, viewVars, brainVars, spawnVars>>

IsDead == hp = 0

\* SpawnMonsters: inactive, on the tile AddObject found, which is m_spawnPos.
MonsterInit ==
    /\ hp = MaxHp /\ active = FALSE /\ pos = SpawnTile
    /\ held = {SpawnTile} /\ indexed = TRUE
    /\ life = 1
    /\ aiTimers = [l \in Lives |-> 0] /\ respawns = [l \in Lives |-> 0]
    /\ apc = [p \in Attackers |-> "idle"] /\ at = [p \in Attackers |-> SpawnTile]
    /\ vpc = [p \in Viewers |-> "away"] /\ vlife = [p \in Viewers |-> 1]
    /\ bpc = [b \in Brains |-> "idle"] /\ blife = [b \in Brains |-> 1]
    /\ from = [b \in Brains |-> SpawnTile] /\ to = [b \in Brains |-> SpawnTile]
    /\ unread = [x \in Lookers |-> {}]
    /\ rpc = [w \in Spawners |-> "idle"] /\ place = [w \in Spawners |-> SpawnTile]
    /\ views = 0 /\ full = 0 /\ kills = 0 /\ rewards = 0 /\ overlooked = FALSE /\ raced = FALSE

GotoA(p, a, b) == apc[p] = a /\ apc' = [apc EXCEPT ![p] = b]
GotoV(p, a, b) == vpc[p] = a /\ vpc' = [vpc EXCEPT ![p] = b]
GotoB(b, x, y) == bpc[b] = x /\ bpc' = [bpc EXCEPT ![b] = y]
GotoR(w, a, b) == rpc[w] = a /\ rpc' = [rpc EXCEPT ![w] = b]

TimerAdded(timers) == [timers EXCEPT ![life] = @ + 1]

\* The position is copied and not yet used up: inside MoveMonster, OnMonsterDied.
Moving(b) == bpc[b] \in {"claim", "release", "setPos"}

\* OnMonsterDied has copied the position, and nobody has brought it back yet.
Buried ==
    \/ \E p \in Attackers : apc[p] \in {"release", "erase", "addTimer"}
    \/ \E l \in Lives : respawns[l] > 0
    \/ \E w \in Spawners : rpc[w] # "idle"

-----------------------------------------------------------------------------
(* ProcessAttack on an adjacent tile with this id, and OnMonsterDied *)

ProcessAttack(p) ==
    /\ held # {} /\ ~IsDead
    /\ GotoA(p, "idle", "damage")
    /\ UNCHANGED <<hp, active, pos, life, aiTimers, respawns, raced, mapVars, at, kills,
                   rewards, viewVars, brainVars, spawnVars>>

TakeDamage(p) ==
    /\ GotoA(p, "damage", "ifDead")
    /\ hp' = IF hp > 0 THEN hp - 1 ELSE 0
    /\ kills' = IF hp = 1 THEN kills + 1 ELSE kills
    /\ UNCHANGED <<active, pos, life, aiTimers, respawns, raced, mapVars, at, rewards,
                   viewVars, brainVars, spawnVars>>

IfDead(p) ==
    /\ GotoA(p, "ifDead", IF IsDead THEN "reward" ELSE "idle")
    /\ UNCHANGED <<hp, active, pos, life, aiTimers, respawns, raced, mapVars, at, kills,
                   rewards, viewVars, brainVars, spawnVars>>

\* GainExp for the killer, GetPos, SC_REMOVE_OBJECT to those who see it.
OnMonsterDied(p) ==
    /\ GotoA(p, "reward", "release")
    /\ rewards' = rewards + 1
    /\ at' = [at EXCEPT ![p] = pos]
    /\ raced' = (raced \/ rewards' > kills \/ (\E b \in Brains : Moving(b))
                      \/ \E w \in Spawners : rpc[w] # "idle")
    /\ UNCHANGED <<hp, active, pos, life, aiTimers, respawns, mapVars, kills,
                   viewVars, brainVars, spawnVars>>

ReleaseTile(p) ==
    /\ GotoA(p, "release", "erase")
    /\ held' = held \ {at[p]}
    /\ at' = [at EXCEPT ![p] = SpawnTile]
    /\ UNCHANGED <<hp, active, pos, life, aiTimers, respawns, raced, indexed, kills,
                   rewards, viewVars, brainVars, spawnVars>>

EraseFromSector(p) ==
    /\ GotoA(p, "erase", "addTimer")
    /\ indexed' = FALSE
    /\ UNCHANGED <<hp, active, pos, life, aiTimers, respawns, raced, held, at, kills,
                   rewards, viewVars, brainVars, spawnVars>>

AddRespawnTimer(p) ==
    /\ GotoA(p, "addTimer", "idle")
    /\ respawns' = TimerAdded(respawns)
    /\ UNCHANGED <<hp, active, pos, life, aiTimers, raced, mapVars, at, kills,
                   rewards, viewVars, brainVars, spawnVars>>

-----------------------------------------------------------------------------
(* A player comes into view and runs ActivateNearbyMonsters; it leaves *)

\* In view, its new position stored.
InView(p) == vpc[p] # "away"

\* From outside, or with a move inside.  A scan that lists sector after sector
\* may miss a player that comes or crosses a border meanwhile.
ComesIntoView(p) ==
    /\ views < MaxViews
    /\ vpc[p] \in {"away", "near"} /\ vpc' = [vpc EXCEPT ![p] = "scan"]
    /\ views' = views + 1
    /\ vlife' = [vlife EXCEPT ![p] = life]
    /\ \E miss \in SUBSET {x \in Lookers : p \in unread[x]} :
          unread' = [x \in Lookers |-> IF x \in miss THEN unread[x] \ {p} ELSE unread[x]]
    /\ UNCHANGED <<overlooked, hp, active, pos, life, aiTimers, respawns, raced, mapVars, attackVars,
                   brainVars, spawnVars>>

\* GetNearbyObjects, IsDead, IsInView.
ActivateNearbyMonsters(p) ==
    /\ GotoV(p, "scan", IF indexed /\ ~IsDead THEN "try" ELSE "near")
    /\ UNCHANGED <<hp, active, pos, life, aiTimers, respawns, raced, mapVars, attackVars,
                   vlife, unread, views, overlooked, brainVars, spawnVars>>

\* Mutant: the flag is stored, not compared and swapped.
ActivateAlways(p) ==
    /\ GotoV(p, "try", "addTimer")
    /\ active' = TRUE
    /\ UNCHANGED <<hp, pos, life, aiTimers, respawns, raced, mapVars, attackVars,
                   vlife, unread, views, overlooked, brainVars, spawnVars>>

\* The AI handler is past p, or has seen nobody, and will not look again.
Overlooks(b, p) == bpc[b] = "deactivate" \/ (bpc[b] = "look" /\ p \notin unread[b])

TryActivate(p) ==
    /\ GotoV(p, "try", IF active THEN "near" ELSE "addTimer")
    /\ active' = TRUE
    /\ overlooked' = (active /\ (overlooked \/ \E b \in Brains : Overlooks(b, p)))
    /\ UNCHANGED <<hp, pos, life, aiTimers, respawns, raced, mapVars, attackVars,
                   vlife, unread, views, brainVars, spawnVars>>

AddAITimer(p) ==
    /\ GotoV(p, "addTimer", "near")
    /\ aiTimers' = TimerAdded(aiTimers)
    /\ UNCHANGED <<hp, active, pos, life, respawns, raced, mapVars, attackVars,
                   vlife, unread, views, overlooked, brainVars, spawnVars>>

Leaves(p) ==
    /\ GotoV(p, "near", "away")
    /\ vlife' = [vlife EXCEPT ![p] = 1]
    /\ UNCHANGED <<hp, active, pos, life, aiTimers, respawns, raced, mapVars, attackVars,
                   unread, views, overlooked, brainVars, spawnVars>>

-----------------------------------------------------------------------------
(* HasObserverNearby: the players listed, one after another, each where it  *)
(* is then; the first one in view ends it.                                  *)

List(x)      == unread' = [unread EXCEPT ![x] = Viewers]
Sees(x)      == (\E p \in unread[x] : InView(p)) /\ unread' = [unread EXCEPT ![x] = {}]
Passes(x, p) == p \in unread[x] /\ ~InView(p) /\ unread' = [unread EXCEPT ![x] = @ \ {p}]
SeesNobody(x) == unread[x] = {} /\ UNCHANGED unread

-----------------------------------------------------------------------------
(* HandleTimerEvent(MONSTER_AI) and AITick *)

AITimerFires(b, l) ==
    /\ aiTimers[l] > 0
    /\ aiTimers' = [aiTimers EXCEPT ![l] = @ - 1]
    /\ GotoB(b, "idle", "ifDead")
    /\ blife' = [blife EXCEPT ![b] = l]
    /\ UNCHANGED <<hp, active, pos, life, respawns, raced, mapVars, attackVars, viewVars,
                   from, to, spawnVars>>

\* A dead monster's chain of timers ends here, m_isActive stays set.
AIIfDead(b) ==
    /\ GotoB(b, "ifDead", IF IsDead THEN "idle" ELSE "look")
    /\ IF IsDead THEN UNCHANGED unread ELSE List(b)
    /\ UNCHANGED <<hp, active, pos, life, aiTimers, respawns, raced, mapVars, attackVars,
                   vpc, vlife, views, overlooked, blife, from, to, spawnVars>>

\* Whoever was overlooked before is in view of a monster that goes on.
LookSees(b) ==
    /\ GotoB(b, "look", "tick") /\ Sees(b)
    /\ overlooked' = FALSE
    /\ UNCHANGED <<hp, active, pos, life, aiTimers, respawns, raced, mapVars, attackVars,
                   vpc, vlife, views, blife, from, to, spawnVars>>

LookPasses(b, p) ==
    /\ GotoB(b, "look", "look") /\ Passes(b, p)
    /\ UNCHANGED <<hp, active, pos, life, aiTimers, respawns, raced, mapVars, attackVars,
                   vpc, vlife, views, overlooked, blife, from, to, spawnVars>>

LookSeesNobody(b) ==
    /\ GotoB(b, "look", "deactivate") /\ SeesNobody(b)
    /\ UNCHANGED <<hp, active, pos, life, aiTimers, respawns, raced, mapVars, attackVars,
                   vpc, vlife, views, overlooked, blife, from, to, spawnVars>>

Deactivate(b) ==
    /\ GotoB(b, "deactivate", "idle")
    /\ active' = FALSE
    /\ UNCHANGED <<hp, pos, life, aiTimers, respawns, raced, mapVars, attackVars,
                   viewVars, blife, from, to, spawnVars>>

\* The one time AITick asks.
AITick(b) ==
    /\ GotoB(b, "tick", IF IsDead THEN "rearm" ELSE "decide")
    /\ UNCHANGED <<hp, active, pos, life, aiTimers, respawns, raced, mapVars, attackVars,
                   viewVars, blife, from, to, spawnVars>>

\* It stays where it is: FIXED, attacking, or nowhere to go.
AITickStays(b) ==
    /\ GotoB(b, "decide", "rearm")
    /\ UNCHANGED <<hp, active, pos, life, aiTimers, respawns, raced, mapVars, attackVars,
                   viewVars, blife, from, to, spawnVars>>

\* RoamingMove or AgroPursue has decided on a tile, beside an earlier copy of
\* the position; MoveMonster copies it anew, dead or alive.
AITickMoves(b, t) ==
    /\ GotoB(b, "decide", "claim")
    /\ from' = [from EXCEPT ![b] = pos]
    /\ to' = [to EXCEPT ![b] = t]
    /\ raced' = (raced \/ Buried)
    /\ UNCHANGED <<hp, active, pos, life, aiTimers, respawns, mapVars, attackVars,
                   viewVars, blife, spawnVars>>

TryMoveObject(b) ==
    /\ GotoB(b, "claim", IF to[b] \in held THEN "rearm" ELSE "release")
    /\ held' = held \cup {to[b]}
    /\ UNCHANGED <<hp, active, pos, life, aiTimers, respawns, raced, indexed, attackVars,
                   viewVars, blife, from, to, spawnVars>>

ReleaseOld(b) ==
    /\ GotoB(b, "release", "setPos")
    /\ held' = held \ {from[b]}
    /\ from' = [from EXCEPT ![b] = SpawnTile]
    /\ UNCHANGED <<hp, active, pos, life, aiTimers, respawns, raced, indexed, attackVars,
                   viewVars, blife, to, spawnVars>>

SetPos(b) ==
    /\ GotoB(b, "setPos", "rearm")
    /\ pos' = to[b]
    /\ to' = [to EXCEPT ![b] = SpawnTile]
    /\ UNCHANGED <<hp, active, life, aiTimers, respawns, raced, mapVars, attackVars,
                   viewVars, blife, from, spawnVars>>

Rearm(b) ==
    /\ GotoB(b, "rearm", "idle")
    /\ aiTimers' = TimerAdded(aiTimers)
    /\ UNCHANGED <<hp, active, pos, life, respawns, raced, mapVars, attackVars,
                   viewVars, blife, from, to, spawnVars>>

-----------------------------------------------------------------------------
(* HandleTimerEvent(MONSTER_RESPAWN).  MONSTER_RESPAWN_MS is 30 times      *)
(* MONSTER_AI_TICK_MS, so every AI timer of a life, and every handler that *)
(* started in it, is over when that life's respawn timer fires.            *)

Over(l) ==
    /\ \A k \in Lives : k <= l => aiTimers[k] = 0
    /\ \A b \in Brains : bpc[b] # "idle" => blife[b] > l
    /\ \A p \in Viewers : vpc[p] \in {"scan", "try", "addTimer"} => vlife[p] > l

RespawnTimerFires(w, l) ==
    /\ respawns[l] > 0 /\ Over(l) /\ life < MaxLives
    /\ respawns' = [respawns EXCEPT ![l] = @ - 1]
    /\ GotoR(w, "idle", "claim")
    /\ UNCHANGED <<hp, active, pos, life, aiTimers, raced, mapVars, attackVars, viewVars,
                   brainVars, place, full>>

RespawnMonster(w) ==
    /\ GotoR(w, "claim", "insert")
    /\ \E t \in Tiles \ held : held' = held \cup {t} /\ place' = [place EXCEPT ![w] = t]
    /\ UNCHANGED <<hp, active, pos, life, aiTimers, respawns, raced, indexed, attackVars,
                   viewVars, brainVars, full>>

\* Mutant: a respawn that finds no tile gives up.
GiveUp(w) ==
    /\ full < MaxFull
    /\ GotoR(w, "claim", "idle")
    /\ full' = full + 1
    /\ UNCHANGED <<hp, active, pos, life, aiTimers, respawns, raced, mapVars, attackVars,
                   viewVars, brainVars, place>>

\* Everything around the spawn point is taken, by others: try again later.
NoRoom(w) ==
    /\ full < MaxFull
    /\ GotoR(w, "claim", "idle")
    /\ full' = full + 1
    /\ respawns' = TimerAdded(respawns)
    /\ UNCHANGED <<hp, active, pos, life, aiTimers, raced, mapVars, attackVars,
                   viewVars, brainVars, place>>

InsertIntoSector(w) ==
    /\ GotoR(w, "insert", "reset")
    /\ indexed' = TRUE
    /\ UNCHANGED <<hp, active, pos, life, aiTimers, respawns, raced, held, attackVars,
                   viewVars, brainVars, place, full>>

\* Monster::Respawn: all of it under the lock.  MaxLives also stops a second
\* respawn whose timer fired in the last life but one.
Respawn(w) ==
    /\ life < MaxLives
    /\ GotoR(w, "reset", "setPos")
    /\ hp' = MaxHp /\ active' = FALSE /\ pos' = SpawnTile
    /\ life' = life + 1
    /\ UNCHANGED <<aiTimers, respawns, raced, mapVars, attackVars, viewVars, brainVars,
                   place, full>>

\* Mutant: the monster stays at its spawn point, wherever the free tile was.
KeepSpawnPos(w) ==
    /\ GotoR(w, "setPos", "look") /\ List(w)
    /\ UNCHANGED <<hp, active, pos, life, aiTimers, respawns, raced, mapVars, attackVars,
                   vpc, vlife, views, overlooked, brainVars, place, full>>

\* Mutant: nobody is looked for.
RespawnUnseen(w) ==
    /\ GotoR(w, "setPos", "idle")
    /\ pos' = place[w]
    /\ place' = [place EXCEPT ![w] = SpawnTile]
    /\ UNCHANGED <<hp, active, life, aiTimers, respawns, raced, mapVars, attackVars,
                   viewVars, brainVars, full>>

RespawnSetPos(w) ==
    /\ GotoR(w, "setPos", "look") /\ List(w)
    /\ pos' = place[w]
    /\ place' = [place EXCEPT ![w] = SpawnTile]
    /\ UNCHANGED <<hp, active, life, aiTimers, respawns, raced, mapVars, attackVars,
                   vpc, vlife, views, overlooked, brainVars, full>>

RespawnSees(w) ==
    /\ GotoR(w, "look", "try") /\ Sees(w)
    /\ UNCHANGED <<hp, active, pos, life, aiTimers, respawns, raced, mapVars, attackVars,
                   vpc, vlife, views, overlooked, brainVars, place, full>>

RespawnPasses(w, p) ==
    /\ GotoR(w, "look", "look") /\ Passes(w, p)
    /\ UNCHANGED <<hp, active, pos, life, aiTimers, respawns, raced, mapVars, attackVars,
                   vpc, vlife, views, overlooked, brainVars, place, full>>

RespawnSeesNobody(w) ==
    /\ GotoR(w, "look", "idle") /\ SeesNobody(w)
    /\ UNCHANGED <<hp, active, pos, life, aiTimers, respawns, raced, mapVars, attackVars,
                   vpc, vlife, views, overlooked, brainVars, place, full>>

RespawnActivates(w) ==
    /\ GotoR(w, "try", IF active THEN "idle" ELSE "addTimer")
    /\ active' = TRUE
    /\ overlooked' = (active /\ overlooked)
    /\ UNCHANGED <<hp, pos, life, aiTimers, respawns, raced, mapVars, attackVars,
                   vpc, vlife, unread, views, brainVars, place, full>>

RespawnAddsTimer(w) ==
    /\ GotoR(w, "addTimer", "idle")
    /\ aiTimers' = TimerAdded(aiTimers)
    /\ UNCHANGED <<hp, active, pos, life, respawns, raced, mapVars, attackVars,
                   viewVars, brainVars, place, full>>

-----------------------------------------------------------------------------
AttackStep(p) ==
    \/ TakeDamage(p) \/ IfDead(p) \/ OnMonsterDied(p) \/ ReleaseTile(p)
    \/ EraseFromSector(p) \/ AddRespawnTimer(p)

ViewStep(p) == ActivateNearbyMonsters(p) \/ TryActivate(p) \/ AddAITimer(p)

BrainStep(b) ==
    \/ AIIfDead(b) \/ LookSees(b) \/ LookSeesNobody(b) \/ Deactivate(b)
    \/ \E p \in Viewers : LookPasses(b, p)
    \/ AITick(b) \/ AITickStays(b)
    \/ \E t \in Tiles : AITickMoves(b, t)
    \/ TryMoveObject(b) \/ ReleaseOld(b) \/ SetPos(b) \/ Rearm(b)

SpawnStep(w) ==
    \/ RespawnMonster(w) \/ NoRoom(w) \/ InsertIntoSector(w) \/ Respawn(w) \/ RespawnSetPos(w)
    \/ RespawnSees(w) \/ RespawnSeesNobody(w)
    \/ \E p \in Viewers : RespawnPasses(w, p)
    \/ RespawnActivates(w) \/ RespawnAddsTimer(w)

AITimer(b)      == \E l \in Lives : AITimerFires(b, l)
RespawnTimer(w) == \E l \in Lives : RespawnTimerFires(w, l)

MonsterNext ==
    \/ \E p \in Attackers : ProcessAttack(p) \/ AttackStep(p)
    \/ \E p \in Viewers : ComesIntoView(p) \/ ViewStep(p) \/ Leaves(p)
    \/ \E b \in Brains : AITimer(b) \/ BrainStep(b)
    \/ \E w \in Spawners : RespawnTimer(w) \/ SpawnStep(w)

MonsterSpec == MonsterInit /\ [][MonsterNext]_monsterVars

\* Handlers that have begun go on and due timers are dequeued; nothing makes
\* a player attack, come or leave.
MonsterFairSpec ==
    /\ MonsterSpec
    /\ \A p \in Attackers : WF_monsterVars(AttackStep(p))
    /\ \A p \in Viewers : WF_monsterVars(ViewStep(p))
    /\ \A b \in Brains : WF_monsterVars(BrainStep(b))
    /\ \A w \in Spawners : WF_monsterVars(SpawnStep(w))
    /\ WF_monsterVars(\E b \in Brains : AITimer(b))
    /\ WF_monsterVars(\E w \in Spawners : RespawnTimer(w))

-----------------------------------------------------------------------------
MonsterTypeOK ==
    /\ hp \in 0 .. MaxHp /\ active \in BOOLEAN /\ pos \in Tiles
    /\ held \subseteq Tiles /\ indexed \in BOOLEAN /\ life \in Lives
    /\ aiTimers \in [Lives -> Nat] /\ respawns \in [Lives -> Nat]
    /\ apc \in [Attackers -> {"idle", "damage", "ifDead", "reward", "release", "erase", "addTimer"}]
    /\ at \in [Attackers -> Tiles]
    /\ vpc \in [Viewers -> {"away", "scan", "try", "addTimer", "near"}]
    /\ vlife \in [Viewers -> Lives]
    /\ bpc \in [Brains -> {"idle", "ifDead", "look", "deactivate", "tick", "decide", "claim",
                           "release", "setPos", "rearm"}]
    /\ unread \in [Lookers -> SUBSET Viewers]
    /\ blife \in [Brains -> Lives] /\ from \in [Brains -> Tiles] /\ to \in [Brains -> Tiles]
    /\ rpc \in [Spawners -> {"idle", "claim", "insert", "reset", "setPos", "look", "try",
                             "addTimer"}]
    /\ place \in [Spawners -> Tiles]
    /\ views \in 0 .. MaxViews /\ full \in 0 .. MaxFull
    /\ kills \in Nat /\ rewards \in Nat /\ overlooked \in BOOLEAN /\ raced \in BOOLEAN

Quiet ==
    /\ \A p \in Attackers : apc[p] = "idle"
    /\ \A p \in Viewers : vpc[p] \in {"away", "near"}
    /\ \A b \in Brains : bpc[b] = "idle"
    /\ \A w \in Spawners : rpc[w] = "idle"

\* The AI timers, and the handlers that have taken or will add one.
Chains(n) ==
    LET ai == {l \in Lives : aiTimers[l] > 0}
    IN  n = Cardinality(ai) + Cardinality({b \in Brains : bpc[b] \notin {"idle", "deactivate"}})
            + Cardinality({p \in Viewers : vpc[p] = "addTimer"})
            + Cardinality({w \in Spawners : rpc[w] = "addTimer"})

(* m_isActive does what it is for: as long as no monster is killed twice   *)
(* over, one chain of AI timers at most drives it, across activations,     *)
(* deactivations, death and respawn, so it acts once per tick.             *)
OneChainUnlessRaced ==
    ~raced => /\ \A l \in Lives : aiTimers[l] <= 1
              /\ \E n \in {0, 1} : Chains(n)

(* Unless its death overlaps a move, a respawn or a second killer, or a    *)
(* move begins after it (AITick asked before), a monster at rest is alive  *)
(* on one tile, that of its position, and in the index, or dead on no      *)
(* tile, out of the index and due to respawn once.                         *)
ExactUnlessRaced ==
    /\ MonsterTypeOK
    /\ ~raced /\ Quiet =>
        IF IsDead
        THEN held = {} /\ ~indexed /\ \E l \in Lives : respawns = [k \in Lives |-> IF k = l THEN 1 ELSE 0]
        ELSE held = {pos} /\ indexed /\ respawns = [k \in Lives |-> 0]

(* A dead monster comes back, also when the respawn finds no tile at first *)
(* and whatever moves and activations overlapped its death.                *)
ComesBack == IsDead /\ life < MaxLives ~> ~IsDead

(* "Inactive monsters in view are activated and an AI timer is added"      *)
(* (README).  So it is, unless the last player to come found the flag set  *)
(* while the AI handler had looked past it, or had seen nobody, and not    *)
(* cleared the flag yet (then the monster stands still until a player      *)
(* moves again), or the death raced.                                       *)
SeenIsActive ==
    Quiet /\ ~IsDead /\ (\E p \in Viewers : InView(p)) /\ ~overlooked /\ ~raced =>
        \E l \in Lives : aiTimers[l] > 0
=============================================================================
