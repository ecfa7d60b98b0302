# SIMPLEST-MMORPG in TLA+

SIMPLEST-MMORPG is a C++20 MMORPG server for Windows I/O completion ports, with a
client and a load generator. This directory models the part of it that is hard to
get right: a server whose game state is shared by all worker threads and guarded by
compare-and-swap words, one small mutex per object or sector, and no lock that spans
two steps. The modules are translated from the code under
`src/SIMPLEST-MMORPG/` (paths below are relative to it); TLC checks small instances
and TLAPS proves what matters most for every value of the constants.

## The system

### Threads

* **Workers** (`IOCPServer::WorkerThread`) dequeue completions: accepts, receives,
  sends, and two kinds of posted work, timer events and database callbacks. All game
  logic runs on them. A session has one receive outstanding, so its packets are
  handled one after another; everything else, also for the same player, is
  concurrent: another player's packet, a monster's AI timer, the player's own
  HP_REGEN timer, a failed send that disconnects it.
* The **timer thread** keeps a heap of due times and posts what is due to the workers.
* A **login DB thread** and a **save DB thread**, each with a queue.

### Components, their state and what makes them correct

| component | state | operations | correct means | module |
|---|---|---|---|---|
| SectorManager | one atomic word per tile; object sets per sector, each behind a `shared_mutex` | AddObject, RemoveObject, TryMoveObject, GetNearbyObjects | one object per tile; words, sets and positions agree; a scan misses nobody who stands still | `SectorManager`, `Occupancy` |
| player life | `m_hp`, `m_regenActive`, pending HP_REGEN timers | MonsterAttackPlayer, OnPlayerDied, the HP_REGEN handler, level-up | nobody stays dead; one regeneration chain when hurt | `PlayerLife` |
| player place | one player's tile, sector and `m_pos` | ProcessMove, ProcessTeleport, ProcessDisconnect, OnPlayerDied | the player is where it thinks it is, and nowhere after it left | `PlayerDeath` |
| sessions and login | id pool, session table, `m_players`, `m_activeDbIds`, login queue | OnAccept, DisconnectSession, ProcessLogin, OnLoginDBLoaded, ProcessDisconnect | an id has one owner; a character is in the world once; an answer reaches who asked; a claim is given back | `Login`, `Claim` |
| persistence, progression | the row, level and experience, snapshots, the save queue, the save thread | load, GainExp, Die, SnapshotPlayer, SaveAllPlayers, PostSaveTask, Shutdown | what a character leaves with is what it comes back with; a row is a legal level | `Persistence` |
| monster life | `m_hp`, `m_isActive`, tile, sector, MONSTER_AI and MONSTER_RESPAWN timers | ProcessAttack, OnMonsterDied, ActivateNearbyMonsters, AITick/MoveMonster, RespawnMonster | one chain of AI timers; comes back after death; exact occupation | `MonsterLife` |
| session I/O | socket, send queue, `m_isSending`, the outstanding send and receive | SendPacket, PostSend, OnSendComplete, OnRecvComplete, PostRecv, Close | packets in order, none left behind, receiving goes on | `SessionIO`, `Channel` |
| ring buffer, framing (server and client) | `m_head`, `m_tail`, `m_buffer` | OnWrite, Peek, Pop, the loops of OnRecvComplete and RecvThread | packets are cut as they were framed | `Framing`, `Channel` |
| ViewProcessor | what each client shows | ProcessMoveView, SendFullView, SendDisappear, BroadcastAddMonster; the AddObject of a revival and a teleport, which may fail | who is in view is shown, and nobody else | `View` |
| TimerManager, overlapped pool | the heap, `m_cv`, `m_running`, the free list, slots in flight | AddTimer, WorkerThread, PostToIOCP, Acquire, Release, Stop; the end of ShutDown | each timer is handled once and not early; no wake-up is lost; slots come back; ShutDown returns | `TimerManager` |
| monster AI | `m_pos`, `m_targetPlayerId`, `m_isActive`, the attack cooldown | the MONSTER_AI handler (HasObserverNearby, Deactivate), AITick: AgroPursue, RoamingMove, FindNearestPlayerInRange, MoveMonster | hits whom it stood beside, gains on its target, lets go of a gone one while it is awake, stays in range | `Pursuit` |
| Pathfinder | none between calls | FindPath | a shortest walk, or none within the budget | `Pathfinder` |
| client | `m_me`, the two failure atomics, the socket, AppState | main loop, Connect, Disconnect, RecvThread's handlers | stands where the server says; a refusal is shown and leads back to the menu | `Client` |
| chat, combat messages, Lua start-up script, ODBC plumbing, rendering, stress test | | | | not modelled |

How they meet: GameWorld owns the players and monsters and calls SectorManager with
an id and a position it has *copied* from the object; handlers of other objects may
change the object in between. A monster's tick asks Pathfinder for a path to a tile beside
a target it has looked at some steps before. Timers carry only an object id; database callbacks only
a session id. DisconnectSession calls ProcessDisconnect, which snapshots the player,
takes it out of the map and of `m_players`, releases its dbId and posts a save.

### What is hard here

Check-then-act on an atomic flag that another handler clears (regeneration,
activation); positions and sessions that are stale when used (death during a move,
login answered after a disconnect); two attackers who both find the victim dead;
snapshots and saves in the wrong order; shutting threads down in the wrong order;
failure paths that keep what they claimed; notifications that fall between a test and a
wait; a client that predicts what the server may refuse. `PROJECT.json` lists each at its line.

## Modules

Every module has one action per lock-to-lock or CAS-to-CAS stretch of the code; a
`pc`-like variable says where each worker stands in its handler. History variables
are marked `history` in the declarations and guard nothing.

* **`Occupancy`** is the abstract map: each object is on a tile nobody else is on, or
  outside. Enter, Walk, Leave.
* **`Channel`** is an abstract connection: a sender's messages arrive whole, once and in
  order, until it breaks and the rest are lost. Send, Deliver, Break.
* **`Claim`** is an abstract character: free, held by a login or by a connection that gives
  it back, in the world, or lost: held for good by nobody. Take, Enter, Leave, GiveBack, Lose.
* **`SectorManager`**: `TryClaim` and `Release` are the two CAS; AddObject scans ring
  after ring (`Candidates`, `FirstOf`, `ClaimNearby`/`SkipTaken`/`NoRoom`), inserts
  into the sector and only then the caller stores the position; a move claims,
  releases, changes sectors under both locks, stores; GetNearbyObjects reads sector
  by sector. Ids in `Careless` have overlapping operations: any claim, release,
  insertion or erasure for them may happen at any time. The refinement mapping `At`
  puts the linearization point of a move at its claim, of a removal at its release.
* **`PlayerLife`**: each IsDead/TakeDamage/TryStartRegen/AddTimer of
  MonsterAttackPlayer, each look and write of the HP_REGEN handler and of
  StopRegenAndMaybeRestart. The level-up is one action as GainExp holds the lock.
* **`PlayerDeath`**: three kinds of actors (the packet worker, the worker that disconnects,
  monsters' workers) run their handlers from their own copies `old` and `new`. GetPlayer and
  GetPos are two actions: the player may be removed in between. `stale` records that a
  position was stored under somebody who worked with a copy, or the player removed under
  somebody who had its pointer. Other objects appear as refusals: any move may be refused, any
  AddObject may find no room (`limbo`).
* **`Login`**: connections, the id pool, `m_players` and `m_activeDbIds`; the request
  waits in the DB queue (any order is allowed by the number of workers that may
  run the callbacks) and comes back with an id. A `Session` object is identified with its
  connection; what a read of a *deleted* Session returns is not modelled. The refinement
  mapping `Stage` reads a character's `Claim` off its entries, who has claimed it and who
  is to give it back.
* **`Persistence`**: one character over several sessions. A row is level and
  experience, with the level table (`Need` doubles from level to level; `Gained` takes as
  many levels as a reward pays for, and stops at the last) and the halving at death;
  `SnapshotPlayer` is two getters, the first of which stands for the
  fields that change together with the level. `raced` records the orders the code
  does not make up for, `torn` a snapshot between whose getters the level changed, and each
  task carries whether it was posted `late`, after ShutDown had cleared `m_running`. Both
  threads drain their queues then, and workers and timers go on: logins are answered and
  post UpdateLastLogin, players leave and DB_SAVE fires, all into the save queue.
* **`MonsterLife`**: one monster, its killers, its observers, its timers. HasObserverNearby
  looks at the listed players one by one, each where it is then; AITick asks IsDead once,
  before MoveMonster reads the position. The roaming range lies in one sector, so the index
  entry is a Boolean; which tile AITick picks is left open. Timing enters in one place:
  `Over(l)` says that when the respawn timer of life `l` fires (30 s) the AI timers (1 s) and
  handlers of that life are over. Without it a handler could sleep through thirty ticks.
* **`SessionIO`**: kernel, send queue, receive loop. Close inside PostSend relocks the
  `std::mutex` its caller holds, which C++ leaves undefined; both outcomes a
  build can have are in the model, an exception that unwinds the packet handler up
  to WorkerThread's catch, or going on. For each session, `Out(s)` is the `Channel` it
  implements: SendPacket's acceptance is Send, the kernel's transmission Deliver, Close Break.
* **`View`**: what each player's client shows. The handlers scan the index, look at the
  others one by one where they are *now*, compare old and new view and send; each look
  and each pair of packets is an action. A revival or a teleport that finds no tile leaves its
  player online and in no sector (`ReviveFails`, `LandFails`); it may move on like that, and
  whether it gets into a sector's set then depends on where it goes. Two handlers of one object
  overlap too (`Strays`, `Tells`, `Leaves`: a death by a monster's worker under the victim's own
  handler, two deaths): each step of the second is an action, but what the two leave behind is
  open, and such objects are `astray`. The tiles are one row in neighbouring sectors, so a scan
  lists everybody in the index (`SectorManager`), and packets arrive in the order in which they
  were queued (`SessionIO`). What is free is judged by who is in the index; a tile that
  overlapping handlers left behind shows only as an AddObject that fails.
* **`TimerManager`**: m_mutex is held between the timer thread's test of the predicate and
  its wait, so test and wait are two actions: AddTimer's push cannot fall between them, a
  notification can. Waits end by notification, by time or spuriously. The pool hands out
  a free slot or a new object; `content` is what a slot carries, `port` what is in flight.
  Workers handle, release and, once ShutDown has cleared their flag, leave.
* **`Pathfinder`**: one turn of A*'s loop per action; which of equal nodes the heap returns
  first is left open. **`Pursuit`** extends it with an AGRO
  monster's timer: HasObserverNearby reads the listed players one by one (`Sees`, `Passes`) and
  without one in view the monster is deactivated and does not tick (`Deactivate`). A tick reads
  each player, each occupant and each side of the target in a step of its own (`Considers`,
  `Measures`, `GetOccupant`, `CollectVictim`, `ConsiderSide`), then searches, then moves
  (`MoveMonster`). Between any two of these steps players move, teleport, die, are revived,
  leave, come, and wake the monster; only while FindPath runs they rest, as it reads the map's
  walls and nothing else. A session id is reused: `Nobody` among the victims is a player that
  has left.
* **`Client`**: the main thread and RecvThread, which take the mutex of `m_me` for one access
  at a time, and the server's login, move and death handlers as far as they send this client
  its position. Packets are in order and whole (`SessionIO`, `Framing`); the connection may
  break anywhere.
* **`Framing`**: one direction of one connection. The stream is a sequence of distinct
  bytes, cut anywhere; the buffer and the loop are those of both `Session` and
  `NetworkClient`, whose `RingBuffer`s are the same. `Connection` is the `Channel` it
  implements: framing is Send, a packet taken out whole is Deliver, every cut and copy between
  the two a stutter.

`MC<module>` instantiates a module for TLC, `<module>Proofs` holds its theorems.
`PursuitProofs` holds `Pathfinder`'s too. Four components are proved about in the second
part of another's module: `PlayerDeath` in `PlayerLifeProofs`, `MonsterLife` in
`TimerManagerProofs`, `View` in `SessionIOProofs`, `Client` in `LoginProofs`. These modules
extend both components, so a name that the two would share carries its component's
(`DeathInit`, `MonsterSpec`, `ViewTypeOK`, `ClientNext`).

## Runs

| run | checks | bounds |
|---|---|---|
| `sector_grid` | `AtRest`, `NearbyComplete`, `RefinesOccupancy` | a row of four tiles, one a wall, in two sectors; two objects, a careless id and a scan: every pair of operations overlaps, a move changes sectors, an object can pass the scan in either direction, a search for a tile can fail |
| `life_lives` | `NoStuckDead`, `OneTimerUntilDeath`, `Heals` | two attackers, two timer workers, 3 hp, damage 1 or 3, 3 attacks: a death at once or by and by, every race of two of a kind |
| `death_exact` | `ExactUnlessStale` | four tiles in two sectors, a packet worker, a disconnecting worker, a killer, four operations: a move, a teleport, a death and a logout can each begin at any step of the others |
| `login_reuse` | `IdsNotShared`, `OneBodyPerCharacter`, `AnswersItsConnection`, `ClaimsHaveHolders`, `RefinesClaim` | three connections on two ids, so an id is reused and the server can be full; three requests, two on one connection; two characters |
| `save_order` | `SavedUnlessRaced`, `DrainedWhenReturned`, `RowLegal`, `ShutdownReturns` | two sessions of a character, the first already playing, one autosave, one shutdown; two changes; four levels and a reward of 3 points, worth two of them at once, also between two getters. (A halving with effect, and the cap, would take a third change: `GainedIsLegal` and `HalvedIsRow` have them for every row) |
| `monster_lives` | `OneChainUnlessRaced`, `ExactUnlessRaced`, `SeenIsActive`, `ComesBack` | one attacker, two viewers, who come into view once each or one of them twice, 2 hp, two lives, two tiles, one respawn without room: one viewer can come while the scan is past it and the other leave before it is read |
| `io_order` | `SendingWhileQueued`, `KeepsReceiving`, `Delivered`, `RefinesChannel` | two sessions that send to each other and to themselves, two packets each, two receives each |
| `view_shows` | `ShowsWhatIsInView` | two players and a monster on three tiles, sight of one tile, a revival that finds one tile only, four operations: enough for two logins and two moves, a death and a respawn between moves, a revival that fails and what its player does then, and for a third object to interfere |
| `framing_stream` | `NoneLeftBehind`, `RefinesChannel` | a buffer of 7 bytes, headers of 2, packets of 2, 3 and 6, four of them: every packet and header can lie across the end, and one fills the buffer |
| `timer_fires` | `OnceEach`, `NoLostWakeup`, `SlotsReturn`, `Fires`, `ShutDownReturns` | two timers, due at once or after a tick, two workers, a pool of one slot (so the second timer gets a new object), one failing post or throwing handler, a clock of one tick |
| `client_sync` | `ClientFollows`, `ServerTells`, `FailReported`, `FailReturns` | two tiles, two connections, two moves, one death or stat change, two reasons for a refusal: a refused login can be retried, a move can cross a revival, a stat change and a refusal |
| `pursuit_chase` | `ShortestOrNone`, `HitsWhoStoodBeside`, `LetsGo`, `Catches` | 5 x 3 tiles with a wall to walk round, a budget of 7 nodes (too few for the farthest goals), two players, three things they do (move, come, teleport, leave, die), a range that cuts the chase off |

Every module has a type invariant `TypeOK`. It is a conjunct of the inductive invariant that
the proofs use, and in the runs it is the first conjunct of an invariant they check.
`PathIsWalk` is a conjunct of `ShortestOrNone`. `GainsOnTarget` and `StaysInRange` are proved
and not run, and so are `InOrder` and `FramedAsSent`: what these say of the packets that have
arrived, `RefinesChannel` says of each step.

Deadlock is not checked where a bounded model comes to rest: all counters are used
up, a session is gone (`SessionIO`), the server or the program has ended (`TimerManager`,
`Persistence`, `Client`), or nobody is left to chase. `sector_grid` checks it.

The counters that bound a model are named with it (`MaxHits`, `MaxOps`, `MaxSaves`,
`MaxLives`, `MaxViews`, `MaxFull`, `MaxPackets`, `MaxRecvs`, `MaxSent`, `MaxChanges`,
`MaxTimers`, `MaxTime`, `MaxFaults`, `MaxConnections`, `MaxMoves`, `MaxEvents`) and guard only
the actions that begin something new, never a step of a handler under way; `MaxLives` alone
also stops a handler, the second of two raced respawns, which would begin a life more.
`MaxRadius` is the code's search radius of 20, smaller in the instances so that the search can
fail.

### Races the exemptions stand for

Some properties hold only with an exemption. Each exemption is a race that the code
really has; these are the shortest traces:

* `stale` in `PlayerDeath`. (1) A move claims its target, the player dies and is
  revived at the origin; the move stores its target as the position: the origin's tile
  stays taken and the sector index and the position differ. A packet handler that has the
  player's pointer and not yet its position goes on after a disconnect that is complete, and
  claims a tile for a player that is gone. (2) The player is killed
  while ProcessDisconnect runs, or by a monster that got the pointer before it:
  OnPlayerDied adds it to the map again after RemovePlayer, and nobody removes that
  tile and index entry any more. (3) A move releases its old tile after the respawn
  has claimed the same one: the player stands on a tile others may enter.
* `raced` in `MonsterLife`. Two attackers deal their hits and both find the monster
  dead: two rewards, two respawn timers. A monster dies between the claim of a
  move and SetPos: the claimed tile is never released. It dies, and is taken off the map,
  between AITick's IsDead (Server/Game/Monster.cpp:63) and MoveMonster's GetPos: a dead monster
  claims a tile.
* `overlooked` in `MonsterLife`. The AI handler has looked at a player out of view or has seen
  nobody; the player comes into view and finds `m_isActive` still set; the handler, which sees
  nobody else (another player in view may leave before it is read), clears it: the monster
  sleeps in view until a player near it moves again (Server/Game/GameWorld.cpp:1065). The
  repository's README says that inactive monsters in view are activated.
* `raced` in `Persistence`. An autosave's snapshot is posted behind the one of a later
  logout and overwrites it; a login reads the row before the logout's save is
  executed; experience is gained after the logout's snapshot, or between two of its
  getters, which yields the old level with the new experience (a state the player was
  never in). A save that fails is logged and not repeated (`raced` too).
* `torn` in `RowLegal`: such a snapshot, of the old level with the experience left after the
  new one, or the other way about.
* `late` in `DrainedWhenReturned`: ShutDown stops the DB threads before the timers, the workers
  and the sessions (Server/Network/IOCPServer.cpp:326), so the last ProcessDisconnect, a DB_SAVE
  that fires then and the UpdateLastLogin of a last login post to a thread that has returned,
  or is about to. The repository's README (README.md:147) says that each logout is
  saved, by a snapshot in ProcessDisconnect and the asynchronous queue; for the sessions that
  ShutDown disconnects what stays is SaveAllPlayers' save, as they were before their last actions.
* "until death" in `PlayerLife`. OnPlayerDied calls StopRegen while the HP_REGEN timer of the
  old life is pending; the next hit finds `m_regenActive` clear and registers a second chain,
  and the player regenerates at twice the rate (the README of the repository says of the CAS
  that it prevents this). Also, a handler that saw the player dead may call StopRegen after
  the player was revived and hit again, which leaves a hurt player without a timer once the
  next handler stops, and two attackers who both find the victim dead halve its experience
  twice.
* `missed` in `TimerManager`. Stop clears `m_running` and notifies without the mutex: a timer
  thread that has tested the predicate and not yet blocked does not hear it. `join` then
  waits until somebody calls AddTimer or the wait ends spuriously.
* `gone` in `TimerManager`: the result of PostQueuedCompletionStatus is not looked at, so a
  failed post loses the timer and its slot; a handler that throws loses its slot; what is in
  flight at the end is dropped.
* `refused`, `outdated`, `crossed` in `Client`. The server does not say that it refused a move
  (cooldown, somebody in the way): the client stays one tile ahead until its next answer.
  SC_STAT_CHANGE stores a copy of all of `m_me` and undoes a move the main thread made in
  between, and the main thread stores a move from where the player was before its revival.
  SC_LOGIN_OK carries a position read before a death, and arrives after the revival's.
* A monster that sleeps, in `LetsGo`: when the last player in view leaves, the MONSTER_AI handler
  deactivates it before AITick (Server/Game/GameWorld.cpp:1065-1069), and it keeps its target
  until it is woken.
* One who logs in under the id of a player that left between GetOccupant and GetPlayer, in
  `HitsWhoStoodBeside`: the monster hits it wherever it stands.
* `stuck` in `Pursuit`: a tick found no next tile, a player stood on it, or it lay outside
  the range; the monster waits. Which of several nearest sides of the target it goes for
  is decided by the fixed order of DX, DY: with a free choice at each tick it could walk to
  and fro between two of them for ever, and `Catches` would not hold.
* "closed" in `AnswersItsConnection`. The connection closes during the query, the id
  goes to another one, and that one gets the other's character. Also, a disconnect
  between GetSession and AddPlayer finds no player to remove: the player added then
  has no session and keeps its dbId.
* `orphaned` in `ClaimsHaveHolders`. OnLoginDBLoaded answers SPAWN_FULL without
  ReleaseDbId; a second login on one connection overwrites the first character's entry;
  a login that comes between a disconnect's GetPlayer and RemovePlayer has its entry
  erased with only the first character's claim released. In each case the character
  is refused as already connected until the server restarts.
* `astray` in `View`. A revival that finds no tile (Server/Game/GameWorld.cpp:140-144) leaves
  its player online at (0, 0) and in no sector's set. While it rests its client shows what it
  showed before, and nobody shows it; but it can move: it sees others, others are told of
  it, and nobody who moves afterwards finds it in a scan. A teleport that fails twice goes on
  with a position that was never written (Server/Game/GameWorld.cpp:499-508). And two handlers of
  one object: a death that tells everybody a player is gone while its move tells them it has come.
* `raced` in `View`: pairs of which one changed, or began to vanish, while the other was
  in a handler. (1) Two players approach each other at once: both store their new
  position, then each finds the other, where it is now, already in its *old* view, so
  both send SC_MOVE_OBJECT and neither SC_ADD_OBJECT, and the clients ignore a
  move of an object they do not know: invisible to each other until one leaves the view
  and returns. (2) Two that part at once may each find the other in neither view:
  both clients go on showing the other. (3) A login that scans during a teleport's gap
  between RemoveObject and AddObject, or that adds a monster whose dying handler
  has made its list already, misses one or keeps showing it.
* `ghosts` in `View`. OnPlayerDied tells the others that the victim is gone and sends the
  victim what is around its new place, but not that what was around the old one is to go;
  its client shows it until each of these objects moves across its view again.

## Fairness

Safety is checked under `Spec`'s transitions alone. Liveness assumes weak fairness of

* the steps of a handler that has begun (`PlayerLife`, `MonsterLife`): operating system threads are scheduled, and the locks are held for
  bounded stretches;
* dequeuing a due timer by some idle worker: the timer thread posts it to the
  completion port, which hands it out in order;
* the completion of a send the kernel was given, and its handling (`SessionIO`);
* the login and the save DB thread (`Persistence`), for `ShutDown`'s joins of both;
* time, AddTimer's pending notification, the timer thread, each worker and ShutDown
  (`TimerManager`): a thread that is not blocked runs; spurious wake-ups and failures are
  not assumed, so `Fires` does not rest on them;
* both threads of the client and the server's handlers (`Client`), not the user;
* the steps of a MONSTER_AI handler that has begun, the timer of a monster that is *active*, and
  the end of the attack cooldown (`Pursuit`). The handler asks HasObserverNearby first and a
  monster without an observer is deactivated and does not tick: `LetsGo` exempts one that
  sleeps, and `Catches` speaks of a tick that has got past the gate with a target that is there,
  when the players do nothing any more; that the monster stays awake on the way, as the target
  is in view of it, is part of what it shows.

Nothing is assumed of players or monsters: nobody has to attack, come, leave, send or
log in. (`PathRests` in `Pursuit`'s player actions is no scheduling assumption: FindPath reads
nothing they write.)

## Proofs

Eight modules hold theorems; each is about every value of the constants its assumptions
admit. Every safety invariant and every safety action property that a run checks is proved.
So are the four refinements. The component's assumption is a named `ASSUME` of its module.

The pattern is the same everywhere: an inductive invariant, a lemma that the initial
states satisfy it, one lemma for each conjunct or action that keeps it, and a theorem that
it implies the property. What makes each invariant inductive:

**`SectorManagerProofs`** (any map, sector size, walls, objects, careless ids and scans:
`MapAssumption`, `IdAssumption`): `AtRestAlways`, `NearbyCompleteAlways`, `ImplementsOccupancy`.
`AtRest` says nothing of an operation under way. `IndInv` adds, phase by phase, which words
(`TileInv`: two during a move) and which sector sets (`SectorInv`) hold an object, what a
phase implies for position and goal (`PhaseInv`), and what a scan has counted for an object
left alone so far (`ScanInv`: once if its sector was read, else not). The steps on careless
ids preserve it because a CAS never changes a word that holds another id. `NearbyComplete`
then needs `NeighbouringSectors`: coordinates at most one sector size apart lie in
neighbouring sectors. For the refinement, `FreeTileVacant` says that a free word means that
no object's abstract place is that tile; each step is then an Enter, a Walk, a Leave or a
stutter.

**`PlayerLifeProofs`** (any attackers, workers, hp, damages, regeneration: `LifeAssumption`):
`NeverStuckDead`, `OneTimer`, and `TypeCorrect`: hp never leaves `0 .. MaxHp`. `NoStuckDead` is
inductive with the types. `OneTimerUntilDeath` speaks of quiet states; its invariant counts
what carries the flag: until the first death `m_regenActive` is set exactly when there is
one timer, one handler that will add one or clear the flag, or one attacker about to add
one, and never two (`ChainInv`); a hurt player's flag is set or somebody is about to look
again (`HurtInv`); nobody is in a branch for the dead (`AliveInv`).
*`PlayerDeath`* (any map, sectors and killers): `ExactAlways`. It rests on no guard that keeps
handlers apart: `stale` counts a logout under a handler from its GetPlayer on. Unless `stale`,
at most one handler is past the point where it may give up without a trace, so `PlaceInv` says
of that one alone what it has done to tile and sector so far (`At`), and of a player at rest
that both agree with its position.

**`TimerManagerProofs`** (any timers, workers, slots, faults: `TimerAssumption`):
`OnceEachAlways`, `NeverEarlyAlways`, `NoLostWakeupAlways`, `SlotsReturnAlways`. `IndInv` says
what a thread has in its hands (`HandInv`), that what has left the heap was due (`DueInv`),
that the thread holds the mutex between its look at the heap and its wait (`WaitInv`), that
a slot is in one place (`OwnInv`, with `SlotsReturn`) and a timer too (`CarryInv`). The two lean
on each other: a slot Acquire hands out must be nowhere else (`AcquiredUnused`), which for a
new object holds because it carries the timer it was made for (`NewInv`), and a timer is in
the thread's hand only if no slot carries it.
*`MonsterLife`* (any attackers, viewers, workers, tiles, hp): `OneChainAlways`,
`MonsterExactAlways`, `SeenAlways`, `NeverForgotten`. Unless `raced`, kills, rewards and lives
count alike (`CountInv`); a buried monster is in one place, with its killer, in a respawn
timer, or with a worker that brings it back (`BurialInv`); one of a timer, a handler, a viewer
or a worker holds the AI chain (`ChainInv`), and it is over before the next life (`RestInv`);
a monster in view is driven or somebody who saw it will start it (`SeenInv`); the tiles it
holds are named for each stretch of its life (`PlaceInv`). `NeverForgotten` needs no
exemption: whatever a killer, a timer and a worker do to each other's monster, none of them
drops it while it is dead.

**`SessionIOProofs`** (any sessions, packets, receives): `InOrderAlways`,
`SendingWhileQueuedAlways`, `KeepsReceivingAlways`. `IOInv` says that what has been accepted is
what is on the wire followed by what is queued, in the order of its numbers (`Stream`; a
packet that has completed is in both until OnSendComplete takes it out, hence `Done`), and
that `m_isSending`, the WSASend outstanding and a queue that is not empty are one thing
(`Busy`); a closed socket has lost its connection. `ImplementsChannel` follows for each session:
by `Stream` what has been accepted and has not completed is the channel's content, so
SendPacket appends to it (`SendIsSend`), the kernel takes its first (`TransmitIsDeliver`), and
the step that closes the socket breaks it (`Closed`); everything else is a stutter.
*`View`* (any players, monsters, places, view distance): `ShowsAlways`. The invariant is
about pairs: for two objects of which neither raced the other, what the handler under way
has told so far (`Told`) is what the client shows, ghosts apart (`Shows`), and what its scan
has found out is true (`ScanInv`). A step of a third object leaves a pair alone
(`Bystanders`); of an unraced pair one is idle (`ActsAlone`), and the other's step keeps its
half (`OwnStep`). A player that found no tile at its revival is in the invariant while it rests or
leaves (`PresenceInv`: who acts and is not `astray` is in a sector, `Acting`).

**`LoginProofs`** (any ids, connections, requests, characters: `LoginAssumption`):
`IdsNotSharedAlways`, `OneBodyAlways`, `AnswersItsConnectionAlways`, `ClaimsHaveHoldersAlways`.
That a character is in the world once is no matter of the entries of `m_players` alone:
`HeldOnce` says that one of an entry, a login that has claimed it, or a connection that
gives it back holds it, and `HeldIsClaimed` that what is held is in `m_activeDbIds`.
`AskedInv`: the session a request was answered with is the one it came on, or that one is
closed. `ImplementsClaim`: a character that is held is not also lost (`HeldStage`), so a claim
is a Take, AddPlayer an Enter, RemovePlayer a Leave, ReleaseDbId a GiveBack; an entry
that another login overwrites or erases is a Leave or a Lose (`PutOut`), and what SPAWN_FULL
keeps a Lose.
*`Client`* (any map, reasons, connections): `ClientFollowsAlways`, `ServerTellsAlways`,
`FailReportedAlways`, `JoinReturns`. `ClientInv` follows a position from the server's state
(`TellsInv`) through the last position packet under way (`LastInv`) to `m_me`, and says that a
move the client has predicted will be answered or was refused (`MoveInv`); that one login is
asked for per connection (`OneLoginInv`), so that the one refusal is in one place (`FailInv`).
Each step of a queue is one lemma (`...Queue`) that the others cite.

**`FramingProofs`** (any buffer of at least one byte, any header and packet sizes that fit,
any cut of the stream): `FramedAsSentAlways`, `NoneLeftBehindAlways`, `ImplementsChannel`.
`Stream` describes the unread bytes, in the ring first and then on the wire, as the packets
not handled yet: each whole, in order, the first at the front. The ring's arithmetic is in
`ModTwice`, `UsedIs`, `SlotIs` and `OnWriteIs`. A packet that is taken out is the first of
them, hence Deliver (`ImplementsChannel`).

**`PersistenceProofs`** (any sessions, savers, levels, rewards: `PersistenceAssumption`):
`SavedUnlessRacedAlways`, `DrainedWhenReturnedAlways`, `RowLegalAlways`, `ShutdownDrains`.
`LatestInv` says where the character's last state is: with its player, then in the snapshot of
its logout, then at the end of the queue, then in the row; `LegalInv` that what is read half
way keeps the level of its player; `DrainInv` that what a returned saver left behind was
posted late. `ShutdownDrains` assumes finitely many sessions; its measure counts the queue,
the logins whose UpdateLastLogin, the sessions whose logout and the autosaves whose snapshot
may still be posted, and the thread's return. All of these go on after `m_running` is cleared;
each post takes one from what is still to come, and only the bound on sessions and DB_SAVE
timers keeps it finite. On the level table: `GainConserves`, GainExp neither makes nor loses
experience and leaves less than the next level needs, whatever the reward.

**`PursuitProofs`** (any map, walls, budget: `PathAssumption`; any players, whatever they do):
`PathIsWalkAlways`, `ShortestAlways`, `FindPathEnds`, `WalksInTheWorld`, `ShortestInTheWorld`,
`HitsWhoStoodBesideAlways`, `GainsOnTargetAlways`, `StepsBeside`, `StaysInRangeAlways`.
`PathInv`: each node's parent is closed and beside it, so what has been walked back through so
far leads on to the goal. `BestInv`: what is closed is at its distance from the start
(`CostInv`), and the queue cuts the goal off from it (`FrontierInv`). A closed tile is never
opened again because the Manhattan distance loses at most one a step (`Consistent`): the
queue's top is then at its distance (`TopIsOptimal`). `FindPathEnds` weighs a tile that may
still be expanded as five turns, one more than the nodes it can queue (`FourAround`), and the
way back by the node's distance (`QueueInv`). In `Pursuit` the players act between all steps
of a tick. `IndInv` adds that the search starts where the monster stands (`SearchInv`), that
the side it picked is a tile of the map (`PickInv`), and who has stood beside it since it
looked (`MetInv`), from which `HitsWhoStoodBesideAlways` follows. `GainsOnTarget` needs
nothing of the players, since the goal is fixed when FindPath begins and the first of a
shortest path is a step nearer; `StepsBeside` says that the step is to a neighbouring walkable
tile on which no player stands when it is taken, however many moved since the goal was chosen.
That the goal is a tile of the map (`GoalIsTile`) is `PickInv`.

Two definitions are recursive functions on `Nat`, `Within` (what can be reached in n steps)
and the level table's sums. What holds of each of their values is proved by induction over a
set: a set of numbers that has 0 and with each its successor is `Nat` (`SetInduction`,
from the well-foundedness of `<`). The library's induction theorems take an operator and
cannot be used.

Only model-checked is liveness: `Heals`, `ShutdownReturns`, `ComesBack`, `Delivered`, `Fires`,
`ShutDownReturns`, `FailReturns`, `LetsGo` and `Catches`. Each rests on fairness, so on
ENABLED, which no prover here handles. The safety that they rest on is proved: a player at
0 hp has somebody who will revive it (`NoStuckDead`), a dead monster somebody who will bring it
back (`NeverForgotten`), a queue that is not empty is being sent (`SendingWhileQueued`), a thread
that waits has nothing due it has not been told of (`NoLostWakeup`), a chase's step gains
(`GainsOnTarget`), and what remains to be done falls with each step of FindPath, of the save
thread once it is to stop, and of RecvThread once it is joined (`FindPathEnds`, `ShutdownDrains`,
`JoinReturns`). What fairness adds is that these steps are taken.

## Not modelled

* Lua and sol2 under `Lua/Include` are third-party code and some four fifths of the lines
  of the repository; of its own eight thousand lines most of what is left over is rendering,
  the console's keys, the load generator, headers, logging and SQL.
* What packets carry beyond who appears, who disappears and where the own player is, and the
  dispatch by type; the players' cooldowns (CanMove and the like) and attack ranges: they
  decide *whether* a handler goes on, which the models leave open.
* Memory: a worker that uses a Session another one has deleted.
* AcceptEx and its failure path (a failed completion has key 0 and disconnects session 0).
* A timer that means the next owner of a session id: `PlayerLife` keeps its player's id, `Login`
  has the reuse. (In `Pursuit` a target may be the next owner.)
* hp in the row: a player that leaves at 0 hp comes back dead.
* The client's receive buffer, which survives a reconnect with half a packet in it.
* Chat and attack effects, `Renderer`, `InputHandler`, `StressTest` (it sends the same packets
  and keeps no state the server depends on), the Lua start-up script, map files, ODBC
  statements, log output.

## Open work

* Compositions: `Login` with timers (an HP_REGEN timer that means a former owner of an
  id) and with the memory of Sessions; `Client` with `Framing` over a
  reconnect; `SessionIO` and `Framing` as one `Channel` from SendPacket to HandlePacket.
* An abstract store with one writer for `Persistence`. `SavedUnlessRaced` says what it would
  promise, but most of its steps would be excused by `raced`.
* A measure for `ShutDownReturns`, whose timer thread may miss the notification (`missed`), so
  that it falls only without that race.
