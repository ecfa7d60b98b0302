---------------------------- MODULE SectorManager ----------------------------
(***************************************************************************)
(* Server/Game/SectorManager.cpp: who stands where.  Two structures hold   *)
(* it: m_tileToObject, one atomic word per tile changed only by CAS, and   *)
(* the sectors' object sets, each behind its own shared_mutex.  Worker     *)
(* threads run AddObject, RemoveObject, TryMoveObject and                  *)
(* GetNearbyObjects concurrently, and no operation holds a lock across its *)
(* steps, so each CAS and each critical section is an action here.         *)
(*                                                                         *)
(* The contract of an object: at most one operation on it at a time (pc is *)
(* indexed by the object).  GameWorld keeps it for most objects but not    *)
(* for all (module PlayerDeath): the ids of which it does not are in       *)
(* Careless, and for them every interleaving of the primitive steps their  *)
(* operations consist of is allowed, so that what holds here of Objects    *)
(* holds whatever is done to the others.                                   *)
(***************************************************************************)
EXTENDS Integers, FiniteSets

CONSTANTS
    Objects,        \* ids of players and monsters, operations one at a time
    Careless,       \* ids on which operations overlap
    InvalidId,      \* SectorManager::INVALID_ID, an empty tile
    MapWidth,       \* MAP_WIDTH
    MapHeight,      \* MAP_HEIGHT
    SectorSize,     \* SECTOR_SIZE
    MaxRadius,      \* how far AddObject looks for a free tile (20)
    Walls,          \* tiles with m_obstacle set
    Readers         \* workers that run GetNearbyObjects

ASSUME MapAssumption ==
    /\ MapWidth \in Nat \ {0}
    /\ MapHeight \in Nat \ {0}
    /\ SectorSize \in Nat \ {0}
    /\ MaxRadius \in Nat

ASSUME IdAssumption ==
    /\ InvalidId \notin Objects \cup Careless
    /\ Objects \cap Careless = {}

Ids == Objects \cup Careless

Tiles   == (0 .. MapWidth - 1) \X (0 .. MapHeight - 1)
NoTile  == <<-1, -1>>

IsWalkable(t) == t \in Tiles /\ t \notin Walls

Walkable == {t \in Tiles : IsWalkable(t)}

GetSectorCoord(t) == <<t[1] \div SectorSize, t[2] \div SectorSize>>

Sectors == {GetSectorCoord(t) : t \in Tiles}

VARIABLES
    tileToObject,   \* m_tileToObject
    sectorObjects,  \* Sector::objects of every sector
    pos,            \* the owner's m_pos, NoTile while it is not in the world
    pc,             \* where the operation on this object stands
    todo,           \* TryClaimNearby: candidate tiles not tried yet
    goal,           \* AddObject: centre, then the tile claimed; a move: its target
    scan,           \* GetNearbyObjects: sectors not read yet
    center,         \* GetNearbyObjects: the tile asked about
    result,         \* GetNearbyObjects: how often each id was pushed back
    steady          \* history: in the world and left alone since the scan began

objVars  == <<pos, pc, todo, goal>>
readVars == <<scan, center, result, steady>>
vars     == <<tileToObject, sectorObjects, pos, pc, todo, goal,
              scan, center, result, steady>>

Abs(n) == IF n < 0 THEN -n ELSE n

\* Chebyshev distance, the radius of the ring of c that t lies on.
Dist(c, t) ==
    LET dx == Abs(t[1] - c[1])
        dy == Abs(t[2] - c[2])
    IN  IF dx < dy THEN dy ELSE dx

Init ==
    /\ tileToObject = [t \in Tiles |-> InvalidId]
    /\ sectorObjects = [s \in Sectors |-> {}]
    /\ pos = [o \in Objects |-> NoTile]
    /\ pc = [o \in Objects |-> "idle"]
    /\ todo = [o \in Objects |-> {}]
    /\ goal = [o \in Objects |-> NoTile]
    /\ scan = [r \in Readers |-> {}]
    /\ center = [r \in Readers |-> NoTile]
    /\ result = [r \in Readers |-> [o \in Objects |-> 0]]
    /\ steady = [r \in Readers |-> {}]

-----------------------------------------------------------------------------
(* The two CAS operations on a tile. *)

\* Mutant: a plain store where the code has compare_exchange_strong.
ClaimBlindly(o, t) == tileToObject' = [tileToObject EXCEPT ![t] = o]

\* TryClaim: CAS from INVALID_ID to the id; the action is its success.
TryClaim(o, t) ==
    /\ tileToObject[t] = InvalidId
    /\ tileToObject' = [tileToObject EXCEPT ![t] = o]

\* Mutant: a plain store where the code has compare_exchange_strong.
ReleaseBlindly(o, t) == tileToObject' = [tileToObject EXCEPT ![t] = InvalidId]

\* Release: CAS from the id to INVALID_ID; it leaves somebody else's tile alone.
Release(o, t) ==
    tileToObject' = IF tileToObject[t] = o
                    THEN [tileToObject EXCEPT ![t] = InvalidId]
                    ELSE tileToObject

\* Any operation on o ends o's being left alone, for every scan under way.
Disturb(o) == steady' = [r \in Readers |-> steady[r] \ {o}]

-----------------------------------------------------------------------------
(* AddObject *)

\* The tiles TryClaimNearby looks at, and the order in which it does: ring
\* after ring, in a ring row by row.
Candidates(c) == {t \in Walkable : Dist(c, t) <= MaxRadius}

Before(c, t, u) ==
    \/ Dist(c, t) < Dist(c, u)
    \/ Dist(c, t) = Dist(c, u) /\ t[2] < u[2]
    \/ Dist(c, t) = Dist(c, u) /\ t[2] = u[2] /\ t[1] < u[1]

FirstOf(c, S) == {t \in S : \A u \in S \ {t} : Before(c, t, u)}

AddObject(o, c) ==
    /\ pc[o] = "idle" /\ pos[o] = NoTile
    /\ pc' = [pc EXCEPT ![o] = "claim"]
    /\ goal' = [goal EXCEPT ![o] = c]
    /\ todo' = [todo EXCEPT ![o] = Candidates(c)]
    /\ Disturb(o)
    /\ UNCHANGED <<tileToObject, sectorObjects, pos, scan, center, result>>

\* The next candidate is free: its CAS succeeds.
ClaimNearby(o) ==
    /\ pc[o] = "claim"
    /\ \E t \in FirstOf(goal[o], todo[o]) :
          /\ TryClaim(o, t)
          /\ goal' = [goal EXCEPT ![o] = t]
    /\ pc' = [pc EXCEPT ![o] = "insert"]
    /\ todo' = [todo EXCEPT ![o] = {}]
    /\ UNCHANGED <<sectorObjects, pos, readVars>>

\* The next candidate is taken: its CAS fails and the scan goes on.
SkipTaken(o) ==
    /\ pc[o] = "claim"
    /\ \E t \in FirstOf(goal[o], todo[o]) :
          /\ tileToObject[t] # InvalidId
          /\ todo' = [todo EXCEPT ![o] = @ \ {t}]
    /\ UNCHANGED <<tileToObject, sectorObjects, pos, pc, goal, readVars>>

\* No tile within the radius: AddObject returns false.
NoRoom(o) ==
    /\ pc[o] = "claim" /\ todo[o] = {}
    /\ pc' = [pc EXCEPT ![o] = "idle"]
    /\ goal' = [goal EXCEPT ![o] = NoTile]
    /\ UNCHANGED <<tileToObject, sectorObjects, pos, todo, readVars>>

InsertIntoSector(o) ==
    /\ pc[o] = "insert"
    /\ sectorObjects' = [sectorObjects EXCEPT ![GetSectorCoord(goal[o])] = @ \cup {o}]
    /\ pc' = [pc EXCEPT ![o] = "setPos"]
    /\ UNCHANGED <<tileToObject, pos, todo, goal, readVars>>

\* The caller's SetPos after AddObject or TryMoveObject returned true.
SetPos(o) ==
    /\ pc[o] = "setPos"
    /\ pos' = [pos EXCEPT ![o] = goal[o]]
    /\ goal' = [goal EXCEPT ![o] = NoTile]
    /\ pc' = [pc EXCEPT ![o] = "idle"]
    /\ UNCHANGED <<tileToObject, sectorObjects, todo, readVars>>

-----------------------------------------------------------------------------
(* RemoveObject *)

RemoveObject(o) ==
    /\ pc[o] = "idle" /\ pos[o] # NoTile
    /\ Release(o, pos[o])
    /\ pc' = [pc EXCEPT ![o] = "erase"]
    /\ Disturb(o)
    /\ UNCHANGED <<sectorObjects, pos, todo, goal, scan, center, result>>

EraseFromSector(o) ==
    /\ pc[o] = "erase"
    /\ sectorObjects' = [sectorObjects EXCEPT ![GetSectorCoord(pos[o])] = @ \ {o}]
    /\ pos' = [pos EXCEPT ![o] = NoTile]
    /\ pc' = [pc EXCEPT ![o] = "idle"]
    /\ UNCHANGED <<tileToObject, todo, goal, readVars>>

-----------------------------------------------------------------------------
(* TryMoveObject; a target equal to pos, or taken, changes nothing. *)

TryMoveObject(o, t) ==
    /\ pc[o] = "idle" /\ pos[o] # NoTile /\ t # pos[o]
    /\ TryClaim(o, t)
    /\ goal' = [goal EXCEPT ![o] = t]
    /\ pc' = [pc EXCEPT ![o] = "release"]
    /\ Disturb(o)
    /\ UNCHANGED <<sectorObjects, pos, todo, scan, center, result>>

\* Mutant: the old tile is never released.
ForgetRelease(o) ==
    /\ pc[o] = "release"
    /\ pc' = [pc EXCEPT ![o] = "sector"]
    /\ UNCHANGED <<tileToObject, sectorObjects, pos, todo, goal, readVars>>

ReleaseOld(o) ==
    /\ pc[o] = "release"
    /\ Release(o, pos[o])
    /\ pc' = [pc EXCEPT ![o] = "sector"]
    /\ UNCHANGED <<sectorObjects, pos, todo, goal, readVars>>

\* MoveObject: std::lock takes both sector mutexes or none.
MoveObject(o) ==
    LET old == GetSectorCoord(pos[o])
        new == GetSectorCoord(goal[o])
    IN  /\ pc[o] = "sector"
        /\ sectorObjects' = IF old = new THEN sectorObjects
                            ELSE [sectorObjects EXCEPT ![old] = @ \ {o},
                                                       ![new] = @ \cup {o}]
        /\ pc' = [pc EXCEPT ![o] = "setPos"]
        /\ UNCHANGED <<tileToObject, pos, todo, goal, readVars>>

-----------------------------------------------------------------------------
(* GetNearbyObjects: the 3 x 3 sectors around a tile, each read under its  *)
(* shared lock, row by row; between two of them objects move.              *)

\* Mutant: the loop over dx stops before +1.
NearbyShort(c) ==
    LET m == GetSectorCoord(c)
    IN  {s \in Sectors : s[1] - m[1] \in {-1, 0} /\ Abs(s[2] - m[2]) <= 1}

NearbySectors(c) ==
    LET m == GetSectorCoord(c)
    IN  {s \in Sectors : Abs(s[1] - m[1]) <= 1 /\ Abs(s[2] - m[2]) <= 1}

RowMajorFirst(S) ==
    {s \in S : \A u \in S \ {s} : s[2] < u[2] \/ (s[2] = u[2] /\ s[1] < u[1])}

GetNearbyObjects(r, c) ==
    /\ scan[r] = {}
    /\ scan' = [scan EXCEPT ![r] = NearbySectors(c)]
    /\ center' = [center EXCEPT ![r] = c]
    /\ result' = [result EXCEPT ![r] = [o \in Objects |-> 0]]
    /\ steady' = [steady EXCEPT ![r] = {o \in Objects : pc[o] = "idle" /\ pos[o] # NoTile}]
    /\ UNCHANGED <<tileToObject, sectorObjects, objVars>>

ReadSector(r) ==
    /\ \E s \in RowMajorFirst(scan[r]) :
          /\ scan' = [scan EXCEPT ![r] = @ \ {s}]
          /\ result' = [result EXCEPT ![r] =
                          [o \in Objects |-> IF o \in sectorObjects[s] THEN @[o] + 1 ELSE @[o]]]
    /\ UNCHANGED <<tileToObject, sectorObjects, objVars, center, steady>>

-----------------------------------------------------------------------------
(* The primitive steps of overlapping operations on one id: a claim or a   *)
(* release of any tile, an insertion into or an erasure from any sector.   *)

StrayTile(x, t) ==
    /\ TryClaim(x, t) \/ Release(x, t)
    /\ UNCHANGED <<sectorObjects, objVars, readVars>>

StraySector(x, s) ==
    /\ \E S \in {sectorObjects[s] \cup {x}, sectorObjects[s] \ {x}} :
          sectorObjects' = [sectorObjects EXCEPT ![s] = S]
    /\ UNCHANGED <<tileToObject, objVars, readVars>>

-----------------------------------------------------------------------------
ObjectStep(o) ==
    \/ ClaimNearby(o) \/ SkipTaken(o) \/ NoRoom(o) \/ InsertIntoSector(o)
    \/ SetPos(o)
    \/ EraseFromSector(o)
    \/ ReleaseOld(o) \/ MoveObject(o)

Next ==
    \/ \E o \in Objects :
          \/ \E c \in Tiles : AddObject(o, c)
          \/ RemoveObject(o)
          \/ \E t \in Walkable : TryMoveObject(o, t)
          \/ ObjectStep(o)
    \/ \E r \in Readers :
          \/ \E c \in Tiles : GetNearbyObjects(r, c)
          \/ ReadSector(r)
    \/ \E x \in Careless :
          \/ \E t \in Walkable : StrayTile(x, t)
          \/ \E s \in Sectors : StraySector(x, s)

Spec == Init /\ [][Next]_vars

-----------------------------------------------------------------------------
TypeOK ==
    /\ tileToObject \in [Tiles -> Ids \cup {InvalidId}]
    /\ sectorObjects \in [Sectors -> SUBSET Ids]
    /\ pos \in [Objects -> Walkable \cup {NoTile}]
    /\ pc \in [Objects -> {"idle", "claim", "insert", "setPos", "erase", "release", "sector"}]
    /\ todo \in [Objects -> SUBSET Walkable]
    /\ goal \in [Objects -> Tiles \cup {NoTile}]
    /\ scan \in [Readers -> SUBSET Sectors]
    /\ center \in [Readers -> Tiles \cup {NoTile}]
    /\ result \in [Readers -> [Objects -> Nat]]
    /\ steady \in [Readers -> SUBSET Objects]

Held(o) == {t \in Tiles : tileToObject[t] = o}
Home(o) == {s \in Sectors : o \in sectorObjects[s]}

(* Between operations the two structures and the object's own position     *)
(* agree: an object in the world holds its tile and no other and is in     *)
(* the set of that tile's sector and no other; one outside holds nothing.  *)
(* Races on one id (Careless) never take another object's tile away.       *)
AtRest ==
    \A o \in Objects : pc[o] = "idle" =>
        /\ Held(o) = IF pos[o] = NoTile THEN {} ELSE {pos[o]}
        /\ Home(o) = IF pos[o] = NoTile THEN {} ELSE {GetSectorCoord(pos[o])}

(* A finished GetNearbyObjects reports exactly once every object that was  *)
(* left alone during the scan and stands within SECTOR_SIZE of the centre  *)
(* (views reach HALF_VIEW < SECTOR_SIZE), whatever other objects did       *)
(* between the reads of two sectors.                                       *)
NearbyComplete ==
    \A r \in Readers : scan[r] = {} =>
        \A o \in steady[r] :
            Dist(center[r], pos[o]) <= SectorSize => result[r][o] = 1

\* The linearization point of a move is its claim, of a removal its release.
At == [o \in Objects |->
         CASE pc[o] \in {"insert", "release", "sector", "setPos"} -> goal[o]
           [] pc[o] \in {"claim", "erase"} -> NoTile
           [] OTHER -> pos[o]]

Occ == INSTANCE Occupancy WITH Places <- Walkable, Nowhere <- NoTile, at <- At

(* Seen through At, the tile words and the sector sets implement the       *)
(* abstract map: no tile is ever entered while somebody is on it.          *)
RefinesOccupancy == Occ!Spec
=============================================================================
