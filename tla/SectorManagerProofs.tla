------------------------- MODULE SectorManagerProofs -------------------------
(***************************************************************************)
(* Theorems about SectorManager for any map, any set of objects and any    *)
(* number of concurrent scans.                                             *)
(***************************************************************************)
EXTENDS SectorManager, TLAPS

(* The position of an object outside the world is no tile of the map.      *)
LEMMA NoTileFact == NoTile \notin Tiles /\ NoTile \notin Walkable
BY MapAssumption DEF NoTile, Tiles, Walkable

(* Every tile lies in a sector of the grid.                                *)
LEMMA SectorFact == \A t \in Tiles : GetSectorCoord(t) \in Sectors
BY DEF Sectors

(* What IsWalkable accepts lies on the map.                                *)
LEMMA WalkableFact == Walkable \subseteq Tiles
BY DEF Walkable

(* What the phase of an operation says about the object's position and     *)
(* about the tile it is heading for.                                       *)
PhaseInv ==
    \A o \in Objects :
        /\ pc[o] \in {"claim", "insert"} => pos[o] = NoTile
        /\ pc[o] \in {"erase", "release", "sector"} => pos[o] # NoTile
        /\ pc[o] \in {"insert", "setPos", "release", "sector"} => goal[o] \in Walkable
        /\ pc[o] = "release" => goal[o] # pos[o]

(* The tiles whose word holds o, phase by phase: during a move it is two.  *)
TileInv ==
    \A o \in Objects, t \in Tiles :
        tileToObject[t] = o <=>
            \/ t = pos[o] /\ pc[o] \in {"idle", "release"}
            \/ t = goal[o] /\ pc[o] \in {"insert", "setPos", "release", "sector"}

(* The sectors whose set holds o, phase by phase: never more than one.     *)
SectorInv ==
    \A o \in Objects, s \in Sectors :
        o \in sectorObjects[s] <=>
            \/ /\ pos[o] # NoTile /\ s = GetSectorCoord(pos[o])
               /\ pc[o] \in {"idle", "erase", "release", "sector"}
            \/ s = GetSectorCoord(goal[o]) /\ pc[o] = "setPos"

(* A scan under way has counted an undisturbed object of the neighbourhood *)
(* once if its sector has been read, and otherwise not at all.             *)
ScanInv ==
    \A r \in Readers : \A o \in steady[r] :
        /\ pc[o] = "idle" /\ pos[o] # NoTile /\ center[r] \in Tiles
        /\ GetSectorCoord(pos[o]) \in NearbySectors(center[r]) =>
              result[r][o] = IF GetSectorCoord(pos[o]) \in scan[r] THEN 0 ELSE 1

IndInv == TypeOK /\ PhaseInv /\ TileInv /\ SectorInv /\ ScanInv

(* Every step keeps the types.                                             *)
LEMMA TypeStep == TypeOK /\ PhaseInv /\ [Next]_vars => TypeOK'
<1> SUFFICES ASSUME TypeOK, PhaseInv, [Next]_vars PROVE TypeOK'
  OBVIOUS
<1> USE NoTileFact, SectorFact, WalkableFact DEF TypeOK, Ids
<1>1. ASSUME NEW o \in Objects, NEW c \in Tiles, AddObject(o, c) PROVE TypeOK'
  <2>1. Candidates(c) \subseteq Walkable
    BY DEF Candidates
  <2>2. steady' \in [Readers -> SUBSET Objects]
    BY <1>1 DEF AddObject, Disturb
  <2> QED
    BY <1>1, <2>1, <2>2 DEF AddObject
<1>2. ASSUME NEW o \in Objects, RemoveObject(o) PROVE TypeOK'
  <2>1. steady' \in [Readers -> SUBSET Objects]
    BY <1>2 DEF RemoveObject, Disturb
  <2>2. tileToObject' \in [Tiles -> Ids \cup {InvalidId}]
    BY <1>2 DEF RemoveObject, Release
  <2> QED
    BY <1>2, <2>1, <2>2 DEF RemoveObject
<1>3. ASSUME NEW o \in Objects, NEW t \in Walkable, TryMoveObject(o, t) PROVE TypeOK'
  <2>1. steady' \in [Readers -> SUBSET Objects]
    BY <1>3 DEF TryMoveObject, Disturb
  <2>2. tileToObject' \in [Tiles -> Ids \cup {InvalidId}]
    BY <1>3 DEF TryMoveObject, TryClaim
  <2> QED
    BY <1>3, <2>1, <2>2 DEF TryMoveObject
<1>4. ASSUME NEW o \in Objects, ClaimNearby(o) PROVE TypeOK'
  BY <1>4 DEF ClaimNearby, TryClaim, FirstOf, readVars
<1>5. ASSUME NEW o \in Objects, SkipTaken(o) PROVE TypeOK'
  BY <1>5 DEF SkipTaken, FirstOf, readVars
<1>6. ASSUME NEW o \in Objects, NoRoom(o) PROVE TypeOK'
  BY <1>6 DEF NoRoom, readVars
<1>7. ASSUME NEW o \in Objects, InsertIntoSector(o) PROVE TypeOK'
  BY <1>7 DEF InsertIntoSector, readVars
<1>8. ASSUME NEW o \in Objects, SetPos(o), goal[o] \in Walkable PROVE TypeOK'
  BY <1>8 DEF SetPos, readVars
<1>9. ASSUME NEW o \in Objects, EraseFromSector(o) PROVE TypeOK'
  BY <1>9 DEF EraseFromSector, readVars
<1>10. ASSUME NEW o \in Objects, ReleaseOld(o) PROVE TypeOK'
  BY <1>10 DEF ReleaseOld, Release, readVars
<1>11. ASSUME NEW o \in Objects, MoveObject(o) PROVE TypeOK'
  BY <1>11 DEF MoveObject, readVars
<1>12. ASSUME NEW r \in Readers, NEW c \in Tiles, GetNearbyObjects(r, c) PROVE TypeOK'
  <2>1. NearbySectors(c) \subseteq Sectors
    BY DEF NearbySectors
  <2> QED
    BY <1>12, <2>1 DEF GetNearbyObjects, objVars
<1>13. ASSUME NEW r \in Readers, ReadSector(r) PROVE TypeOK'
  <2>1. result' \in [Readers -> [Objects -> Nat]]
    BY <1>13 DEF ReadSector
  <2>2. scan' \in [Readers -> SUBSET Sectors]
    BY <1>13 DEF ReadSector, RowMajorFirst
  <2> QED
    BY <1>13, <2>1, <2>2 DEF ReadSector, objVars
<1>14. ASSUME NEW x \in Careless, NEW t \in Walkable, StrayTile(x, t) PROVE TypeOK'
  BY <1>14 DEF StrayTile, TryClaim, Release, objVars, readVars
<1>15. ASSUME NEW x \in Careless, NEW s \in Sectors, StraySector(x, s) PROVE TypeOK'
  BY <1>15 DEF StraySector, objVars, readVars
<1>16. CASE UNCHANGED vars
  BY <1>16 DEF vars
<1> QED
  BY <1>1, <1>2, <1>3, <1>4, <1>5, <1>6, <1>7, <1>8, <1>9, <1>10, <1>11, <1>12,
     <1>13, <1>14, <1>15, <1>16 DEF Next, ObjectStep, PhaseInv, SetPos

(* Every step keeps phase and position in accord.                         *)
LEMMA PhaseStep == TypeOK /\ PhaseInv /\ [Next]_vars => PhaseInv'
<1> SUFFICES ASSUME TypeOK, PhaseInv, [Next]_vars PROVE PhaseInv'
  OBVIOUS
<1> USE NoTileFact, SectorFact, WalkableFact, IdAssumption DEF TypeOK, Ids, PhaseInv
<1>1. ASSUME NEW o \in Objects, NEW c \in Tiles, AddObject(o, c) PROVE PhaseInv'
  BY <1>1 DEF AddObject
<1>2. ASSUME NEW o \in Objects, RemoveObject(o) PROVE PhaseInv'
  BY <1>2 DEF RemoveObject, Release
<1>3. ASSUME NEW o \in Objects, NEW t \in Walkable, TryMoveObject(o, t) PROVE PhaseInv'
  BY <1>3 DEF TryMoveObject, TryClaim
<1>4. ASSUME NEW o \in Objects, ClaimNearby(o) PROVE PhaseInv'
  BY <1>4 DEF ClaimNearby, TryClaim, FirstOf
<1>5. ASSUME NEW o \in Objects, SkipTaken(o) PROVE PhaseInv'
  BY <1>5 DEF SkipTaken
<1>6. ASSUME NEW o \in Objects, NoRoom(o) PROVE PhaseInv'
  BY <1>6 DEF NoRoom
<1>7. ASSUME NEW o \in Objects, InsertIntoSector(o) PROVE PhaseInv'
  BY <1>7 DEF InsertIntoSector
<1>8. ASSUME NEW o \in Objects, SetPos(o) PROVE PhaseInv'
  BY <1>8 DEF SetPos
<1>9. ASSUME NEW o \in Objects, EraseFromSector(o) PROVE PhaseInv'
  BY <1>9 DEF EraseFromSector
<1>10. ASSUME NEW o \in Objects, ReleaseOld(o) PROVE PhaseInv'
  BY <1>10 DEF ReleaseOld, Release
<1>11. ASSUME NEW o \in Objects, MoveObject(o) PROVE PhaseInv'
  BY <1>11 DEF MoveObject
<1>12. ASSUME NEW r \in Readers, NEW c \in Tiles, GetNearbyObjects(r, c) PROVE PhaseInv'
  BY <1>12 DEF GetNearbyObjects, objVars
<1>13. ASSUME NEW r \in Readers, ReadSector(r) PROVE PhaseInv'
  BY <1>13 DEF ReadSector, objVars
<1>14. ASSUME NEW x \in Careless, NEW t \in Walkable, StrayTile(x, t) PROVE PhaseInv'
  BY <1>14 DEF StrayTile, TryClaim, Release, objVars, readVars
<1>15. ASSUME NEW x \in Careless, NEW s \in Sectors, StraySector(x, s) PROVE PhaseInv'
  BY <1>15 DEF StraySector, objVars, readVars
<1>16. CASE UNCHANGED vars
  BY <1>16 DEF vars
<1> QED
  BY <1>1, <1>2, <1>3, <1>4, <1>5, <1>6, <1>7, <1>8, <1>9, <1>10, <1>11, <1>12, <1>13, <1>14, <1>15, <1>16 DEF Next, ObjectStep

(* Every step keeps the tile words in accord with the phases.              *)
LEMMA TileStep == TypeOK /\ PhaseInv /\ TileInv /\ [Next]_vars => TileInv'
<1> SUFFICES ASSUME TypeOK, PhaseInv, TileInv, [Next]_vars PROVE TileInv'
  OBVIOUS
<1> USE NoTileFact, SectorFact, WalkableFact, IdAssumption DEF TypeOK, Ids, PhaseInv, TileInv
<1>1. ASSUME NEW o \in Objects, NEW c \in Tiles, AddObject(o, c) PROVE TileInv'
  BY <1>1 DEF AddObject
<1>2. ASSUME NEW o \in Objects, RemoveObject(o) PROVE TileInv'
  BY <1>2 DEF RemoveObject, Release
<1>3. ASSUME NEW o \in Objects, NEW t \in Walkable, TryMoveObject(o, t) PROVE TileInv'
  BY <1>3 DEF TryMoveObject, TryClaim
<1>4. ASSUME NEW o \in Objects, ClaimNearby(o) PROVE TileInv'
  BY <1>4 DEF ClaimNearby, TryClaim, FirstOf
<1>5. ASSUME NEW o \in Objects, SkipTaken(o) PROVE TileInv'
  BY <1>5 DEF SkipTaken
<1>6. ASSUME NEW o \in Objects, NoRoom(o) PROVE TileInv'
  BY <1>6 DEF NoRoom
<1>7. ASSUME NEW o \in Objects, InsertIntoSector(o) PROVE TileInv'
  BY <1>7 DEF InsertIntoSector
<1>8. ASSUME NEW o \in Objects, SetPos(o) PROVE TileInv'
  BY <1>8 DEF SetPos
<1>9. ASSUME NEW o \in Objects, EraseFromSector(o) PROVE TileInv'
  BY <1>9 DEF EraseFromSector
<1>10. ASSUME NEW o \in Objects, ReleaseOld(o) PROVE TileInv'
  BY <1>10 DEF ReleaseOld, Release
<1>11. ASSUME NEW o \in Objects, MoveObject(o) PROVE TileInv'
  BY <1>11 DEF MoveObject
<1>12. ASSUME NEW r \in Readers, NEW c \in Tiles, GetNearbyObjects(r, c) PROVE TileInv'
  BY <1>12 DEF GetNearbyObjects, objVars
<1>13. ASSUME NEW r \in Readers, ReadSector(r) PROVE TileInv'
  BY <1>13 DEF ReadSector, objVars
<1>14. ASSUME NEW x \in Careless, NEW t \in Walkable, StrayTile(x, t) PROVE TileInv'
  BY <1>14 DEF StrayTile, TryClaim, Release, objVars, readVars
<1>15. ASSUME NEW x \in Careless, NEW s \in Sectors, StraySector(x, s) PROVE TileInv'
  BY <1>15 DEF StraySector, objVars, readVars
<1>16. CASE UNCHANGED vars
  BY <1>16 DEF vars
<1> QED
  BY <1>1, <1>2, <1>3, <1>4, <1>5, <1>6, <1>7, <1>8, <1>9, <1>10, <1>11, <1>12, <1>13, <1>14, <1>15, <1>16 DEF Next, ObjectStep

(* Every step keeps the sector sets in accord with the phases.             *)
LEMMA SectorStep == TypeOK /\ PhaseInv /\ SectorInv /\ [Next]_vars => SectorInv'
<1> SUFFICES ASSUME TypeOK, PhaseInv, SectorInv, [Next]_vars PROVE SectorInv'
  OBVIOUS
<1> USE NoTileFact, SectorFact, WalkableFact, IdAssumption DEF TypeOK, Ids, PhaseInv, SectorInv
<1>1. ASSUME NEW o \in Objects, NEW c \in Tiles, AddObject(o, c) PROVE SectorInv'
  BY <1>1 DEF AddObject
<1>2. ASSUME NEW o \in Objects, RemoveObject(o) PROVE SectorInv'
  BY <1>2 DEF RemoveObject, Release
<1>3. ASSUME NEW o \in Objects, NEW t \in Walkable, TryMoveObject(o, t) PROVE SectorInv'
  BY <1>3 DEF TryMoveObject, TryClaim
<1>4. ASSUME NEW o \in Objects, ClaimNearby(o) PROVE SectorInv'
  BY <1>4 DEF ClaimNearby, TryClaim, FirstOf
<1>5. ASSUME NEW o \in Objects, SkipTaken(o) PROVE SectorInv'
  BY <1>5 DEF SkipTaken
<1>6. ASSUME NEW o \in Objects, NoRoom(o) PROVE SectorInv'
  BY <1>6 DEF NoRoom
<1>7. ASSUME NEW o \in Objects, InsertIntoSector(o) PROVE SectorInv'
  BY <1>7 DEF InsertIntoSector
<1>8. ASSUME NEW o \in Objects, SetPos(o) PROVE SectorInv'
  BY <1>8 DEF SetPos
<1>9. ASSUME NEW o \in Objects, EraseFromSector(o) PROVE SectorInv'
  BY <1>9 DEF EraseFromSector
<1>10. ASSUME NEW o \in Objects, ReleaseOld(o) PROVE SectorInv'
  BY <1>10 DEF ReleaseOld, Release
<1>11. ASSUME NEW o \in Objects, MoveObject(o) PROVE SectorInv'
  BY <1>11 DEF MoveObject
<1>12. ASSUME NEW r \in Readers, NEW c \in Tiles, GetNearbyObjects(r, c) PROVE SectorInv'
  BY <1>12 DEF GetNearbyObjects, objVars
<1>13. ASSUME NEW r \in Readers, ReadSector(r) PROVE SectorInv'
  BY <1>13 DEF ReadSector, objVars
<1>14. ASSUME NEW x \in Careless, NEW t \in Walkable, StrayTile(x, t) PROVE SectorInv'
  BY <1>14 DEF StrayTile, TryClaim, Release, objVars, readVars
<1>15. ASSUME NEW x \in Careless, NEW s \in Sectors, StraySector(x, s) PROVE SectorInv'
  BY <1>15 DEF StraySector, objVars, readVars
<1>16. CASE UNCHANGED vars
  BY <1>16 DEF vars
<1> QED
  BY <1>1, <1>2, <1>3, <1>4, <1>5, <1>6, <1>7, <1>8, <1>9, <1>10, <1>11, <1>12, <1>13, <1>14, <1>15, <1>16 DEF Next, ObjectStep

(* Every step keeps the counts of the scans under way.                      *)
LEMMA ScanStep == TypeOK /\ SectorInv /\ ScanInv /\ [Next]_vars => ScanInv'
<1> SUFFICES ASSUME TypeOK, SectorInv, ScanInv, [Next]_vars PROVE ScanInv'
  OBVIOUS
<1> USE NoTileFact, SectorFact, WalkableFact, IdAssumption DEF TypeOK, Ids, ScanInv, readVars, Disturb
<1>1. ASSUME NEW o \in Objects, NEW c \in Tiles, AddObject(o, c) PROVE ScanInv'
  BY <1>1 DEF AddObject
<1>2. ASSUME NEW o \in Objects, RemoveObject(o) PROVE ScanInv'
  BY <1>2 DEF RemoveObject, Release
<1>3. ASSUME NEW o \in Objects, NEW t \in Walkable, TryMoveObject(o, t) PROVE ScanInv'
  BY <1>3 DEF TryMoveObject, TryClaim
<1>4. ASSUME NEW o \in Objects, ClaimNearby(o) PROVE ScanInv'
  BY <1>4 DEF ClaimNearby, TryClaim, FirstOf
<1>5. ASSUME NEW o \in Objects, SkipTaken(o) PROVE ScanInv'
  BY <1>5 DEF SkipTaken
<1>6. ASSUME NEW o \in Objects, NoRoom(o) PROVE ScanInv'
  BY <1>6 DEF NoRoom
<1>7. ASSUME NEW o \in Objects, InsertIntoSector(o) PROVE ScanInv'
  BY <1>7 DEF InsertIntoSector
<1>8. ASSUME NEW o \in Objects, SetPos(o) PROVE ScanInv'
  BY <1>8 DEF SetPos
<1>9. ASSUME NEW o \in Objects, EraseFromSector(o) PROVE ScanInv'
  BY <1>9 DEF EraseFromSector
<1>10. ASSUME NEW o \in Objects, ReleaseOld(o) PROVE ScanInv'
  BY <1>10 DEF ReleaseOld, Release
<1>11. ASSUME NEW o \in Objects, MoveObject(o) PROVE ScanInv'
  BY <1>11 DEF MoveObject
<1>12. ASSUME NEW r \in Readers, NEW c \in Tiles, GetNearbyObjects(r, c) PROVE ScanInv'
  <2>1. /\ scan' = [scan EXCEPT ![r] = NearbySectors(c)]
        /\ center' = [center EXCEPT ![r] = c]
        /\ result' = [result EXCEPT ![r] = [o \in Objects |-> 0]]
        /\ steady' = [steady EXCEPT ![r] = {o \in Objects : pc[o] = "idle" /\ pos[o] # NoTile}]
        /\ UNCHANGED <<pos, pc>>
    BY <1>12 DEF GetNearbyObjects, objVars
  <2> SUFFICES ASSUME NEW q \in Readers, NEW o \in steady'[q]
               PROVE  /\ pc[o] = "idle" /\ pos[o] # NoTile /\ center'[q] \in Tiles
                      /\ GetSectorCoord(pos[o]) \in NearbySectors(center'[q]) =>
                            result'[q][o] = IF GetSectorCoord(pos[o]) \in scan'[q] THEN 0 ELSE 1
    BY <2>1
  <2>2. CASE q = r
    BY <2>1, <2>2
  <2>3. CASE q # r
    BY <2>1, <2>3
  <2> QED
    BY <2>2, <2>3
<1>13. ASSUME NEW r \in Readers, ReadSector(r) PROVE ScanInv'
  <2>1. PICK s \in RowMajorFirst(scan[r]) :
          /\ scan' = [scan EXCEPT ![r] = @ \ {s}]
          /\ result' = [result EXCEPT ![r] =
                [o \in Objects |-> IF o \in sectorObjects[s] THEN @[o] + 1 ELSE @[o]]]
    BY <1>13 DEF ReadSector
  <2>2. s \in scan[r] /\ s \in Sectors
    BY <2>1 DEF RowMajorFirst
  <2>3. UNCHANGED <<sectorObjects, pos, pc, center, steady>>
    BY <1>13 DEF ReadSector, objVars
  <2> SUFFICES ASSUME NEW q \in Readers, NEW o \in steady[q],
                      GetSectorCoord(pos[o]) \in NearbySectors(center[q])
               PROVE  result'[q][o] = IF GetSectorCoord(pos[o]) \in scan'[q] THEN 0 ELSE 1
    BY <2>3
  <2>4. o \in Objects /\ pos[o] \in Tiles /\ pc[o] = "idle" /\ pos[o] # NoTile
    OBVIOUS
  <2>5. o \in sectorObjects[s] <=> s = GetSectorCoord(pos[o])
    BY <2>2, <2>4 DEF SectorInv
  <2>6. result[q][o] = IF GetSectorCoord(pos[o]) \in scan[q] THEN 0 ELSE 1
    OBVIOUS
  <2>7. CASE q = r
    <3>1. result'[r][o] = IF o \in sectorObjects[s] THEN result[r][o] + 1 ELSE result[r][o]
      BY <2>1, <2>4
    <3>2. scan'[r] = scan[r] \ {s}
      BY <2>1
    <3> QED
      BY <3>1, <3>2, <2>2, <2>5, <2>6, <2>7
  <2>8. CASE q # r
    BY <2>1, <2>6, <2>8
  <2> QED
    BY <2>7, <2>8
<1>14. ASSUME NEW x \in Careless, NEW t \in Walkable, StrayTile(x, t) PROVE ScanInv'
  BY <1>14 DEF StrayTile, TryClaim, Release, objVars, readVars
<1>15. ASSUME NEW x \in Careless, NEW s \in Sectors, StraySector(x, s) PROVE ScanInv'
  BY <1>15 DEF StraySector, objVars, readVars
<1>16. CASE UNCHANGED vars
  BY <1>16 DEF vars
<1> QED
  BY <1>1, <1>2, <1>3, <1>4, <1>5, <1>6, <1>7, <1>8, <1>9, <1>10, <1>11, <1>12, <1>13, <1>14, <1>15, <1>16 DEF Next, ObjectStep

(* The invariant the theorems below follow from.                           *)
THEOREM Inductive == Spec => []IndInv
<1>1. Init => IndInv
  BY NoTileFact, IdAssumption
     DEF Init, IndInv, TypeOK, Ids, PhaseInv, TileInv, SectorInv, ScanInv
<1>2. IndInv /\ [Next]_vars => IndInv'
  BY TypeStep, PhaseStep, TileStep, SectorStep, ScanStep DEF IndInv
<1> QED
  BY <1>1, <1>2, PTL DEF Spec

(* Every variable keeps its type.                                          *)
THEOREM TypeCorrect == Spec => []TypeOK
<1>1. IndInv => TypeOK
  BY DEF IndInv
<1> QED
  BY Inductive, <1>1, PTL

(* Between operations the tile words, the sector sets and the object's     *)
(* position agree, whatever the other objects are doing.                   *)
THEOREM AtRestAlways == Spec => []AtRest
<1>1. IndInv => AtRest
  BY NoTileFact, SectorFact, WalkableFact
     DEF IndInv, TypeOK, Ids, PhaseInv, TileInv, SectorInv, AtRest, Held, Home
<1> QED
  BY Inductive, <1>1, PTL

(* Two coordinates at most one sector size apart lie in neighbouring       *)
(* sectors: why a 3 x 3 scan is enough for a view that reaches HALF_VIEW.  *)
LEMMA NeighbouringSectors ==
    ASSUME NEW x \in Nat, NEW y \in Nat, Abs(x - y) <= SectorSize
    PROVE  Abs((x \div SectorSize) - (y \div SectorSize)) <= 1
<1> DEFINE p == x \div SectorSize
           q == y \div SectorSize
<1> SectorSize \in Nat /\ SectorSize > 0
  BY MapAssumption
<1>1. p \in Int /\ q \in Int
  OBVIOUS
<1>2. SectorSize * p <= x /\ x < SectorSize * (p + 1)
  OBVIOUS
<1>3. SectorSize * q <= y /\ y < SectorSize * (q + 1)
  OBVIOUS
<1>4. x - y <= SectorSize /\ y - x <= SectorSize
  BY DEF Abs
<1> HIDE DEF p, q
<1>5. ~ p >= q + 2
  BY <1>1, <1>2, <1>3, <1>4
<1>6. ~ q >= p + 2
  BY <1>1, <1>2, <1>3, <1>4
<1>7. Abs(p - q) <= 1
  BY <1>1, <1>5, <1>6 DEF Abs
<1> QED
  BY <1>7 DEF p, q

(* A finished GetNearbyObjects has reported every undisturbed object near  *)
(* the centre exactly once.                                                *)
THEOREM NearbyCompleteAlways == Spec => []NearbyComplete
<1>1. IndInv => NearbyComplete
  <2> SUFFICES ASSUME IndInv, NEW r \in Readers, scan[r] = {}, NEW o \in steady[r],
                      Dist(center[r], pos[o]) <= SectorSize
               PROVE  result[r][o] = 1
    BY DEF NearbyComplete
  <2> DEFINE c == center[r]
             t == pos[o]
  <2>1. o \in Objects /\ c \in Tiles /\ t \in Tiles
    BY NoTileFact, WalkableFact DEF IndInv, ScanInv, TypeOK
  <2>2. /\ c[1] \in Nat /\ c[2] \in Nat /\ t[1] \in Nat /\ t[2] \in Nat
    BY <2>1, MapAssumption DEF Tiles
  <2> SectorSize \in Nat
    BY MapAssumption
  <2>3. Abs(t[1] - c[1]) <= SectorSize /\ Abs(t[2] - c[2]) <= SectorSize
    BY <2>2 DEF Dist, Abs
  <2>4. /\ Abs((t[1] \div SectorSize) - (c[1] \div SectorSize)) <= 1
        /\ Abs((t[2] \div SectorSize) - (c[2] \div SectorSize)) <= 1
    BY <2>2, <2>3, NeighbouringSectors
  <2>5. GetSectorCoord(t) \in NearbySectors(c)
    BY <2>1, <2>4, SectorFact DEF NearbySectors, GetSectorCoord
  <2> QED
    BY <2>5 DEF IndInv, ScanInv
<1> QED
  BY Inductive, <1>1, PTL

(* A free tile word means that nobody stands there, not even half-way      *)
(* through a move.                                                         *)
LEMMA FreeTileVacant ==
    ASSUME IndInv, NEW t \in Walkable, tileToObject[t] = InvalidId
    PROVE  Occ!Vacant(t)
<1> SUFFICES ASSUME NEW o \in Objects, At[o] = t PROVE FALSE
  BY DEF Occ!Vacant
<1>1. tileToObject[t] # o /\ t \in Tiles /\ t # NoTile
  BY IdAssumption, WalkableFact, NoTileFact DEF Ids
<1>2. ~ (t = pos[o] /\ pc[o] \in {"idle", "release"})
  BY <1>1 DEF IndInv, TileInv
<1>3. ~ (t = goal[o] /\ pc[o] \in {"insert", "setPos", "release", "sector"})
  BY <1>1 DEF IndInv, TileInv
<1>4. pc[o] \in {"idle", "claim", "insert", "setPos", "erase", "release", "sector"}
  BY DEF IndInv, TypeOK
<1> QED
  BY <1>1, <1>2, <1>3, <1>4 DEF At

(* The tile words and sector sets implement the abstract map: each step is *)
(* an Enter, a Walk, a Leave or invisible.                                 *)
THEOREM ImplementsOccupancy == Spec => RefinesOccupancy
<1>1. Init => Occ!Init
  BY DEF Init, Occ!Init, At
<1>2. IndInv /\ [Next]_vars => [Occ!Next]_At
  <2> SUFFICES ASSUME IndInv, [Next]_vars PROVE [Occ!Next]_At
    OBVIOUS
  <2> USE NoTileFact, WalkableFact DEF IndInv, TypeOK, Ids, PhaseInv
  <2>1. ASSUME NEW o \in Objects, NEW c \in Tiles, AddObject(o, c) PROVE UNCHANGED At
    BY <2>1 DEF AddObject, At
  <2>2. ASSUME NEW o \in Objects, RemoveObject(o) PROVE Occ!Leave(o)
    BY <2>2 DEF RemoveObject, At, Occ!Leave
  <2>3. ASSUME NEW o \in Objects, NEW t \in Walkable, TryMoveObject(o, t)
        PROVE  Occ!Walk(o, t) /\ At[o] # At'[o]
    <3>1. Occ!Vacant(t)
      BY <2>3, FreeTileVacant DEF TryMoveObject, TryClaim
    <3>2. At[o] # NoTile
      BY <2>3 DEF TryMoveObject, At
    <3>3. At' = [At EXCEPT ![o] = t]
      BY <2>3 DEF TryMoveObject, At
    <3>4. o \in DOMAIN At /\ At[o] # t
      BY <3>1 DEF Occ!Vacant, At
    <3> QED
      BY <3>1, <3>2, <3>3, <3>4 DEF Occ!Walk
  <2>4. ASSUME NEW o \in Objects, ClaimNearby(o)
        PROVE  At[o] # At'[o] /\ \E t \in Walkable : Occ!Enter(o, t)
    <3>1. PICK t \in FirstOf(goal[o], todo[o]) :
             TryClaim(o, t) /\ goal' = [goal EXCEPT ![o] = t]
      BY <2>4 DEF ClaimNearby
    <3>2. t \in Walkable
      BY <3>1 DEF FirstOf
    <3>3. Occ!Vacant(t)
      BY <3>1, <3>2, FreeTileVacant DEF TryClaim
    <3>4. At[o] = NoTile
      BY <2>4 DEF ClaimNearby, At
    <3>5. At' = [At EXCEPT ![o] = t]
      BY <2>4, <3>1, <3>2 DEF ClaimNearby, At
    <3>6. o \in DOMAIN At /\ At[o] # t
      BY <3>3 DEF Occ!Vacant, At
    <3> QED
      BY <3>2, <3>3, <3>4, <3>5, <3>6 DEF Occ!Enter
  <2>5. ASSUME NEW o \in Objects, SkipTaken(o) PROVE UNCHANGED At
    BY <2>5 DEF SkipTaken, At
  <2>6. ASSUME NEW o \in Objects, NoRoom(o) PROVE UNCHANGED At
    BY <2>6 DEF NoRoom, At
  <2>7. ASSUME NEW o \in Objects, InsertIntoSector(o) PROVE UNCHANGED At
    BY <2>7 DEF InsertIntoSector, At
  <2>8. ASSUME NEW o \in Objects, SetPos(o) PROVE UNCHANGED At
    BY <2>8 DEF SetPos, At
  <2>9. ASSUME NEW o \in Objects, EraseFromSector(o) PROVE UNCHANGED At
    BY <2>9 DEF EraseFromSector, At
  <2>10. ASSUME NEW o \in Objects, ReleaseOld(o) PROVE UNCHANGED At
    BY <2>10 DEF ReleaseOld, At
  <2>11. ASSUME NEW o \in Objects, MoveObject(o) PROVE UNCHANGED At
    BY <2>11 DEF MoveObject, At
  <2>12. ASSUME NEW r \in Readers, NEW c \in Tiles, GetNearbyObjects(r, c)
         PROVE  UNCHANGED At
    BY <2>12 DEF GetNearbyObjects, objVars, At
  <2>13. ASSUME NEW r \in Readers, ReadSector(r) PROVE UNCHANGED At
    BY <2>13 DEF ReadSector, objVars, At
  <2>14. ASSUME NEW x \in Careless, NEW t \in Walkable, StrayTile(x, t) PROVE UNCHANGED At
    BY <2>14 DEF StrayTile, TryClaim, Release, objVars, readVars, At
  <2>15. ASSUME NEW x \in Careless, NEW s \in Sectors, StraySector(x, s) PROVE UNCHANGED At
    BY <2>15 DEF StraySector, objVars, readVars, At
  <2>16. CASE UNCHANGED vars
    BY <2>16 DEF vars, At
  <2> QED
    BY <2>1, <2>2, <2>3, <2>4, <2>5, <2>6, <2>7, <2>8, <2>9, <2>10, <2>11, <2>12,
       <2>13, <2>14, <2>15, <2>16 DEF Next, ObjectStep, Occ!Next
<1> QED
  BY Inductive, <1>1, <1>2, PTL DEF Spec, RefinesOccupancy, Occ!Spec
=============================================================================
