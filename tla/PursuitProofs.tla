---------------------------- MODULE PursuitProofs ----------------------------
(***************************************************************************)
(* Theorems about Pathfinder, which Pursuit extends, for any map, any      *)
(* walls and any limit of expanded tiles, and about Pursuit for any ranges *)
(* and any number of players as well.                                      *)
(***************************************************************************)
EXTENDS Pursuit, FiniteSetTheorems, WellFoundedInduction, TLAPS

-----------------------------------------------------------------------------
(* Pathfinder *)

\* A node's parent has been closed and is next to it, unless it is the start.
ParentOf(p, t) == t = start \/ (p \in DOMAIN node /\ Adjacent(p, t))

\* What has been walked back through so far leads on from a to the goal.
LeadsFrom(a) ==
    IF path = <<>> THEN a = goal ELSE IsWalk(a, path) /\ path[Len(path)] = goal

PathInv ==
    /\ PathTypeOK
    /\ \A n \in open : ParentOf(n.parent, n.at)
    /\ \A t \in DOMAIN node : ParentOf(node[t].parent, t)
    /\ search \in {"idle", "loop"} => path = <<>>
    /\ search = "loop" => back = goal
    /\ search = "back" => back \in DOMAIN node /\ LeadsFrom(back)
    /\ Found => LeadsFrom(start)

(* TraceBack puts the tile it stands on before the path.                   *)
LEMMA WalkGrows ==
  ASSUME NEW a \in Tiles, NEW b \in Walkable, NEW p \in Seq(Walkable),
         Adjacent(a, b), p = <<>> \/ IsWalk(b, p)
  PROVE  /\ <<b>> \o p \in Seq(Walkable) /\ <<b>> \o p # <<>>
         /\ IsWalk(a, <<b>> \o p)
         /\ (<<b>> \o p)[Len(<<b>> \o p)] = IF p = <<>> THEN b ELSE p[Len(p)]
<1> DEFINE q == <<b>> \o p
<1>1. /\ q \in Seq(Walkable) /\ Len(q) = Len(p) + 1 /\ Len(p) \in Nat
      /\ q[1] = b /\ \A i \in 1 .. Len(p) : q[i + 1] = p[i]
  OBVIOUS
<1> HIDE DEF q
<1>2. IsWalk(a, q)
  <2> SUFFICES ASSUME NEW i \in 1 .. Len(q) - 1 PROVE Adjacent(q[i], q[i + 1])
    BY <1>1 DEF IsWalk
  <2>1. p # <<>> /\ i \in 1 .. Len(p) /\ q[i + 1] = p[i]
    BY <1>1
  <2>2. CASE i = 1
    BY <1>1, <2>1, <2>2 DEF IsWalk
  <2>3. CASE i # 1
    <3>1. i - 1 \in 1 .. Len(p) - 1 /\ q[(i - 1) + 1] = p[i - 1] /\ (i - 1) + 1 = i
      BY <1>1, <2>1, <2>3
    <3>2. QED BY <2>1, <3>1 DEF IsWalk
  <2>4. QED BY <2>2, <2>3
<1>3. q # <<>> /\ q[Len(q)] = IF p = <<>> THEN b ELSE p[Len(p)]
  BY <1>1
<1>4. QED BY <1>1, <1>2, <1>3 DEF q

(* An expanded tile is closed, and what it queues is next to it.           *)
LEMMA CloseKeeps ==
  ASSUME PathInv, NEW n \in open, Close(n), n.at \notin DOMAIN node, start' = start
  PROVE  /\ n.at \in Walkable /\ DOMAIN node' = DOMAIN node \cup {n.at}
         /\ DOMAIN node' \subseteq Walkable
         /\ \A t \in DOMAIN node' : node'[t] \in [g : Nat, parent : Walkable]
         /\ \A t \in DOMAIN node' : ParentOf(node[t].parent, t)'
         /\ \A m \in open : ParentOf(m.parent, m.at)'
<1>1. n \in Nodes /\ n.at \in Walkable /\ n.g \in Nat /\ n.parent \in Walkable
  BY DEF PathInv, PathTypeOK, Nodes
<1>2. /\ DOMAIN node' = DOMAIN node \cup {n.at}
      /\ node'[n.at] = [g |-> n.g, parent |-> n.parent]
      /\ \A t \in DOMAIN node : node'[t] = node[t]
  BY DEF Close
<1>3. \A t \in DOMAIN node' : node'[t] \in [g : Nat, parent : Walkable]
  BY <1>1, <1>2 DEF PathInv, PathTypeOK
<1>4. ASSUME NEW t \in DOMAIN node' PROVE ParentOf(node[t].parent, t)'
  <2>1. CASE t = n.at
    BY <1>2, <2>1 DEF PathInv, ParentOf
  <2>2. CASE t # n.at
    BY <1>2, <2>2 DEF PathInv, ParentOf
  <2>3. QED BY <2>1, <2>2
<1>5. \A m \in open : ParentOf(m.parent, m.at)'
  BY <1>2 DEF PathInv, ParentOf
<1>6. QED BY <1>1, <1>2, <1>3, <1>4, <1>5 DEF PathInv, PathTypeOK

LEMMA PathInvInit == PathInit => PathInv
BY PathAssumption DEF PathInit, PathInv, PathTypeOK, Found, None, Walkable

LEMMA CallKeeps ==
  ASSUME PathInv, NEW from \in Walkable, NEW to \in Tiles, FindPath(from, to)
  PROVE  PathInv'
<1> DEFINE first == [at |-> from, g |-> 0, parent |-> from]
<1>1. /\ start' = from /\ goal' = to /\ back' = to
      /\ node' = None /\ processed' = 0 /\ path' = <<>>
      /\ search' \in {"loop", "done"} /\ open' \subseteq {first}
  BY DEF FindPath
<1>2. first \in Nodes /\ first.at = from
  BY DEF Nodes
<1> HIDE DEF first
<1>3. PathTypeOK'
  BY <1>1, <1>2, PathAssumption DEF PathTypeOK, None
<1>4. \A n \in open' : ParentOf(n.parent, n.at)'
  BY <1>1, <1>2 DEF ParentOf
<1>5. QED BY <1>1, <1>3, <1>4 DEF PathInv, Found, None

LEMMA ForgetKeeps == PathInv /\ Forget => PathInv'
BY PathAssumption DEF PathInv, Forget, PathTypeOK, Found, None, Walkable

(* Every turn of the loop, and every step back, keeps the invariant.       *)
LEMMA StepKeeps == PathInv /\ PathStep => PathInv'
<1> SUFFICES ASSUME PathInv, PathStep PROVE PathInv'
  OBVIOUS
<1> USE PathAssumption
<1>1. ASSUME NEW n \in open, Skip(n) PROVE PathInv'
  BY <1>1 DEF Skip, Turn, PathInv, PathTypeOK, Found, LeadsFrom, ParentOf
<1>2. ASSUME NEW n \in open, Expand(n) PROVE PathInv'
  <2>1. /\ search = "loop" /\ processed < MaxNodes /\ processed' = processed + 1
        /\ UNCHANGED <<search, start, goal, back, path>>
        /\ Close(n) /\ n.at \notin DOMAIN node
    BY <1>2 DEF Expand, Turn
  <2>2. ASSUME NEW m \in open' PROVE m \in Nodes /\ ParentOf(m.parent, m.at)'
    <3>1. CASE m \in open
      BY <2>1, <3>1, CloseKeeps DEF PathInv, PathTypeOK
    <3>2. CASE m \notin open
      <4>1. PICK u \in Around(n.at) : m = [at |-> u, g |-> n.g + 1, parent |-> n.at]
        BY <1>2, <2>2, <3>2 DEF Expand, QueueNeighbours
      <4>2. u \in Walkable /\ Adjacent(n.at, u)
        BY <4>1 DEF Around
      <4>3. n.g \in Nat /\ n.at \in Walkable /\ n.at \in DOMAIN node'
        BY <2>1, CloseKeeps DEF PathInv, PathTypeOK, Nodes
      <4>4. QED BY <4>1, <4>2, <4>3 DEF Nodes, ParentOf
    <3>3. QED BY <3>1, <3>2
  <2>3. processed' \in 0 .. MaxNodes
    BY <2>1 DEF PathInv, PathTypeOK
  <2>4. PathTypeOK'
    BY <2>1, <2>2, <2>3, CloseKeeps DEF PathInv, PathTypeOK
  <2>5. QED BY <2>1, <2>2, <2>4, CloseKeeps DEF PathInv, Found
<1>3. ASSUME NEW n \in open, Reach(n) PROVE PathInv'
  <2>1. /\ search = "loop" /\ search' = "back" /\ open' = open \ {n}
        /\ UNCHANGED <<start, goal, processed, back, path>>
        /\ Close(n) /\ n.at \notin DOMAIN node /\ n.at = goal
    BY <1>3 DEF Reach, Turn
  <2>2. PathTypeOK'
    BY <2>1, CloseKeeps DEF PathInv, PathTypeOK
  <2>3. back = goal
    BY <2>1 DEF PathInv
  <2>4. QED BY <2>1, <2>2, <2>3, CloseKeeps DEF PathInv, Found, LeadsFrom
<1>4. CASE GiveUp
  BY <1>4 DEF GiveUp, PathInv, PathTypeOK, Found, LeadsFrom, ParentOf
<1>5. CASE TraceBack
  <2>1. /\ back \in DOMAIN node /\ back \in Walkable /\ LeadsFrom(back)
        /\ UNCHANGED <<start, goal, open, node, processed>>
    BY <1>5 DEF TraceBack, PathInv, PathTypeOK
  <2>2. CASE back = start
    BY <1>5, <2>1, <2>2 DEF TraceBack, PathInv, PathTypeOK, Found, LeadsFrom, ParentOf
  <2>3. CASE back # start
    <3>1. /\ path' = <<back>> \o path /\ back' = node[back].parent /\ search' = "back"
          /\ back' \in DOMAIN node /\ back' \in Tiles /\ Adjacent(back', back)
      BY <1>5, <2>1, <2>3 DEF TraceBack, PathInv, PathTypeOK, ParentOf, Walkable
    <3>2. path \in Seq(Walkable) /\ (path = <<>> \/ IsWalk(back, path))
      BY <2>1 DEF PathInv, PathTypeOK, LeadsFrom
    <3>3. /\ path' \in Seq(Walkable) /\ path' # <<>> /\ IsWalk(back', path')
          /\ path'[Len(path')] = IF path = <<>> THEN back ELSE path[Len(path)]
      BY <2>1, <3>1, <3>2, WalkGrows
    <3>4. LeadsFrom(back)'
      BY <2>1, <3>3 DEF LeadsFrom, IsWalk
    <3>5. QED BY <2>1, <3>1, <3>3, <3>4 DEF PathInv, PathTypeOK, Found, ParentOf
  <2>4. QED BY <2>2, <2>3
<1>6. QED BY <1>1, <1>2, <1>3, <1>4, <1>5 DEF PathStep

LEMMA PathInvAlways == PathSpec => []PathInv
<1>1. PathInv /\ [PathNext]_pathVars => PathInv'
  <2>1. PathInv /\ UNCHANGED pathVars => PathInv'
    BY DEF pathVars, PathInv, PathTypeOK, Found, LeadsFrom, ParentOf
  <2>2. QED BY <2>1, CallKeeps, ForgetKeeps, StepKeeps DEF PathNext
<1>2. QED BY PathInvInit, <1>1, PTL DEF PathSpec

LEMMA PathInvIsWalk == PathInv => PathIsWalk
BY DEF PathInv, PathIsWalk, Found, LeadsFrom, PathTypeOK

(* FindPath looks at tiles of the map only: closes and queues none that    *)
(* cannot be walked on, and expands at most maxNodes.                      *)
THEOREM PathTypeCorrect == PathSpec => []PathTypeOK
BY PathInvAlways, PTL DEF PathInv

(* What FindPath returns is a walk on walkable tiles from the start to the *)
(* goal, whichever of equal nodes the heap returns first.                  *)
THEOREM PathIsWalkAlways == PathSpec => []PathIsWalk
BY PathInvAlways, PathInvIsWalk, PTL


-----------------------------------------------------------------------------
(* FindPath's path is a shortest one: A* over a consistent distance.       *)

\* t is g steps from the start and not fewer.
Optimal(t, g) ==
    /\ t \in Within(start)[g]
    /\ \A k \in Nat : t \in Within(start)[k] => g <= k

\* What is closed is at its distance; a parent is one step nearer; what is
\* queued can be reached so.
CostInv ==
    /\ \A t \in DOMAIN node : Optimal(t, node[t].g)
    /\ \A t \in DOMAIN node :
          t # start => node[t].parent \in DOMAIN node /\ node[t].g = node[node[t].parent].g + 1
    /\ \A n \in open : n.at \in Within(start)[n.g]
    /\ \A n \in open :
          n.at # start => n.parent \in DOMAIN node /\ n.g = node[n.parent].g + 1

\* Until the goal is closed, the queue cuts it off from what is closed.
FrontierInv ==
    search = "loop" =>
        /\ goal \in Walkable /\ goal # start /\ goal \notin DOMAIN node
        /\ start \in DOMAIN node \/ \E m \in open : m.at = start /\ m.g = 0
        /\ \A s \in DOMAIN node : \A u \in Around(s) :
              u \in DOMAIN node \/ \E m \in open : m.at = u /\ m.g <= node[s].g + 1

\* The way back has one tile for each step.
BackInv ==
    search = "back" =>
        /\ goal # start /\ goal \in DOMAIN node /\ back \in DOMAIN node
        /\ node[back].g + Len(path) = node[goal].g

ResultInv ==
    search = "done" =>
        IF path # <<>>
        THEN goal # start /\ Optimal(goal, Len(path))
        ELSE \/ goal \notin Walkable \/ goal = start
             \/ \A k \in Nat : goal \notin Within(start)[k]
             \/ processed = MaxNodes

BestInv == CostInv /\ FrontierInv /\ BackInv /\ ResultInv

LEMMA SetInduction ==
  ASSUME NEW S, 0 \in S, \A n \in Nat : n \in S => n + 1 \in S
  PROVE  Nat \subseteq S
<1> DEFINE R == OpToRel(<, Nat)
           T == Nat \ S
<1>1. IsWellFoundedOn(R, Nat)
  BY NatLessThanWellFounded, Zenon
<1>2. ASSUME NEW x \in Nat, NEW y \in Nat, y < x PROVE <<y, x>> \in R
  BY <1>2 DEF OpToRel
<1>3. SUFFICES ASSUME T # {} PROVE FALSE
  OBVIOUS
<1>4. T \subseteq Nat
  OBVIOUS
<1> HIDE DEF R
<1>5. PICK x \in T : \A y \in T : ~(<<y, x>> \in R)
  <2> HIDE DEF T
  <2> QED BY ONLY <1>1, <1>3, <1>4, WFMin
<1>6. x # 0 /\ x - 1 \in Nat /\ x - 1 < x
  OBVIOUS
<1>7. x - 1 \in T
  BY <1>6
<1>8. QED BY <1>2, <1>5, <1>6, <1>7

\* The walks from a of n steps, some of which may stay where they are, and
\* where they end.
Walks(a, n) ==
    {w \in [0 .. n -> Tiles \cup {a}] :
        w[0] = a /\ \A i \in 0 .. n - 1 : w[i + 1] = w[i] \/ w[i + 1] \in Around(w[i])}
WalkEnds(a, n) == {w[n] : w \in Walks(a, n)}

Beyond(V) == V \cup UNION {Around(t) : t \in V}

LEMMA WalkEndsStep ==
  ASSUME NEW a
  PROVE  /\ WalkEnds(a, 0) = {a}
         /\ \A n \in Nat : WalkEnds(a, n + 1) = Beyond(WalkEnds(a, n))
<1>1. WalkEnds(a, 0) = {a}
  <2> DEFINE w == [i \in 0 .. 0 |-> a]
  <2>1. w \in Walks(a, 0) /\ w[0] = a
    BY DEF Walks
  <2> HIDE DEF w
  <2>2. \A v \in Walks(a, 0) : v[0] = a
    BY DEF Walks
  <2>3. QED BY <2>1, <2>2 DEF WalkEnds
<1>2. ASSUME NEW n \in Nat, NEW t \in WalkEnds(a, n + 1) PROVE t \in Beyond(WalkEnds(a, n))
  <2>1. PICK w \in Walks(a, n + 1) : t = w[n + 1]
    BY <1>2 DEF WalkEnds
  <2> DEFINE v == [i \in 0 .. n |-> w[i]]
  <2>2. v \in Walks(a, n)
    BY <2>1 DEF Walks
  <2>3. v[n] = w[n] /\ (w[n + 1] = w[n] \/ w[n + 1] \in Around(w[n]))
    BY <2>1 DEF Walks
  <2> HIDE DEF v
  <2>4. v[n] \in WalkEnds(a, n)
    BY <2>2 DEF WalkEnds
  <2>5. QED BY <2>1, <2>3, <2>4 DEF Beyond
<1>3. ASSUME NEW n \in Nat, NEW t \in Beyond(WalkEnds(a, n)) PROVE t \in WalkEnds(a, n + 1)
  <2>1. PICK s \in WalkEnds(a, n) : t = s \/ t \in Around(s)
    BY <1>3 DEF Beyond
  <2>2. PICK w \in Walks(a, n) : s = w[n]
    BY <2>1 DEF WalkEnds
  <2> DEFINE v == [i \in 0 .. n + 1 |-> IF i = n + 1 THEN t ELSE w[i]]
  <2>3. s \in Tiles \cup {a} /\ t \in Tiles \cup {a}
    BY <2>1, <2>2 DEF Walks, Around, Walkable
  <2>4. v \in [0 .. n + 1 -> Tiles \cup {a}] /\ v[0] = a
    BY <2>2, <2>3 DEF Walks
  <2>5. ASSUME NEW i \in 0 .. n PROVE v[i + 1] = v[i] \/ v[i + 1] \in Around(v[i])
    <3>1. CASE i = n
      BY <2>1, <2>2, <3>1
    <3>2. CASE i # n
      <4>1. i \in 0 .. n - 1 /\ i + 1 \in 0 .. n /\ i + 1 # n + 1 /\ i # n + 1
        BY <3>2
      <4>2. v[i + 1] = w[i + 1] /\ v[i] = w[i]
        BY <4>1
      <4>3. QED BY <2>2, <4>1, <4>2 DEF Walks
    <3>3. QED BY <3>1, <3>2
  <2>6. v[n + 1] = t
    OBVIOUS
  <2> HIDE DEF v
  <2>7. v \in Walks(a, n + 1)
    BY <2>4, <2>5 DEF Walks
  <2>8. QED BY <2>6, <2>7 DEF WalkEnds
<1>4. QED BY <1>1, <1>2, <1>3

LEMMA WithinStep ==
  ASSUME NEW a
  PROVE  /\ Within(a)[0] = {a}
         /\ \A n \in Nat : Within(a)[n + 1] = Beyond(Within(a)[n])
<1> DEFINE E(f) == f = [n \in Nat |-> IF n = 0 THEN {a} ELSE
                           f[n - 1] \cup UNION {Around(t) : t \in f[n - 1]}]
           g == [n \in Nat |-> WalkEnds(a, n)]
<1>1. E(g)
  <2>1. ASSUME NEW n \in Nat
        PROVE  WalkEnds(a, n) = IF n = 0 THEN {a} ELSE
                  WalkEnds(a, n - 1) \cup UNION {Around(t) : t \in WalkEnds(a, n - 1)}
    <3>1. CASE n = 0
      BY <3>1, WalkEndsStep
    <3>2. CASE n # 0
      <4>1. n - 1 \in Nat /\ (n - 1) + 1 = n
        BY <3>2
      <4>2. WalkEnds(a, (n - 1) + 1) = Beyond(WalkEnds(a, n - 1))
        BY <4>1, WalkEndsStep
      <4>3. QED BY <3>2, <4>1, <4>2 DEF Beyond
    <3>3. QED BY <3>1, <3>2
  <2>2. \A n \in Nat : n # 0 => n - 1 \in Nat /\ g[n - 1] = WalkEnds(a, n - 1)
    OBVIOUS
  <2>3. QED BY <2>1, <2>2
<1>2. E(Within(a))
  <2>1. \E f : E(f)
    BY <1>1
  <2>2. QED BY <2>1 DEF Within
<1> HIDE DEF g
<1>3. Within(a)[0] = {a}
  BY <1>2
<1>4. ASSUME NEW n \in Nat PROVE Within(a)[n + 1] = Beyond(Within(a)[n])
  <2>1. n + 1 \in Nat /\ n + 1 # 0 /\ (n + 1) - 1 = n
    OBVIOUS
  <2>2. QED BY <1>2, <2>1 DEF Beyond
<1>5. QED BY <1>3, <1>4

LEMMA WithinGrows ==
  ASSUME NEW a \in Walkable, NEW k \in Nat
  PROVE  /\ Within(a)[k] \subseteq Walkable
         /\ Within(a)[k] \subseteq Within(a)[k + 1]
         /\ \A t \in Within(a)[k] : Around(t) \subseteq Within(a)[k + 1]
<1> DEFINE S == {n \in Nat : Within(a)[n] \subseteq Walkable}
<1>1. 0 \in S
  BY WithinStep
<1>2. ASSUME NEW n \in Nat, n \in S PROVE n + 1 \in S
  BY <1>2, WithinStep DEF Beyond, Around
<1>3. Nat \subseteq S
  <2> HIDE DEF S
  <2> QED BY <1>1, <1>2, SetInduction
<1>4. QED BY <1>3, WithinStep DEF Beyond

(* The Manhattan distance is consistent: one step changes it by one.       *)
LEMMA Consistent ==
  ASSUME NEW s \in Tiles, NEW t \in Tiles, NEW u \in Tiles, Adjacent(s, t)
  PROVE  /\ Manhattan(s, u) \in Nat /\ Manhattan(t, u) \in Nat
         /\ Manhattan(s, u) <= 1 + Manhattan(t, u)
<1>1. /\ s[1] \in Int /\ s[2] \in Int /\ t[1] \in Int /\ t[2] \in Int
      /\ u[1] \in Int /\ u[2] \in Int
  BY PathAssumption DEF Tiles
<1>2. QED BY <1>1 DEF Adjacent, Manhattan, Abs

LEMMA Distance ==
  ASSUME NEW s \in Tiles, NEW u \in Tiles
  PROVE  Manhattan(s, u) \in Nat
<1>1. s[1] \in Int /\ s[2] \in Int /\ u[1] \in Int /\ u[2] \in Int
  BY PathAssumption DEF Tiles
<1>2. QED BY <1>1 DEF Manhattan, Abs

(* A tile within k steps is closed, or the queue has a node on a walk to   *)
(* it whose f is not above that walk's.                                    *)
LEMMA Frontier ==
  ASSUME PathInv, CostInv, FrontierInv, search = "loop"
  PROVE  \A k \in Nat : \A t \in Within(start)[k] :
            t \in DOMAIN node \/ \E m \in open : F(m) <= k + Manhattan(t, goal)
<1> DEFINE S == {k \in Nat : \A t \in Within(start)[k] :
                   t \in DOMAIN node \/ \E m \in open : F(m) <= k + Manhattan(t, goal)}
<1>1. start \in Walkable /\ start \in Tiles /\ goal \in Tiles
      /\ \A m \in open : m.at \in Tiles /\ m.g \in Nat /\ F(m) \in Nat
  <2>1. start \in Walkable /\ goal \in Tiles /\ \A m \in open : m.at \in Walkable /\ m.g \in Nat
    BY DEF PathInv, PathTypeOK, Nodes
  <2>2. ASSUME NEW m \in open PROVE m.at \in Tiles /\ m.g \in Nat /\ F(m) \in Nat
    BY <2>1, Distance DEF F, Walkable
  <2>3. QED BY <2>1, <2>2 DEF Walkable
<1>2. 0 \in S
  <2>1. CASE start \in DOMAIN node
    BY <1>1, <2>1, WithinStep
  <2>2. CASE start \notin DOMAIN node
    <3>1. PICK m \in open : m.at = start /\ m.g = 0
      BY <2>2 DEF FrontierInv
    <3>2. F(m) <= 0 + Manhattan(start, goal)
      BY <1>1, <3>1, Distance DEF F
    <3>3. QED BY <3>2, WithinStep
  <2>3. QED BY <2>1, <2>2
<1>3. ASSUME NEW k \in Nat, k \in S PROVE k + 1 \in S
  <2>1. ASSUME NEW t \in Within(start)[k + 1], t \notin DOMAIN node
        PROVE  \E m \in open : F(m) <= (k + 1) + Manhattan(t, goal)
    <3>1. PICK s \in Within(start)[k] : t = s \/ t \in Around(s)
      BY <2>1, WithinStep DEF Beyond
    <3>2. s \in Tiles /\ t \in Tiles
      BY <1>1, <3>1, WithinGrows DEF Around, Walkable
    <3>3. Manhattan(s, goal) \in Nat /\ Manhattan(t, goal) \in Nat
          /\ Manhattan(s, goal) <= 1 + Manhattan(t, goal)
      <4>1. CASE t = s
        BY <1>1, <3>2, <4>1, Distance
      <4>2. CASE t \in Around(s)
        BY <1>1, <3>2, <4>2, Consistent DEF Around
      <4>3. QED BY <3>1, <4>1, <4>2
    <3>4. CASE s \in DOMAIN node
      <4>1. node[s].g \in Nat /\ node[s].g <= k
        BY <3>1, <3>4 DEF CostInv, Optimal, PathInv, PathTypeOK
      <4>2. t \in Around(s)
        BY <2>1, <3>1, <3>4
      <4>3. PICK m \in open : m.at = t /\ m.g <= node[s].g + 1
        BY <2>1, <3>4, <4>2 DEF FrontierInv
      <4>4. F(m) <= (k + 1) + Manhattan(t, goal)
        BY <1>1, <3>3, <4>1, <4>3 DEF F
      <4>5. QED BY <4>4
    <3>5. CASE s \notin DOMAIN node
      <4>1. PICK m \in open : F(m) <= k + Manhattan(s, goal)
        BY <1>3, <3>1, <3>5
      <4>2. F(m) <= (k + 1) + Manhattan(t, goal)
        BY <1>1, <3>3, <4>1
      <4>3. QED BY <4>2
    <3>6. QED BY <3>4, <3>5
  <2>2. QED BY <2>1
<1>4. Nat \subseteq S
  <2> HIDE DEF S
  <2> QED BY <1>2, <1>3, SetInduction
<1>5. QED BY <1>4

(* What the heap returns first is at its distance when it is new.          *)
LEMMA TopIsOptimal ==
  ASSUME PathInv, CostInv, FrontierInv, NEW n \in open, Turn(n), n.at \notin DOMAIN node
  PROVE  Optimal(n.at, n.g)
<1>1. search = "loop" /\ n.at \in Tiles /\ goal \in Tiles
      /\ \A m \in open : m.at \in Tiles /\ m.g \in Nat
  BY DEF Turn, PathInv, PathTypeOK, Nodes, Walkable
<1>2. n.at \in Within(start)[n.g]
  BY DEF CostInv
<1>3. ASSUME NEW k \in Nat, n.at \in Within(start)[k] PROVE n.g <= k
  <2>1. PICK m \in open : F(m) <= k + Manhattan(n.at, goal)
    BY <1>1, <1>3, Frontier
  <2>2. F(n) <= F(m) /\ F(m) \in Nat /\ F(n) = n.g + Manhattan(n.at, goal)
        /\ Manhattan(n.at, goal) \in Nat /\ n.g \in Nat
    <3>1. F(n) \in Nat /\ F(m) \in Nat /\ Manhattan(n.at, goal) \in Nat
      BY <1>1, Distance DEF F
    <3>2. F(n) < F(m) \/ F(n) = F(m)
      BY DEF Turn, Top
    <3>3. QED BY <1>1, <3>1, <3>2 DEF F
  <2>3. QED BY <2>1, <2>2
<1>4. QED BY <1>2, <1>3 DEF Optimal

LEMMA BestCall ==
  ASSUME PathInv, NEW from \in Walkable, NEW to \in Tiles, FindPath(from, to)
  PROVE  BestInv'
<1> DEFINE first == [at |-> from, g |-> 0, parent |-> from]
<1>1. /\ start' = from /\ goal' = to /\ node' = None /\ path' = <<>>
      /\ \/ search' = "done" /\ open' = {} /\ (to \notin Walkable \/ to = from)
         \/ search' = "loop" /\ open' = {first} /\ to \in Walkable /\ to # from
  BY DEF FindPath
<1>2. first.at = from /\ first.g = 0 /\ from \in Within(from)[0] /\ DOMAIN None = {}
  BY WithinStep DEF None
<1> HIDE DEF first
<1>3. CostInv'
  BY <1>1, <1>2 DEF CostInv
<1>4. FrontierInv'
  BY <1>1, <1>2 DEF FrontierInv
<1>5. BackInv' /\ ResultInv'
  BY <1>1 DEF BackInv, ResultInv
<1>6. QED BY <1>3, <1>4, <1>5 DEF BestInv

LEMMA BestForget == Forget => BestInv'
<1>1. DOMAIN None = {}
  BY DEF None
<1>2. QED BY <1>1 DEF Forget, BestInv, CostInv, FrontierInv, BackInv, ResultInv

LEMMA BestInit == PathInit => BestInv
<1>1. DOMAIN None = {}
  BY DEF None
<1>2. QED BY <1>1 DEF PathInit, BestInv, CostInv, FrontierInv, BackInv, ResultInv

(* Closing the top of the heap.                                            *)
LEMMA BestClose ==
  ASSUME PathInv, BestInv, NEW n \in open, Turn(n), n.at \notin DOMAIN node, Close(n),
         start' = start
  PROVE  /\ DOMAIN node' = DOMAIN node \cup {n.at}
         /\ node'[n.at].g = n.g /\ \A t \in DOMAIN node : node'[t] = node[t]
         /\ \A t \in DOMAIN node' : Optimal(t, node[t].g)'
         /\ \A t \in DOMAIN node' : t # start =>
               node'[t].parent \in DOMAIN node' /\ node'[t].g = node'[node'[t].parent].g + 1
         /\ \A m \in open : m.at # start =>
               m.parent \in DOMAIN node' /\ m.g = node'[m.parent].g + 1
<1>1. /\ DOMAIN node' = DOMAIN node \cup {n.at}
      /\ node'[n.at] = [g |-> n.g, parent |-> n.parent]
      /\ \A t \in DOMAIN node : node'[t] = node[t]
  BY DEF Close
<1>2. Optimal(n.at, n.g)
  BY TopIsOptimal DEF BestInv
<1>3. ASSUME NEW t \in DOMAIN node' PROVE Optimal(t, node[t].g)'
  <2>1. t = n.at \/ t \in DOMAIN node
    BY <1>1
  <2>2. CASE t = n.at
    BY <1>1, <1>2, <2>2 DEF Optimal
  <2>3. CASE t \in DOMAIN node
    BY <1>1, <2>3 DEF BestInv, CostInv, Optimal
  <2>4. QED BY <2>1, <2>2, <2>3
<1>4. ASSUME NEW m \in open, m.at # start
      PROVE  m.parent \in DOMAIN node' /\ m.g = node'[m.parent].g + 1
  BY <1>1, <1>4 DEF BestInv, CostInv
<1>5. ASSUME NEW t \in DOMAIN node', t # start
      PROVE  node'[t].parent \in DOMAIN node' /\ node'[t].g = node'[node'[t].parent].g + 1
  <2>1. CASE t = n.at
    BY <1>1, <1>4, <1>5, <2>1
  <2>2. CASE t \in DOMAIN node
    BY <1>1, <1>5, <2>2 DEF BestInv, CostInv
  <2>3. QED BY <1>1, <2>1, <2>2
<1>6. QED BY <1>1, <1>3, <1>4, <1>5

LEMMA BestStep == PathInv /\ BestInv /\ PathStep => BestInv'
<1> SUFFICES ASSUME PathInv, BestInv, PathStep PROVE BestInv'
  OBVIOUS
<1>0. ASSUME NEW n \in open PROVE n.at \in Walkable /\ n.g \in Nat
  BY DEF PathInv, PathTypeOK, Nodes
<1>1. start \in Walkable /\ Within(start)[0] = {start} /\ processed \in 0 .. MaxNodes
      /\ MaxNodes \in Nat
      /\ \A t \in DOMAIN node : node[t].g \in Nat
  BY WithinStep, PathAssumption DEF PathInv, PathTypeOK
<1>2. ASSUME NEW n \in open, Skip(n) PROVE BestInv'
  <2>1. /\ search = "loop" /\ search' = "loop" /\ n.at \in DOMAIN node /\ open' = open \ {n}
        /\ UNCHANGED <<start, goal, node, path>>
    BY <1>2 DEF Skip, Turn
  <2>2. CostInv'
    BY <2>1 DEF BestInv, CostInv, Optimal
  <2>3. FrontierInv'
    BY <2>1 DEF BestInv, FrontierInv
  <2>4. QED BY <2>1, <2>2, <2>3 DEF BestInv, BackInv, ResultInv
<1>3. ASSUME NEW n \in open, Expand(n) PROVE BestInv'
  <2>1. /\ search = "loop" /\ search' = "loop" /\ n.at \notin DOMAIN node /\ n.at # goal
        /\ Turn(n) /\ Close(n) /\ open' = QueueNeighbours(n)
        /\ start' = start /\ goal' = goal
    BY <1>3 DEF Expand, Turn
  <2>2. /\ DOMAIN node' = DOMAIN node \cup {n.at}
        /\ node'[n.at].g = n.g /\ \A t \in DOMAIN node : node'[t] = node[t]
        /\ \A t \in DOMAIN node' : Optimal(t, node[t].g)'
        /\ \A t \in DOMAIN node' : t # start =>
              node'[t].parent \in DOMAIN node' /\ node'[t].g = node'[node'[t].parent].g + 1
        /\ \A m \in open : m.at # start =>
              m.parent \in DOMAIN node' /\ m.g = node'[m.parent].g + 1
    BY <2>1, BestClose
  <2>3. ASSUME NEW m \in open', m \notin open
        PROVE  /\ m.at \in Around(n.at) /\ m.g = n.g + 1 /\ m.parent = n.at
    BY <2>1, <2>3 DEF QueueNeighbours
  <2>4. ASSUME NEW u \in Around(n.at), u \notin DOMAIN node'
        PROVE  \E m \in open' : m.at = u /\ m.g = n.g + 1
    <3> DEFINE m == [at |-> u, g |-> n.g + 1, parent |-> n.at]
    <3>1. m \in open' /\ m.at = u /\ m.g = n.g + 1
      BY <2>1, <2>2, <2>4 DEF QueueNeighbours
    <3>2. QED BY <3>1
  <2>5. \A m \in open : m = n \/ m \in open'
    BY <2>1 DEF QueueNeighbours
  <2>6. CostInv'
    <3>1. ASSUME NEW m \in open' PROVE m.at \in Within(start)[m.g]
      <4>1. CASE m \in open
        BY <4>1 DEF BestInv, CostInv
      <4>2. CASE m \notin open
        <5>1. n.at \in Within(start)[n.g]
          BY DEF BestInv, CostInv
        <5>2. n.g \in Nat
          BY <1>0
        <5>3. Around(n.at) \subseteq Within(start)[n.g + 1]
          BY <1>1, <5>1, <5>2, WithinGrows
        <5>4. QED BY <2>3, <4>2, <5>3
      <4>3. QED BY <4>1, <4>2
    <3>2. ASSUME NEW m \in open', m.at # start
          PROVE  m.parent \in DOMAIN node' /\ m.g = node'[m.parent].g + 1
      <4>1. CASE m \in open
        BY <2>2, <3>2, <4>1
      <4>2. CASE m \notin open
        BY <2>2, <2>3, <4>2
      <4>3. QED BY <4>1, <4>2
    <3>3. QED BY <2>1, <2>2, <3>1, <3>2 DEF CostInv
  <2>7. FrontierInv'
    <3>1. goal \in Walkable /\ goal # start /\ goal \notin DOMAIN node'
      BY <2>1, <2>2 DEF BestInv, FrontierInv
    <3>2. start \in DOMAIN node' \/ \E m \in open' : m.at = start /\ m.g = 0
      BY <2>1, <2>2, <2>5 DEF BestInv, FrontierInv
    <3>3. ASSUME NEW s \in DOMAIN node', NEW u \in Around(s), u \notin DOMAIN node'
          PROVE  \E m \in open' : m.at = u /\ m.g <= node'[s].g + 1
      <4>1. CASE s = n.at
        <5>1. PICK m \in open' : m.at = u /\ m.g = n.g + 1
          BY <2>4, <3>3, <4>1
        <5>2. m.g <= node'[s].g + 1
          <6>1. n.g \in Nat /\ node'[s].g = n.g /\ m.g = n.g + 1
            BY <1>0, <2>2, <4>1, <5>1
          <6>2. QED BY ONLY <6>1
        <5>3. QED BY <5>1, <5>2
      <4>2. CASE s # n.at
        <5>1. s \in DOMAIN node /\ u \notin DOMAIN node /\ node'[s] = node[s] /\ u # n.at
          BY <2>2, <3>3, <4>2
        <5>2. PICK m \in open : m.at = u /\ m.g <= node[s].g + 1
          BY <2>1, <5>1 DEF BestInv, FrontierInv
        <5>3. m \in open'
          BY <2>5, <5>1, <5>2
        <5>4. QED BY <5>1, <5>2, <5>3
      <4>3. QED BY <4>1, <4>2
    <3>4. QED BY <2>1, <3>1, <3>2, <3>3 DEF FrontierInv
  <2>8. QED BY <2>1, <2>6, <2>7 DEF BestInv, BackInv, ResultInv
<1>4. ASSUME NEW n \in open, Reach(n) PROVE BestInv'
  <2>1. /\ search = "loop" /\ search' = "back" /\ n.at \notin DOMAIN node /\ n.at = goal
        /\ Turn(n) /\ Close(n) /\ open' = open \ {n}
        /\ UNCHANGED <<start, goal, back, path>> /\ path = <<>> /\ back = goal
    BY <1>4 DEF Reach, Turn, PathInv
  <2>2. CostInv'
    <3>1. /\ \A t \in DOMAIN node' : Optimal(t, node[t].g)'
          /\ \A t \in DOMAIN node' : t # start =>
                node'[t].parent \in DOMAIN node' /\ node'[t].g = node'[node'[t].parent].g + 1
          /\ \A m \in open : m.at # start =>
                m.parent \in DOMAIN node' /\ m.g = node'[m.parent].g + 1
      BY <2>1, BestClose
    <3>2. \A m \in open' : m \in open /\ m.at \in Within(start)[m.g]
      BY <2>1 DEF BestInv, CostInv
    <3>3. QED BY <2>1, <3>1, <3>2 DEF CostInv
  <2>3. goal # start /\ goal \in DOMAIN node' /\ node'[goal].g \in Nat
    <3>1. goal # start
      BY <2>1 DEF BestInv, FrontierInv
    <3>2. DOMAIN node' = DOMAIN node \cup {n.at} /\ node'[n.at].g = n.g
      BY <2>1, BestClose
    <3>3. QED BY <1>0, <2>1, <3>1, <3>2
  <2>4. Len(path) = 0 /\ node'[back].g + Len(path) = node'[goal].g
    BY <2>1, <2>3
  <2>5. QED BY <2>1, <2>2, <2>3, <2>4 DEF BestInv, FrontierInv, BackInv, ResultInv
<1>5. CASE GiveUp
  <2>1. /\ search = "loop" /\ search' = "done" /\ (open = {} \/ processed >= MaxNodes)
        /\ UNCHANGED <<start, goal, open, node, processed, path>> /\ path = <<>>
    BY <1>5 DEF GiveUp, PathInv
  <2>2. CASE open = {}
    <3>1. goal \notin DOMAIN node
      BY <2>1 DEF BestInv, FrontierInv
    <3>2. \A k \in Nat : goal \notin Within(start)[k]
      BY <2>1, <2>2, <3>1, Frontier DEF BestInv
    <3>3. QED BY <2>1, <3>2 DEF BestInv, CostInv, Optimal, FrontierInv, BackInv, ResultInv
  <2>3. CASE processed >= MaxNodes
    <3>1. processed = MaxNodes
      BY <1>1, <2>3
    <3>2. QED BY <2>1, <3>1 DEF BestInv, CostInv, Optimal, FrontierInv, BackInv, ResultInv
  <2>4. QED BY <2>1, <2>2, <2>3
<1>6. CASE TraceBack
  <2>1. /\ search = "back" /\ UNCHANGED <<start, goal, open, node, processed>>
        /\ goal # start /\ goal \in DOMAIN node /\ back \in DOMAIN node
        /\ node[back].g + Len(path) = node[goal].g /\ Optimal(goal, node[goal].g)
        /\ path \in Seq(Walkable) /\ Len(path) \in Nat
    BY <1>6 DEF TraceBack, BestInv, BackInv, CostInv, PathInv, PathTypeOK
  <2>2. CostInv'
    BY <2>1 DEF BestInv, CostInv, Optimal
  <2>3. CASE back = start
    <3>1. search' = "done" /\ path' = path
      BY <1>6, <2>3 DEF TraceBack
    <3>2. node[start].g = 0
      <4>1. node[start].g \in Nat /\ node[start].g <= 0
        BY <1>1, <2>1, <2>3 DEF BestInv, CostInv, Optimal
      <4>2. QED BY <4>1
    <3>3. Optimal(goal, Len(path))
      BY <1>1, <2>1, <2>3, <3>2
    <3>4. path # <<>>
      <4>1. Len(path) # 0
        BY <1>1, <2>1, <3>3 DEF Optimal
      <4>2. QED BY <4>1
    <3>5. QED BY <2>1, <2>2, <3>1, <3>3, <3>4
             DEF BestInv, FrontierInv, BackInv, ResultInv, Optimal
  <2>4. CASE back # start
    <3>1. /\ path' = <<back>> \o path /\ back' = node[back].parent /\ search' = "back"
      BY <1>6, <2>1, <2>4 DEF TraceBack
    <3>2. node[back].parent \in DOMAIN node /\ node[back].g = node[node[back].parent].g + 1
      BY <2>1, <2>4 DEF BestInv, CostInv
    <3>3. Len(path') = Len(path) + 1
      BY <2>1, <3>1
    <3>4. node[back'].g + Len(path') = node[goal].g
      <4>1. /\ node[back].g = node[back'].g + 1 /\ back' \in DOMAIN node
            /\ node[back'].g \in Nat /\ node[goal].g \in Nat
        BY <1>1, <2>1, <3>1, <3>2
      <4>2. QED BY <2>1, <3>3, <4>1
    <3>5. QED BY <2>1, <2>2, <3>1, <3>2, <3>4 DEF BestInv, FrontierInv, BackInv, ResultInv
  <2>5. QED BY <2>3, <2>4
<1>7. QED BY <1>2, <1>3, <1>4, <1>5, <1>6 DEF PathStep

LEMMA BestStutter == BestInv /\ UNCHANGED pathVars => BestInv'
BY DEF pathVars, BestInv, CostInv, Optimal, FrontierInv, BackInv, ResultInv

LEMMA BestIsShortest == PathInv /\ BestInv => ShortestOrNone
<1> SUFFICES ASSUME PathInv, BestInv, search = "done", start # goal
             PROVE  IF path # <<>>
                    THEN /\ goal \in Within(start)[Len(path)]
                         /\ goal \notin Within(start)[Len(path) - 1]
                    ELSE \/ goal \notin Walkable
                         \/ goal \notin Within(start)[Cols * Rows]
                         \/ processed = MaxNodes
  BY PathInvIsWalk DEF ShortestOrNone
<1>1. CASE path # <<>>
  <2>1. Len(path) \in Nat \ {0}
    BY <1>1 DEF PathInv, PathTypeOK
  <2>2. Len(path) - 1 \in Nat /\ ~(Len(path) <= Len(path) - 1)
    BY <2>1
  <2>3. QED BY <1>1, <2>2 DEF BestInv, ResultInv, Optimal
<1>2. CASE path = <<>>
  <2>1. Cols * Rows \in Nat
    BY PathAssumption
  <2>2. QED BY <1>2, <2>1 DEF BestInv, ResultInv
<1>3. QED BY <1>1, <1>2

(* The last tile of a walk is within its other tiles' steps of its first.  *)
LEMMA WalkWithin ==
  ASSUME NEW p \in Seq(Walkable), p # <<>>, NEW a, IsWalk(a, p)
  PROVE  p[Len(p)] \in Within(p[1])[Len(p) - 1]
<1> DEFINE S == {n \in Nat : n < Len(p) => p[n + 1] \in Within(p[1])[n]}
<1>1. Len(p) \in Nat \ {0} /\ \A i \in 1 .. Len(p) : p[i] \in Walkable
  OBVIOUS
<1>2. 0 \in S
  BY WithinStep
<1>3. ASSUME NEW n \in Nat, n \in S PROVE n + 1 \in S
  <2>1. SUFFICES ASSUME n + 1 < Len(p) PROVE p[(n + 1) + 1] \in Within(p[1])[n + 1]
    OBVIOUS
  <2>2. n < Len(p) /\ 1 \in 1 .. Len(p) /\ (n + 1) + 1 \in 1 .. Len(p) /\ n + 1 \in 1 .. Len(p) - 1
    BY <1>1, <2>1
  <2>3. p[n + 1] \in Within(p[1])[n] /\ p[1] \in Walkable
    BY <1>1, <1>3, <2>2
  <2>4. p[(n + 1) + 1] \in Around(p[n + 1])
    BY <1>1, <2>2 DEF IsWalk, Around
  <2>5. QED BY <2>3, <2>4, WithinGrows
<1>4. Nat \subseteq S
  <2> HIDE DEF S
  <2> QED BY <1>2, <1>3, SetInduction
<1>5. Len(p) - 1 \in S /\ Len(p) - 1 < Len(p) /\ (Len(p) - 1) + 1 = Len(p)
  <2> HIDE DEF S
  <2> QED BY <1>1, <1>4
<1>6. QED BY <1>5

(* No path is shorter than the one FindPath returns, and it returns none   *)
(* only if the goal cannot be reached or maxNodes tiles were expanded:     *)
(* closing a tile when it first comes off the heap is right.               *)
THEOREM ShortestAlways == PathSpec => []ShortestOrNone
<1>1. PathInv /\ BestInv /\ [PathNext]_pathVars => BestInv'
  BY BestCall, BestForget, BestStep, BestStutter DEF PathNext
<1>2. QED BY PathInvAlways, BestInit, <1>1, BestIsShortest, PTL DEF PathSpec

-----------------------------------------------------------------------------
(* FindPath's loop ends: an expanded tile brings at most four nodes.        *)

\* A bound on what is left to do: five for each tile that may still be
\* expanded, one for each node queued, one for each step of the way back.
Turns ==
    CASE search = "loop" -> 5 * (MaxNodes - processed) + Cardinality(open) + MaxNodes + 2
      [] search = "back" -> node[back].g + 1
      [] OTHER -> 0

\* No node is farther from the start than tiles have been expanded.
QueueInv ==
    /\ IsFiniteSet(open) /\ Cardinality(open) <= 4 * processed + 1
    /\ \A n \in open : n.g <= processed
    /\ \A t \in DOMAIN node : node[t].g <= processed

LEMMA OneMore ==
  ASSUME NEW S, IsFiniteSet(S), NEW x
  PROVE  /\ IsFiniteSet(S \cup {x}) /\ Cardinality(S \cup {x}) \in Nat
         /\ Cardinality(S \cup {x}) <= Cardinality(S) + 1
<1>1. Cardinality(S) \in Nat
  BY FS_CardinalityType
<1>2. /\ IsFiniteSet(S \cup {x})
      /\ Cardinality(S \cup {x}) = IF x \in S THEN Cardinality(S) ELSE Cardinality(S) + 1
  BY FS_AddElement
<1>3. QED BY <1>1, <1>2

LEMMA FourMore ==
  ASSUME NEW S, IsFiniteSet(S), NEW a, NEW b, NEW c, NEW d, NEW T, T \subseteq S \cup {a, b, c, d}
  PROVE  IsFiniteSet(T) /\ Cardinality(T) \in Nat /\ Cardinality(T) <= Cardinality(S) + 4
<1> DEFINE A == S \cup {a}
           B == A \cup {b}
           C == B \cup {c}
           D == C \cup {d}
<1>0. Cardinality(S) \in Nat
  BY FS_CardinalityType
<1>1. IsFiniteSet(A) /\ Cardinality(A) \in Nat /\ Cardinality(A) <= Cardinality(S) + 1
  BY <1>0, OneMore
<1> HIDE DEF A
<1>2. IsFiniteSet(B) /\ Cardinality(B) \in Nat /\ Cardinality(B) <= Cardinality(A) + 1
  BY <1>1, OneMore
<1> HIDE DEF B
<1>3. IsFiniteSet(C) /\ Cardinality(C) \in Nat /\ Cardinality(C) <= Cardinality(B) + 1
  BY <1>2, OneMore
<1> HIDE DEF C
<1>4. IsFiniteSet(D) /\ Cardinality(D) \in Nat /\ Cardinality(D) <= Cardinality(C) + 1
  BY <1>3, OneMore
<1>5. T \in SUBSET D
  BY DEF A, B, C
<1> HIDE DEF D
<1>6. IsFiniteSet(T) /\ Cardinality(T) <= Cardinality(D) /\ Cardinality(T) \in Nat
  BY <1>4, <1>5, FS_Subset, FS_CardinalityType
<1>7. QED BY <1>0, <1>1, <1>2, <1>3, <1>4, <1>6

(* A tile has four neighbours.                                             *)
LEMMA FourAround ==
  ASSUME NEW t \in Tiles, NEW u \in Around(t)
  PROVE  u \in {<<t[1] - 1, t[2]>>, <<t[1] + 1, t[2]>>, <<t[1], t[2] - 1>>, <<t[1], t[2] + 1>>}
<1>1. /\ t[1] \in Int /\ t[2] \in Int /\ u[1] \in Int /\ u[2] \in Int
      /\ u = <<u[1], u[2]>> /\ Adjacent(t, u)
  BY PathAssumption DEF Around, Walkable, Tiles
<1>2. \/ u[1] = t[1] - 1 /\ u[2] = t[2]
      \/ u[1] = t[1] + 1 /\ u[2] = t[2]
      \/ u[1] = t[1] /\ u[2] = t[2] - 1
      \/ u[1] = t[1] /\ u[2] = t[2] + 1
  BY <1>1 DEF Adjacent, Manhattan, Abs
<1>3. QED BY <1>1, <1>2

LEMMA TakeOne ==
  ASSUME IsFiniteSet(open), NEW n \in open
  PROVE  /\ IsFiniteSet(open \ {n}) /\ Cardinality(open \ {n}) \in Nat
         /\ Cardinality(open \ {n}) = Cardinality(open) - 1
BY FS_RemoveElement, FS_CardinalityType

LEMMA QueueGrows ==
  ASSUME PathInv, IsFiniteSet(open), NEW n \in open
  PROVE  /\ IsFiniteSet(QueueNeighbours(n)) /\ Cardinality(QueueNeighbours(n)) \in Nat
         /\ Cardinality(QueueNeighbours(n)) <= Cardinality(open) + 3
<1> DEFINE e(u) == [at |-> u, g |-> n.g + 1, parent |-> n.at]
           t == n.at
           west  == e(<<t[1] - 1, t[2]>>)
           east  == e(<<t[1] + 1, t[2]>>)
           north == e(<<t[1], t[2] - 1>>)
           south == e(<<t[1], t[2] + 1>>)
           rest  == open \ {n}
<1>1. t \in Tiles
  BY DEF PathInv, PathTypeOK, Nodes, Walkable
<1>2. QueueNeighbours(n) \subseteq rest \cup {west, east, north, south}
  <2> SUFFICES ASSUME NEW m \in QueueNeighbours(n), m \notin rest
               PROVE  m \in {west, east, north, south}
    OBVIOUS
  <2>1. PICK u \in Around(t) : m = e(u)
    BY DEF QueueNeighbours
  <2> HIDE DEF e
  <2>2. QED BY <1>1, <2>1, FourAround
<1>3. /\ IsFiniteSet(rest) /\ Cardinality(rest) \in Nat
      /\ Cardinality(rest) = Cardinality(open) - 1
  BY TakeOne
<1> HIDE DEF e, t, west, east, north, south, rest
<1>4. /\ IsFiniteSet(QueueNeighbours(n)) /\ Cardinality(QueueNeighbours(n)) \in Nat
      /\ Cardinality(QueueNeighbours(n)) <= Cardinality(rest) + 4
  BY <1>2, <1>3, FourMore
<1>5. Cardinality(open) \in Nat
  BY FS_CardinalityType
<1>6. QED BY <1>3, <1>4, <1>5

LEMMA QueueInit == PathInit => QueueInv
BY FS_EmptySet DEF PathInit, QueueInv, None

LEMMA QueueCall ==
  ASSUME NEW from, NEW to, FindPath(from, to)
  PROVE  QueueInv'
<1> DEFINE first == [at |-> from, g |-> 0, parent |-> from]
<1>1. node' = None /\ processed' = 0 /\ (open' = {} \/ open' = {first}) /\ first.g = 0
  BY DEF FindPath
<1> HIDE DEF first
<1>2. IsFiniteSet(open') /\ Cardinality(open') <= 1
  <2>1. CASE open' = {}
    BY <2>1, FS_EmptySet
  <2>2. CASE open' = {first}
    <3>1. IsFiniteSet({first}) /\ Cardinality({first}) = 1
      BY FS_Singleton, Zenon
    <3>2. QED BY <2>2, <3>1
  <2>3. QED BY <1>1, <2>1, <2>2
<1>3. QED BY <1>1, <1>2 DEF QueueInv, None

LEMMA QueueForget == Forget => QueueInv'
BY FS_EmptySet DEF Forget, QueueInv, None

(* Every step keeps the queue's bounds and leaves less to do.              *)
LEMMA LessToDo ==
  ASSUME PathInv, BestInv, QueueInv, PathStep
  PROVE  QueueInv' /\ Turns' < Turns
<1>1. /\ processed \in 0 .. MaxNodes /\ MaxNodes \in Nat /\ Cardinality(open) \in Nat
      /\ \A n \in open : n.g \in Nat /\ n.at \in Walkable
      /\ \A t \in DOMAIN node : node[t].g \in Nat
  <2>1. Cardinality(open) \in Nat
    BY FS_CardinalityType DEF QueueInv
  <2>2. QED BY <2>1, PathAssumption DEF PathInv, PathTypeOK, Nodes
<1>2. ASSUME NEW n \in open, Skip(n) PROVE QueueInv' /\ Turns' < Turns
  <2>1. /\ search = "loop" /\ open' = open \ {n}
        /\ UNCHANGED <<search, node, processed>>
    BY <1>2 DEF Skip, Turn
  <2>2. IsFiniteSet(open') /\ Cardinality(open') = Cardinality(open) - 1
    BY <2>1, TakeOne DEF QueueInv
  <2>3. QueueInv'
    BY <1>1, <2>1, <2>2 DEF QueueInv
  <2>4. QED BY <1>1, <2>1, <2>2, <2>3 DEF Turns
<1>3. ASSUME NEW n \in open, Expand(n) PROVE QueueInv' /\ Turns' < Turns
  <2>1. /\ search = "loop" /\ search' = "loop" /\ processed < MaxNodes /\ processed' = processed + 1
        /\ open' = QueueNeighbours(n) /\ Close(n)
    BY <1>3 DEF Expand, Turn
  <2>2. /\ IsFiniteSet(open') /\ Cardinality(open') \in Nat
        /\ Cardinality(open') <= Cardinality(open) + 3
    BY <2>1, QueueGrows DEF QueueInv
  <2>3. \A m \in open' : m.g <= processed'
    <3> SUFFICES ASSUME NEW m \in QueueNeighbours(n) PROVE m.g <= processed + 1
      BY <2>1
    <3>1. CASE m \in open
      BY <1>1, <3>1 DEF QueueInv
    <3>2. CASE m \notin open
      <4>1. m.g = n.g + 1
        BY <3>2 DEF QueueNeighbours
      <4>2. QED BY <1>1, <4>1 DEF QueueInv
    <3>3. QED BY <3>1, <3>2
  <2>4. \A t \in DOMAIN node' : node'[t].g <= processed'
    <3> SUFFICES ASSUME NEW t \in DOMAIN node' PROVE node'[t].g <= processed + 1
      BY <2>1
    <3>1. CASE t = n.at
      BY <1>1, <2>1, <3>1 DEF Close, QueueInv
    <3>2. CASE t # n.at
      BY <1>1, <2>1, <3>2 DEF Close, QueueInv
    <3>3. QED BY <3>1, <3>2
  <2>5. QueueInv'
    BY <1>1, <2>1, <2>2, <2>3, <2>4 DEF QueueInv
  <2>6. QED BY <1>1, <2>1, <2>2, <2>5 DEF Turns
<1>4. ASSUME NEW n \in open, Reach(n) PROVE QueueInv' /\ Turns' < Turns
  <2>1. /\ search = "loop" /\ search' = "back" /\ open' = open \ {n} /\ Close(n)
        /\ n.at = goal /\ back = goal
        /\ UNCHANGED <<back, processed>>
    BY <1>4 DEF Reach, Turn, PathInv
  <2>2. IsFiniteSet(open') /\ Cardinality(open') = Cardinality(open) - 1
    BY <2>1, TakeOne DEF QueueInv
  <2>3. node'[back].g = n.g /\ n.g <= processed
    BY <2>1 DEF Close, QueueInv
  <2>4. \A t \in DOMAIN node' : node'[t].g <= processed
    <3> SUFFICES ASSUME NEW t \in DOMAIN node' PROVE node'[t].g <= processed
      OBVIOUS
    <3>1. CASE t = n.at
      BY <1>1, <2>1, <3>1 DEF Close, QueueInv
    <3>2. CASE t # n.at
      BY <1>1, <2>1, <3>2 DEF Close, QueueInv
    <3>3. QED BY <3>1, <3>2
  <2>5. QueueInv'
    BY <1>1, <2>1, <2>2, <2>4 DEF QueueInv
  <2>6. Turns >= MaxNodes + 2 /\ Turns' = node'[back].g + 1
    BY <1>1, <2>1 DEF Turns
  <2>7. Turns' \in Int /\ Turns' <= processed + 1 /\ Turns \in Int
    BY <1>1, <2>1, <2>3, <2>6 DEF Turns
  <2>8. QED BY <1>1, <2>5, <2>6, <2>7
<1>5. CASE GiveUp
  <2>1. search = "loop" /\ search' = "done" /\ UNCHANGED <<open, node, processed>>
    BY <1>5 DEF GiveUp
  <2>2. QueueInv'
    BY <2>1 DEF QueueInv
  <2>3. QED BY <1>1, <2>1, <2>2 DEF Turns
<1>6. CASE TraceBack
  <2>1. search = "back" /\ back \in DOMAIN node /\ UNCHANGED <<start, open, node, processed>>
    BY <1>6 DEF TraceBack, BestInv, BackInv
  <2>2. QueueInv'
    BY <2>1 DEF QueueInv
  <2>3. CASE back = start
    <3>1. search' = "done"
      BY <1>6, <2>3 DEF TraceBack
    <3>2. QED BY <1>1, <2>1, <2>2, <3>1 DEF Turns
  <2>4. CASE back # start
    <3>1. back' = node[back].parent /\ search' = "back"
      BY <1>6, <2>1, <2>4 DEF TraceBack
    <3>2. node[back].parent \in DOMAIN node /\ node[back].g = node[node[back].parent].g + 1
      BY <2>1, <2>4 DEF BestInv, CostInv
    <3>3. node'[back'].g = node[node[back].parent].g
      BY <2>1, <3>1
    <3>4. QED BY <1>1, <2>1, <2>2, <3>1, <3>2, <3>3 DEF Turns
  <2>5. QED BY <2>3, <2>4
<1>7. QED BY <1>2, <1>3, <1>4, <1>5, <1>6 DEF PathStep

LEMMA TurnsBounded ==
  ASSUME PathInv, BestInv, QueueInv
  PROVE  Turns \in 0 .. 6 * MaxNodes + 3
<1>1. /\ processed \in 0 .. MaxNodes /\ MaxNodes \in Nat /\ Cardinality(open) \in Nat
      /\ \A t \in DOMAIN node : node[t].g \in Nat
  <2>1. Cardinality(open) \in Nat
    BY FS_CardinalityType DEF QueueInv
  <2>2. QED BY <2>1, PathAssumption DEF PathInv, PathTypeOK
<1>2. CASE search = "loop"
  BY <1>1, <1>2 DEF Turns, QueueInv
<1>3. CASE search = "back"
  <2>1. back \in DOMAIN node
    BY <1>3 DEF BestInv, BackInv
  <2>2. node[back].g \in Nat /\ node[back].g <= processed
    BY <1>1, <2>1 DEF QueueInv
  <2>3. QED BY <1>1, <1>3, <2>2 DEF Turns
<1>4. CASE search \notin {"loop", "back"}
  BY <1>1, <1>4 DEF Turns
<1>5. QED BY <1>2, <1>3, <1>4

(* FindPath ends, however large the map: what is left to do falls with     *)
(* every turn of the loop and every step back, and is never more than      *)
(* 6 * maxNodes + 3; a worker is not held up by a goal it cannot reach.    *)
THEOREM FindPathEnds ==
  PathSpec => /\ [](Turns \in 0 .. 6 * MaxNodes + 3)
              /\ [][PathStep => Turns' < Turns]_pathVars
<1>1. PathInv /\ BestInv /\ [PathNext]_pathVars => BestInv'
  BY BestCall, BestForget, BestStep, BestStutter DEF PathNext
<1>2. PathInv /\ BestInv /\ QueueInv /\ [PathNext]_pathVars => QueueInv'
  <2>1. QueueInv /\ UNCHANGED pathVars => QueueInv'
    BY DEF pathVars, QueueInv
  <2>2. QED BY <2>1, QueueCall, QueueForget, LessToDo DEF PathNext
<1>3. PathInv /\ BestInv /\ QueueInv => Turns \in 0 .. 6 * MaxNodes + 3
  BY TurnsBounded
<1>4. PathInv /\ BestInv /\ QueueInv => [PathStep => Turns' < Turns]_pathVars
  BY LessToDo
<1>5. QED BY PathInvAlways, BestInit, QueueInit, <1>1, <1>2, <1>3, <1>4, PTL DEF PathSpec

-----------------------------------------------------------------------------
(* Pursuit *)

\* FindPath runs for the tile the monster stands on, within a tick.
SearchInv ==
    IF tick = "path" THEN start = pos /\ search # "idle" ELSE search = "idle"

\* A side is picked in the loop over the target's sides only, and is a tile.
PickInv ==
    IF tick \in {"goal", "path"} THEN picked # 0 => Sides(seen)[picked] \in Walkable
    ELSE picked = 0

\* While it collects its victims, the monster has met all that stand beside it,
\* and whom it asks about.
MetInv ==
    /\ tick \in {"occupant", "player"} =>
          \A p \in Players : OnTile(p) /\ Adjacent(at[p], pos) => p \in met
    /\ tick \in {"distance", "position", "player"} => who \in Players
    /\ tick = "player" => side # 5 /\ (Present(who) => who \in met)
    /\ tick \notin {"occupant", "player", "attack"} => victims = <<>>
    /\ HitsWhoStoodBeside

IndInv == TypeOK /\ PathInv /\ SearchInv /\ PickInv /\ MetInv

LEMMA TilesAreInts ==
  ASSUME NEW t \in Tiles PROVE t = <<t[1], t[2]>> /\ t[1] \in Int /\ t[2] \in Int
BY PathAssumption DEF Tiles

(* The four tiles of DX, DY are the ones beside.                           *)
LEMMA SidesAreBeside ==
  ASSUME NEW t \in Tiles, NEW i \in 1 .. 4 PROVE Adjacent(Sides(t)[i], t)
BY TilesAreInts DEF Sides, Adjacent, Manhattan, Abs

LEMMA IndInit == Init => IndInv
<1> SUFFICES ASSUME Init PROVE IndInv
  OBVIOUS
<1> USE PursuitAssumption
<1>1. PathInv /\ search = "idle"
  BY PathInvInit DEF Init, PathInit
<1>2. Spawn \in Tiles /\ Corner \in Tiles
  BY PathAssumption DEF Walkable, Corner, Tiles
<1>3. TypeOK
  <2>1. PathTypeOK
    BY <1>1 DEF PathInv
  <2>2. /\ at \in [Players -> Tiles]
        /\ stage \in [Players -> {"out", "entering", "in", "removed", "dead", "buried",
                                  "corner", "lifted"}]
    BY <1>2 DEF Init
  <2>3. moves \in 0 .. MaxMoves /\ listed \subseteq Players /\ waking \subseteq Players \X Tiles
    BY DEF Init
  <2>4. /\ active \in BOOLEAN /\ gone \in BOOLEAN /\ ready \in BOOLEAN /\ stuck \in BOOLEAN
        /\ target = Nobody /\ who = Nobody /\ nearest = Nobody
    BY DEF Init
  <2>5. /\ pos \in Walkable /\ seen \in Tiles /\ side \in 1 .. 5 /\ picked \in 0 .. 4
        /\ victims \in Seq(Players \cup {Nobody}) /\ distSq \in Int
        /\ unread \subseteq Players /\ met \subseteq Players /\ tick = "idle"
    BY <1>2 DEF Init
  <2>6. QED BY <2>1, <2>2, <2>3, <2>4, <2>5 DEF TypeOK
<1>4. SearchInv /\ PickInv /\ MetInv
  BY <1>1 DEF Init, SearchInv, PickInv, MetInv, HitsWhoStoodBeside
<1>5. QED BY <1>1, <1>3, <1>4 DEF IndInv

(* Nothing but the search itself touches its variables.                    *)
LEMMA PathRestsKeeps == PathInv /\ UNCHANGED pathVars => PathInv' /\ PathTypeOK'
BY DEF pathVars, PathInv, PathTypeOK, Found, LeadsFrom, ParentOf

-----------------------------------------------------------------------------
(* What players do *)

LEMMA PlayerLeavesPath ==
  ASSUME NEW p \in Players, PlayerAct(p)
  PROVE  UNCHANGED <<pathVars, pos, tick, target, ready, stuck, side, picked, nearest, distSq, who>>
BY DEF PlayerAct, Moves, Lifts, Lands, AddObject, AddPlayer, Wakes, RemoveObject, RemovePlayer,
   Dies, Buried, Revives, Rest, HandRests, stateVars, scanVars, aimVars

(* Players act on tiles of the map, and within the bound.                  *)
LEMMA PlayerKeepsType ==
  ASSUME IndInv, NEW p \in Players, PlayerAct(p) PROVE TypeOK'
<1> USE PursuitAssumption
<1>1. /\ UNCHANGED <<pos, tick, target, ready, stuck, side, picked, nearest, distSq, who>>
      /\ PathTypeOK'
  BY PlayerLeavesPath, PathRestsKeeps DEF IndInv
<1>2. TypeOK /\ Corner \in Tiles /\ Entries \subseteq Tiles
  BY PathAssumption DEF IndInv, Walkable, Corner, Tiles
<1> DEFINE Stages == {"out", "entering", "in", "removed", "dead", "buried", "corner", "lifted"}
           Typed ==
             /\ at' \in [Players -> Tiles] /\ stage' \in [Players -> Stages]
             /\ listed' \subseteq Players /\ unread' \subseteq Players /\ met' \subseteq Players
             /\ waking' \subseteq Players \X Tiles /\ moves' \in 0 .. MaxMoves
             /\ active' \in BOOLEAN /\ gone' \in BOOLEAN /\ seen' \in Tiles
             /\ victims' \in Seq(Players \cup {Nobody})
<1>3. /\ at \in [Players -> Tiles] /\ stage \in [Players -> Stages]
      /\ listed \subseteq Players /\ unread \subseteq Players /\ met \subseteq Players
      /\ waking \subseteq Players \X Tiles /\ moves \in 0 .. MaxMoves
      /\ active \in BOOLEAN /\ gone \in BOOLEAN /\ seen \in Tiles
      /\ victims \in Seq(Players \cup {Nobody})
  BY <1>2 DEF TypeOK
<1>4. ASSUME NEW t \in Tiles, Arrives(p, t)
      PROVE  at' \in [Players -> Tiles] /\ met' \subseteq Players
  BY <1>3, <1>4 DEF Arrives
<1>5. ASSUME NEW t \in Tiles, Looks(p, t) PROVE waking' \subseteq Players \X Tiles
  BY <1>3, <1>5 DEF Looks
<1>6. ASSUME NEW x, NEW y \in Stages, Changes(p, x, y) PROVE stage' \in [Players -> Stages]
  BY <1>3, <1>6 DEF Changes
<1>7. Lists(p) \/ Relists(p) \/ Unlists(p) => listed' \subseteq Players /\ unread' \subseteq Players
  BY <1>3 DEF Lists, Relists, Unlists, Scanned
<1>8. Counted => moves' \in 0 .. MaxMoves
  BY <1>3 DEF Counted
<1> HIDE DEF Stages
<1>9. "in" \in Stages /\ "entering" \in Stages /\ "removed" \in Stages /\ "out" \in Stages
      /\ "dead" \in Stages /\ "buried" \in Stages /\ "corner" \in Stages /\ "lifted" \in Stages
  BY DEF Stages
<1>10. ASSUME Moves(p) PROVE Typed
  <2>1. Around(at[p]) \subseteq Tiles
    BY DEF Around, Walkable
  <2>2. QED BY <1>3, <1>4, <1>5, <1>6, <1>7, <1>8, <1>9, <1>10, <2>1
        DEF Moves, Rest, HandRests, stateVars
<1>11. ASSUME Lifts(p) PROVE Typed
  BY <1>3, <1>6, <1>7, <1>8, <1>9, <1>11 DEF Lifts, Rest, HandRests, stateVars
<1>12. ASSUME Lands(p) PROVE Typed
  BY <1>2, <1>3, <1>4, <1>5, <1>6, <1>7, <1>9, <1>12 DEF Lands, Rest, HandRests, stateVars
<1>13. ASSUME AddObject(p) PROVE Typed
  BY <1>2, <1>3, <1>4, <1>6, <1>7, <1>8, <1>9, <1>13 DEF AddObject, Rest, HandRests, stateVars
<1>14. ASSUME AddPlayer(p) PROVE Typed
  <2>1. at[p] \in Tiles /\ met' \subseteq Players
    BY <1>3, <1>14 DEF AddPlayer
  <2>2. QED BY <1>3, <1>5, <1>6, <1>9, <1>14, <2>1 DEF AddPlayer, Rest, HandRests, stateVars
<1>15. ASSUME Wakes(p) PROVE Typed
  <2>1. active' \in BOOLEAN
    BY <1>3, <1>15 DEF Wakes
  <2>2. waking' \subseteq waking
    BY <1>15 DEF Wakes
  <2>3. QED BY <1>3, <1>15, <2>1, <2>2 DEF Wakes, worldVars, scanVars, aimVars
<1>16. ASSUME RemoveObject(p) PROVE Typed
  BY <1>3, <1>6, <1>7, <1>8, <1>9, <1>16 DEF RemoveObject, Rest, HandRests, stateVars
<1>17. ASSUME RemovePlayer(p) PROVE Typed
  <2>1. victims' \in Seq(Players \cup {Nobody})
    <3>1. DOMAIN victims = 1 .. Len(victims) /\ Len(victims) \in Nat
      BY <1>3
    <3>2. \A i \in 1 .. Len(victims) : victims[i] \in Players \cup {Nobody}
      BY <1>3
    <3>3. victims' = [i \in 1 .. Len(victims) |-> IF victims[i] = p THEN Nobody ELSE victims[i]]
      BY <1>17, <3>1 DEF RemovePlayer
    <3>4. QED BY <3>1, <3>2, <3>3
  <2>2. at' \in [Players -> Tiles] /\ seen' \in Tiles /\ gone' \in BOOLEAN
    BY <1>2, <1>3, <1>17 DEF RemovePlayer
  <2>3. QED BY <1>3, <1>6, <1>9, <1>17, <2>1, <2>2 DEF RemovePlayer, Rest, stateVars
<1>18. ASSUME Dies(p) PROVE Typed
  BY <1>3, <1>6, <1>8, <1>9, <1>18 DEF Dies, Rest, stateVars, scanVars, aimVars
<1>19. ASSUME Buried(p) PROVE Typed
  BY <1>3, <1>6, <1>7, <1>9, <1>19 DEF Buried, Rest, HandRests, stateVars
<1>20. ASSUME Revives(p) PROVE Typed
  <2>1. at' \in [Players -> Tiles]
    BY <1>2, <1>3, <1>20 DEF Revives
  <2>2. QED BY <1>3, <1>6, <1>9, <1>20, <2>1 DEF Revives, Rest, stateVars, scanVars, aimVars
<1>21. Typed
  BY <1>10, <1>11, <1>12, <1>13, <1>14, <1>15, <1>16, <1>17, <1>18, <1>19, <1>20 DEF PlayerAct
<1>22. QED BY <1>1, <1>2, <1>21 DEF TypeOK, Stages

(* Who comes to stand beside the monster while it looks around is met, and *)
(* who leaves the game is no victim.                                       *)
LEMMA PlayerKeepsMet ==
  ASSUME IndInv, NEW p \in Players, PlayerAct(p) PROVE MetInv'
<1>1. /\ UNCHANGED <<pos, tick, who, side>> /\ MetInv
      /\ at \in [Players -> Tiles] /\ stage = [q \in Players |-> stage[q]]
      /\ victims \in Seq(Players \cup {Nobody})
  BY PlayerLeavesPath DEF IndInv, TypeOK
<1>2. \A q \in Players \ {p} : at'[q] = at[q] /\ stage'[q] = stage[q]
  BY <1>1 DEF PlayerAct, Moves, Lifts, Lands, AddObject, AddPlayer, Wakes, RemoveObject,
     RemovePlayer, Dies, Buried, Revives, Arrives, Changes, worldVars
<1> DEFINE Stands == OnTile(p)' /\ Adjacent(at[p], pos)' =>
                        p \in met' \/ (OnTile(p) /\ Adjacent(at[p], pos))
           Knows == tick = "player" /\ who = p /\ Present(p)' => p \in met' \/ Present(p)
           Grows == met \subseteq met' /\ victims' = victims
           Good == Stands /\ Knows /\ Grows
<1>3. ASSUME Grows, Stands, Knows PROVE MetInv'
  <2>1. ASSUME tick \in {"occupant", "player"}, NEW q \in Players, OnTile(q)', Adjacent(at[q], pos)'
        PROVE  q \in met'
    <3>1. CASE q = p
      BY <1>1, <1>3, <2>1, <3>1 DEF MetInv
    <3>2. CASE q # p
      <4>1. OnTile(q) /\ Adjacent(at[q], pos)
        BY <1>1, <1>2, <2>1, <3>2 DEF OnTile
      <4>2. QED BY <1>1, <1>3, <2>1, <4>1 DEF MetInv
    <3>3. QED BY <3>1, <3>2
  <2>2. tick = "player" => side # 5 /\ (Present(who)' => who \in met')
    BY <1>1, <1>2, <1>3 DEF MetInv, Present
  <2>3. QED BY <1>1, <1>3, <2>1, <2>2 DEF MetInv, HitsWhoStoodBeside
<1>4. ASSUME NEW t, Arrives(p, t)
      PROVE  met \subseteq met' /\ Stands
  BY <1>1, <1>4 DEF Arrives
<1>5. ASSUME Moves(p) PROVE MetInv'
  BY <1>1, <1>3, <1>4, <1>5 DEF Moves, Changes, Present
<1>6. ASSUME Lands(p) PROVE MetInv'
  BY <1>1, <1>3, <1>4, <1>6 DEF Lands, Changes, Present
<1>7. ASSUME AddObject(p) PROVE MetInv'
  BY <1>1, <1>3, <1>4, <1>7 DEF AddObject, Changes, Present
<1>8. ASSUME AddPlayer(p) PROVE MetInv'
  <2>1. Grows /\ Stands
    BY <1>1, <1>8 DEF AddPlayer, Changes, OnTile
  <2>2. Knows
    BY <1>8 DEF AddPlayer
  <2>3. QED BY <1>3, <2>1, <2>2
<1>9. ASSUME Lifts(p) \/ RemoveObject(p) \/ Dies(p) \/ Buried(p) \/ Revives(p) \/ Wakes(p)
      PROVE  MetInv'
  <2>1. Grows
    BY <1>9 DEF Lifts, RemoveObject, Dies, Buried, Revives, Wakes, aimVars
  <2>2. Stands
    BY <1>1, <1>9 DEF Lifts, RemoveObject, Dies, Buried, Revives, Wakes, worldVars, Changes, OnTile
  <2>3. Knows
    BY <1>1, <1>9 DEF Lifts, RemoveObject, Dies, Buried, Revives, Wakes, worldVars, Changes, Present
  <2>4. QED BY <1>3, <2>1, <2>2, <2>3
<1>10. ASSUME RemovePlayer(p) PROVE MetInv'
  <2>1. /\ stage'[p] = "out" /\ met' = met \ {p}
        /\ victims' = [i \in DOMAIN victims |-> IF victims[i] = p THEN Nobody ELSE victims[i]]
    BY <1>1, <1>10 DEF RemovePlayer, Changes
  <2>2. ~OnTile(p)' /\ ~Present(p)'
    BY <2>1 DEF OnTile, Present
  <2>3. ASSUME tick \in {"occupant", "player"}, NEW q \in Players, OnTile(q)', Adjacent(at[q], pos)'
        PROVE  q \in met'
    <3>1. q # p
      BY <2>2, <2>3
    <3>2. OnTile(q) /\ Adjacent(at[q], pos)
      BY <1>1, <1>2, <2>3, <3>1 DEF OnTile
    <3>3. QED BY <1>1, <2>1, <2>3, <3>1, <3>2 DEF MetInv
  <2>4. tick = "player" => side # 5 /\ (Present(who)' => who \in met')
    BY <1>1, <1>2, <2>1, <2>2 DEF MetInv, Present
  <2>5. victims = <<>> => victims' = <<>>
    BY <2>1
  <2>6. HitsWhoStoodBeside'
    BY <1>1, <2>1 DEF MetInv, HitsWhoStoodBeside
  <2>7. QED BY <1>1, <2>3, <2>4, <2>5, <2>6 DEF MetInv
<1>11. QED BY <1>5, <1>6, <1>7, <1>8, <1>9, <1>10 DEF PlayerAct

LEMMA PlayersKeep ==
  ASSUME IndInv, NEW p \in Players, PlayerAct(p) PROVE IndInv'
<1>1. UNCHANGED <<pathVars, pos, tick, picked>>
  BY PlayerLeavesPath
<1>2. PathInv' /\ SearchInv'
  BY <1>1, PathRestsKeeps DEF IndInv, SearchInv, pathVars
<1>3. PickInv'
  <2>1. tick \in {"goal", "path"} => seen' = seen
    BY DEF PlayerAct, Moves, Lifts, Lands, AddObject, AddPlayer, Wakes, RemoveObject,
       RemovePlayer, Dies, Buried, Revives, aimVars
  <2>2. QED BY <1>1, <2>1 DEF IndInv, PickInv
<1>4. QED BY <1>2, <1>3, PlayerKeepsType, PlayerKeepsMet DEF IndInv

-----------------------------------------------------------------------------
(* What the tick does *)

\* The actions of a tick outside the search.
QuietTick(p) ==
    \/ AITimerFires \/ SeesNobody \/ Deactivate \/ NoTarget \/ Measures \/ SetTarget
    \/ p \in Players /\ (Sees(p) \/ Passes(p) \/ PassesOver(p) \/ Considers(p))
    \/ RoamingMove \/ ClearTarget \/ HasTarget \/ OutOfRange \/ SeeTarget
    \/ GetOccupant \/ NoOccupant \/ CollectVictim \/ Beside \/ Waits \/ Attack
    \/ OnAttackPerformed \/ NobodyBeside \/ ConsiderSide

LEMMA QuietTickRests ==
  ASSUME NEW p, QuietTick(p) \/ CooledDown
  PROVE  UNCHANGED <<worldVars, waking, pathVars>>
BY DEF QuietTick, AITimerFires, SeesNobody, Deactivate, NoTarget, Measures, SetTarget, Sees,
   Passes, PassesOver, Considers, RoamingMove, ClearTarget, HasTarget, OutOfRange, SeeTarget,
   GetOccupant, NoOccupant, CollectVictim, Beside, Waits, Attack, OnAttackPerformed,
   NobodyBeside, ConsiderSide, CooledDown, Step, Ends

LEMMA DistanceIsInt ==
  ASSUME NEW t \in Tiles, pos \in Walkable PROVE DistSq(t) \in Int
<1>1. t[1] \in Int /\ t[2] \in Int /\ pos[1] \in Int /\ pos[2] \in Int
  BY TilesAreInts DEF Walkable
<1>2. \A n \in Int : Square(n) \in Int
  BY DEF Square
<1>3. t[1] - pos[1] \in Int /\ t[2] - pos[2] \in Int
  BY <1>1
<1>4. Square(t[1] - pos[1]) \in Int /\ Square(t[2] - pos[2]) \in Int
  BY <1>2, <1>3
<1>5. QED BY <1>4 DEF DistSq

\* What a tick leaves behind when it ends.
Over ==
    /\ tick = "idle" /\ unread = {} /\ who = Nobody /\ gone = FALSE /\ nearest = Nobody
    /\ distSq = 0 /\ seen = Spawn /\ side = 1 /\ victims = <<>> /\ picked = 0 /\ met = {}

LEMMA EndsKeeps ==
  ASSUME NEW x, Ends(x)
  PROVE  Over' /\ PickInv' /\ MetInv'
<1>1. Over'
  BY DEF Ends, Step, Over
<1>2. PickInv' /\ MetInv'
  BY <1>1 DEF Over, PickInv, MetInv, HitsWhoStoodBeside
<1>3. QED BY <1>1, <1>2

LEMMA QuietTickTyped ==
  ASSUME NEW p, QuietTick(p)
  PROVE  tick' \in {"idle", "look", "deactivate", "target", "nearest", "distance", "position",
                    "occupant", "player", "attack", "goal"}
BY DEF QuietTick, AITimerFires, SeesNobody, Deactivate, NoTarget, Measures, SetTarget, Sees,
   Passes, PassesOver, Considers, RoamingMove, ClearTarget, HasTarget, OutOfRange, SeeTarget,
   GetOccupant, NoOccupant, CollectVictim, Beside, Waits, Attack, OnAttackPerformed,
   NobodyBeside, ConsiderSide, Step, Ends

(* A tick's steps keep to the map, and aim at tiles only.                  *)
LEMMA TickKeeps ==
  ASSUME IndInv, NEW p, QuietTick(p) \/ CooledDown
  PROVE  IndInv'
<1> USE PursuitAssumption
<1>1. UNCHANGED <<worldVars, waking, pathVars>>
  BY QuietTickRests
<1>2. PathInv' /\ PathTypeOK'
  BY <1>1, PathRestsKeeps DEF IndInv
<1> DEFINE Ids == Players \cup {Nobody}
           Typed ==
             /\ pos' \in Walkable /\ active' \in BOOLEAN /\ target' \in Ids
             /\ tick' \in {"idle", "look", "deactivate", "target", "nearest", "distance",
                           "position", "occupant", "player", "attack", "goal"}
             /\ unread' \subseteq Players /\ who' \in Ids /\ gone' \in BOOLEAN
             /\ nearest' \in Ids /\ distSq' \in Int
             /\ seen' \in Tiles /\ side' \in 1 .. 5 /\ picked' \in 0 .. 4
             /\ victims' \in Seq(Ids)
             /\ ready' \in BOOLEAN /\ stuck' \in BOOLEAN /\ met' \subseteq Players
           Keeps == Typed /\ PickInv' /\ MetInv'
           Kept == \E x : Ends(x) /\ pos' \in Walkable /\ active' \in BOOLEAN /\ target' \in Ids
                             /\ ready' \in BOOLEAN /\ stuck' \in BOOLEAN
<1>3. /\ TypeOK /\ PickInv /\ MetInv /\ SearchInv /\ UNCHANGED <<at, stage, listed>>
      /\ Spawn \in Tiles /\ Walkable \subseteq Tiles
  BY <1>1 DEF IndInv, worldVars, Walkable
<1>0. ASSUME Kept PROVE Keeps
  <2>1. Over' /\ PickInv' /\ MetInv'
    BY <1>0, EndsKeeps
  <2>2. /\ pos' \in Walkable /\ active' \in BOOLEAN /\ target' \in Ids
        /\ ready' \in BOOLEAN /\ stuck' \in BOOLEAN
    BY <1>0
  <2>3. /\ tick' = "idle" /\ unread' = {} /\ who' = Nobody /\ gone' = FALSE /\ nearest' = Nobody
        /\ distSq' = 0 /\ seen' = Spawn /\ side' = 1 /\ victims' = <<>> /\ picked' = 0
        /\ met' = {}
    BY <2>1 DEF Over
  <2>4. Typed
    <3>1. victims' \in Seq(Ids) /\ distSq' \in Int /\ side' \in 1 .. 5 /\ picked' \in 0 .. 4
      BY <2>3
    <3>2. /\ who' \in Ids /\ nearest' \in Ids /\ gone' \in BOOLEAN /\ seen' \in Tiles
          /\ unread' \subseteq Players /\ met' \subseteq Players
      BY <1>3, <2>3
    <3>3. QED BY <2>2, <2>3, <3>1, <3>2, Zenon
  <2>5. QED BY <2>1, <2>4
<1>4. ASSUME AITimerFires PROVE Keeps
  BY <1>3, <1>4 DEF TypeOK, PickInv, MetInv, HitsWhoStoodBeside, AITimerFires, Step, aimVars
<1>5. ASSUME SeesNobody PROVE Keeps
  BY <1>3, <1>5 DEF TypeOK, PickInv, MetInv, HitsWhoStoodBeside, SeesNobody, Step, aimVars, scanVars, stateVars
<1>6. ASSUME Deactivate PROVE Keeps
  <2>1. Kept
    BY <1>3, <1>6 DEF TypeOK, Deactivate
  <2>2. QED BY <1>0, <2>1
<1>7. ASSUME NoTarget PROVE Keeps
  BY <1>3, <1>7 DEF TypeOK, PickInv, MetInv, HitsWhoStoodBeside, NoTarget, Step, aimVars, stateVars
<1>8. ASSUME Measures PROVE Keeps
  <2>1. /\ tick = "distance" /\ tick' = "nearest" /\ who \in Players /\ HandPos \in Tiles
        /\ victims' = <<>> /\ picked' = 0
    BY <1>3, <1>8 DEF TypeOK, HandPos, Measures, Step, MetInv, PickInv
  <2>2. nearest' \in Ids /\ distSq' \in Int
    <3>1. DistSq(HandPos) \in Int
      BY <1>3, <2>1, DistanceIsInt DEF TypeOK
    <3>2. QED BY <1>3, <1>8, <2>1, <3>1 DEF TypeOK, Measures
  <2>3. Typed
    BY <1>3, <1>8, <2>1, <2>2 DEF TypeOK, Measures, stateVars
  <2>4. QED BY <2>1, <2>3 DEF PickInv, MetInv, HitsWhoStoodBeside
<1>9. ASSUME SetTarget PROVE Keeps
  <2>1. Kept
    BY <1>3, <1>9 DEF TypeOK, SetTarget
  <2>2. QED BY <1>0, <2>1
<1>10. ASSUME p \in Players, Sees(p) PROVE Keeps
  BY <1>3, <1>10 DEF TypeOK, PickInv, MetInv, HitsWhoStoodBeside, Sees, Step, aimVars, stateVars
<1>11. ASSUME p \in Players, Passes(p) \/ PassesOver(p) PROVE Keeps
  BY <1>3, <1>11 DEF TypeOK, PickInv, MetInv, HitsWhoStoodBeside, Passes, PassesOver, Step, aimVars, stateVars
<1>12. ASSUME p \in Players, Considers(p) PROVE Keeps
  BY <1>3, <1>12 DEF TypeOK, PickInv, MetInv, HitsWhoStoodBeside, Considers, Step, aimVars, stateVars
<1>13. ASSUME RoamingMove PROVE Keeps
  <2>1. Kept
    BY <1>3, <1>13 DEF TypeOK, RoamingMove, Around, stateVars
  <2>2. QED BY <1>0, <2>1
<1>14. ASSUME ClearTarget \/ OutOfRange PROVE Keeps
  <2>1. Kept
    BY <1>3, <1>14 DEF TypeOK, ClearTarget, OutOfRange
  <2>2. QED BY <1>0, <2>1
<1>15. ASSUME HasTarget PROVE Keeps
  BY <1>3, <1>15 DEF TypeOK, PickInv, MetInv, HitsWhoStoodBeside, HasTarget, Step, aimVars, stateVars
<1>16. ASSUME SeeTarget PROVE Keeps
  <2>1. /\ tick = "position" /\ tick' = "occupant" /\ who \in Players /\ HandPos \in Tiles
        /\ victims = <<>> /\ picked = 0
        /\ met' = {q \in Players : OnTile(q) /\ Adjacent(at[q], pos)}
        /\ UNCHANGED <<pos, stateVars, unread, nearest, distSq, side, victims, picked>>
        /\ seen' = HandPos /\ who' = Nobody /\ gone' = FALSE
    BY <1>3, <1>16 DEF TypeOK, HandPos, SeeTarget, Step, MetInv, PickInv
  <2>2. Typed
    BY <1>3, <2>1 DEF TypeOK, stateVars
  <2>3. \A q \in Players : OnTile(q)' /\ Adjacent(at[q], pos)' => q \in met'
    BY <1>3, <2>1 DEF OnTile
  <2>4. PickInv'
    BY <2>1 DEF PickInv
  <2>5. MetInv'
    BY <2>1, <2>3 DEF MetInv, HitsWhoStoodBeside
  <2>6. QED BY <2>2, <2>4, <2>5
<1>17. ASSUME GetOccupant PROVE Keeps
  <2>1. /\ tick = "occupant" /\ tick' = "player" /\ side \in 1 .. 4
        /\ UNCHANGED <<pos, stateVars, unread, gone, nearest, distSq, aimVars>>
    BY <1>3, <1>17 DEF TypeOK, GetOccupant, Step
  <2>2. PICK q \in Players : OnTile(q) /\ at[q] = Sides(pos)[side] /\ who' = q
    BY <1>17 DEF GetOccupant
  <2>3. q \in met
    <3>1. Adjacent(at[q], pos)
      BY <1>3, <2>1, <2>2, SidesAreBeside DEF TypeOK
    <3>2. QED BY <1>3, <2>1, <2>2, <3>1 DEF MetInv
  <2>4. Typed
    BY <1>3, <2>1, <2>2 DEF TypeOK, stateVars, aimVars
  <2>5. PickInv'
    BY <1>3, <2>1 DEF PickInv, aimVars
  <2>6. MetInv'
    BY <1>3, <2>1, <2>2, <2>3 DEF MetInv, HitsWhoStoodBeside, OnTile, aimVars
  <2>7. QED BY <2>4, <2>5, <2>6
<1>18. ASSUME NoOccupant PROVE Keeps
  <2>1. /\ tick = "occupant" /\ tick' = "occupant" /\ side \in 1 .. 4 /\ side' = side + 1
        /\ UNCHANGED <<pos, stateVars, scanVars, seen, victims, picked, met>>
    BY <1>3, <1>18 DEF TypeOK, NoOccupant, Step
  <2>2. Typed
    BY <1>3, <2>1 DEF TypeOK, stateVars, scanVars
  <2>3. PickInv'
    BY <1>3, <2>1 DEF PickInv
  <2>4. MetInv'
    BY <1>3, <2>1 DEF MetInv, HitsWhoStoodBeside, OnTile
  <2>5. QED BY <2>2, <2>3, <2>4
<1>19. ASSUME CollectVictim PROVE Keeps
  <2>1. /\ tick = "player" /\ tick' = "occupant" /\ who \in Players /\ side' = side + 1
        /\ victims' = IF Alive(who) THEN Append(victims, who) ELSE victims
        /\ who' = Nobody
        /\ UNCHANGED <<pos, stateVars, unread, gone, nearest, distSq, seen, picked, met>>
    BY <1>3, <1>19 DEF CollectVictim, Step, MetInv
  <2>2. side \in 1 .. 4
    BY <1>3, <2>1 DEF TypeOK, MetInv
  <2>3. victims' \in Seq(Ids)
    BY <1>3, <2>1 DEF TypeOK
  <2>4. Typed
    BY <1>3, <2>1, <2>2, <2>3 DEF TypeOK, stateVars
  <2>5. PickInv'
    BY <1>3, <2>1 DEF PickInv
  <2>6. HitsWhoStoodBeside'
    <3>1. CASE Alive(who)
      <4>1. who \in met
        BY <1>3, <2>1, <3>1 DEF Alive, MetInv
      <4>2. victims \in Seq(Ids) /\ HitsWhoStoodBeside
        BY <1>3 DEF TypeOK, MetInv
      <4>3. QED BY <2>1, <3>1, <4>1, <4>2 DEF HitsWhoStoodBeside
    <3>2. CASE ~Alive(who)
      BY <1>3, <2>1, <3>2 DEF MetInv, HitsWhoStoodBeside
    <3>3. QED BY <3>1, <3>2
  <2>7. MetInv'
    BY <1>3, <2>1, <2>6 DEF MetInv, OnTile
  <2>8. QED BY <2>4, <2>5, <2>7
<1>20. ASSUME Beside PROVE Keeps
  BY <1>3, <1>20 DEF TypeOK, PickInv, MetInv, HitsWhoStoodBeside, Beside, Step, aimVars, scanVars, stateVars
<1>21. ASSUME Waits PROVE Keeps
  <2>1. Kept
    BY <1>3, <1>21 DEF TypeOK, Waits, stateVars
  <2>2. QED BY <1>0, <2>1
<1>22. ASSUME Attack PROVE Keeps
  BY <1>3, <1>22 DEF TypeOK, PickInv, MetInv, HitsWhoStoodBeside, Attack, Step, scanVars, stateVars
<1>23. ASSUME OnAttackPerformed PROVE Keeps
  <2>1. Kept
    BY <1>3, <1>23 DEF TypeOK, OnAttackPerformed
  <2>2. QED BY <1>0, <2>1
<1>24. ASSUME NobodyBeside PROVE Keeps
  BY <1>3, <1>24 DEF TypeOK, PickInv, MetInv, HitsWhoStoodBeside, NobodyBeside, Step, scanVars, stateVars
<1>25. ASSUME ConsiderSide PROVE Keeps
  BY <1>3, <1>25 DEF TypeOK, PickInv, MetInv, HitsWhoStoodBeside, ConsiderSide, Free, Step, scanVars, stateVars
<1>26. ASSUME CooledDown PROVE IndInv'
  <2>1. UNCHANGED <<pos, tick, target, active, stuck, unread, who, gone, nearest, distSq, seen,
                    side, victims, picked, met>> /\ ready' \in BOOLEAN
    BY <1>26 DEF CooledDown, scanVars, aimVars
  <2>2. TypeOK'
    BY <1>1, <1>2, <1>3, <2>1 DEF TypeOK, worldVars
  <2>3. PickInv' /\ SearchInv' /\ MetInv'
    BY <1>1, <1>3, <2>1
       DEF PickInv, SearchInv, MetInv, HitsWhoStoodBeside, OnTile, Present, pathVars
  <2>4. QED BY <1>2, <2>2, <2>3 DEF IndInv
<1>27. ASSUME QuietTick(p) PROVE IndInv'
  <2>1. Keeps
    BY <1>4, <1>5, <1>6, <1>7, <1>8, <1>9, <1>10, <1>11, <1>12, <1>13, <1>14, <1>15, <1>16, <1>17,
       <1>18, <1>19, <1>20, <1>21, <1>22, <1>23, <1>24, <1>25, <1>27 DEF QuietTick
  <2>2. tick # "path"
    BY <1>27 DEF QuietTick, AITimerFires, SeesNobody, Deactivate, NoTarget, Measures, SetTarget,
       Sees, Passes, PassesOver, Considers, RoamingMove, ClearTarget, HasTarget, OutOfRange,
       SeeTarget, GetOccupant, NoOccupant, CollectVictim, Beside, Waits, Attack,
       OnAttackPerformed, NobodyBeside, ConsiderSide, Step, Ends
  <2>3. SearchInv'
    BY <1>1, <1>3, <2>1, <2>2 DEF SearchInv, pathVars
  <2>4. TypeOK'
    BY <1>1, <1>2, <1>3, <2>1 DEF TypeOK, worldVars
  <2>5. QED BY <1>2, <2>1, <2>3, <2>4 DEF IndInv
<1>28. QED BY <1>26, <1>27

-----------------------------------------------------------------------------
(* The search *)

(* AgroPursue searches for a tile of the map, whatever it found free       *)
(* around its target.                                                      *)
LEMMA GoalIsTile ==
  ASSUME IndInv, tick = "goal" PROVE GoalPos \in Tiles
BY DEF IndInv, TypeOK, PickInv, GoalPos, Walkable

LEMMA ChooseGoalKeeps == IndInv /\ ChooseGoal => IndInv'
<1> SUFFICES ASSUME IndInv, ChooseGoal PROVE IndInv'
  OBVIOUS
<1>1. /\ FindPath(pos, GoalPos) /\ tick = "goal" /\ tick' = "path"
      /\ UNCHANGED <<worldVars, waking, pos, stateVars, scanVars, aimVars>>
  BY DEF ChooseGoal
<1>2. pos \in Walkable /\ GoalPos \in Tiles
  BY <1>1, GoalIsTile DEF IndInv, TypeOK
<1>3. PathInv'
  BY <1>1, <1>2, CallKeeps DEF IndInv
<1>4. SearchInv'
  BY <1>1 DEF SearchInv, FindPath
<1>5. PickInv' /\ MetInv'
  BY <1>1 DEF IndInv, PickInv, MetInv, HitsWhoStoodBeside, aimVars
<1>6. TypeOK'
  BY <1>1, <1>3 DEF IndInv, TypeOK, PathInv, worldVars, stateVars, scanVars, aimVars
<1>7. QED BY <1>3, <1>4, <1>5, <1>6 DEF IndInv

LEMMA SearchKeeps == IndInv /\ Search => IndInv'
<1> SUFFICES ASSUME IndInv, Search PROVE IndInv'
  OBVIOUS
<1>1. PathStep /\ UNCHANGED <<worldVars, waking, pos, tick, stateVars, scanVars, aimVars>>
  BY DEF Search
<1>2. PathInv'
  BY <1>1, StepKeeps DEF IndInv
<1>3. start' = start /\ search # "idle" /\ search' # "idle"
  BY <1>1 DEF PathStep, Skip, Expand, Reach, Turn, GiveUp, TraceBack
<1>4. SearchInv' /\ tick = "path"
  BY <1>1, <1>3 DEF IndInv, SearchInv
<1>5. PickInv' /\ MetInv'
  BY <1>1, <1>4 DEF IndInv, PickInv, MetInv, HitsWhoStoodBeside, aimVars
<1>6. TypeOK'
  BY <1>1, <1>2 DEF IndInv, TypeOK, PathInv, worldVars, stateVars, scanVars, aimVars
<1>7. QED BY <1>2, <1>4, <1>5, <1>6 DEF IndInv

LEMMA MoveMonsterKeeps == IndInv /\ MoveMonster => IndInv'
<1> SUFFICES ASSUME IndInv, MoveMonster PROVE IndInv'
  OBVIOUS
<1>1. /\ tick = "path" /\ tick' = "idle" /\ search = "done" /\ Forget
      /\ pos' = pos \/ (path # <<>> /\ pos' = path[1])
      /\ stuck' \in BOOLEAN
      /\ seen' = Spawn /\ side' = 1 /\ picked' = 0 /\ met' = {}
      /\ UNCHANGED <<worldVars, waking, target, active, ready, scanVars, victims>>
  BY DEF MoveMonster, NextTile, IndInv, TypeOK
<1>2. pos' \in Walkable
  BY <1>1 DEF IndInv, TypeOK, PathTypeOK
<1>3. PathInv'
  BY <1>1, ForgetKeeps DEF IndInv
<1>4. SearchInv'
  BY <1>1 DEF SearchInv, Forget
<1>5. PickInv' /\ MetInv'
  BY <1>1 DEF IndInv, PickInv, MetInv, HitsWhoStoodBeside
<1>6. TypeOK'
  BY <1>1, <1>2, <1>3, PursuitAssumption
     DEF IndInv, TypeOK, PathInv, worldVars, scanVars, Walkable
<1>7. QED BY <1>3, <1>4, <1>5, <1>6 DEF IndInv

(* Every step is a player's, the search's, the last of a tick, or quiet.   *)
LEMMA StepKinds ==
  ASSUME Next
  PROVE  \/ \E p \in Players : PlayerAct(p)
         \/ \E p : QuietTick(p) \/ CooledDown
         \/ ChooseGoal \/ Search \/ MoveMonster
BY DEF Next, AITick, QuietTick

LEMMA IndStep == IndInv /\ [Next]_vars => IndInv'
<1>1. ASSUME IndInv, UNCHANGED vars PROVE IndInv'
  <2>1. UNCHANGED <<pathVars, worldVars, waking, pos, tick, stateVars, scanVars, aimVars>>
    BY <1>1 DEF vars
  <2>2. PathInv' /\ PathTypeOK'
    BY <1>1, <2>1, PathRestsKeeps DEF IndInv
  <2>3. TypeOK'
    BY <1>1, <2>1, <2>2 DEF IndInv, TypeOK, worldVars, stateVars, scanVars, aimVars
  <2>4. SearchInv' /\ PickInv' /\ MetInv'
    BY <1>1, <2>1 DEF IndInv, SearchInv, PickInv, MetInv, HitsWhoStoodBeside, OnTile, Present,
       pathVars, worldVars, scanVars, aimVars
  <2>5. QED BY <2>2, <2>3, <2>4 DEF IndInv
<1>2. QED BY <1>1, StepKinds, PlayersKeep, TickKeeps, ChooseGoalKeeps, SearchKeeps, MoveMonsterKeeps

LEMMA Always == Spec => []IndInv
BY IndInit, IndStep, PTL DEF Spec

-----------------------------------------------------------------------------
(* AITick and the players' handlers keep every variable's type; FindPath   *)
(* is only ever asked for tiles of the map.                                *)
THEOREM TypeCorrect == Spec => []TypeOK
BY Always, PTL DEF IndInv

(* Whoever the monster hits stood beside it after the tick began to look   *)
(* around, however many players come, go, die and come back while it reads *)
(* one tile after another.                                                 *)
THEOREM HitsWhoStoodBesideAlways == Spec => []HitsWhoStoodBeside
BY Always, PTL DEF IndInv, MetInv

(* What FindPath returns to a monster is a walk from the tile it stands on *)
(* to the one it chose.                                                    *)
THEOREM WalksInTheWorld == Spec => [](PathIsWalk /\ (Found => start = pos))
<1>1. IndInv => PathIsWalk /\ (Found => start = pos)
  BY PathInvIsWalk DEF IndInv, SearchInv, Found
<1>2. QED BY Always, <1>1, PTL

(* What is shortest for FindPath alone is so for a monster in the world.   *)
LEMMA BestAlways == Spec => []BestInv
<1>1. Init => BestInv
  BY BestInit DEF Init, PathInit
<1>2. IndInv /\ BestInv /\ [Next]_vars => BestInv'
  <2> SUFFICES ASSUME IndInv, BestInv, [Next]_vars PROVE BestInv'
    OBVIOUS
  <2>1. CASE ChooseGoal
    BY <2>1, GoalIsTile, BestCall DEF ChooseGoal, IndInv, TypeOK
  <2>2. CASE Search
    BY <2>2, BestStep DEF Search, IndInv
  <2>3. CASE MoveMonster
    BY <2>3, BestForget DEF MoveMonster
  <2>4. CASE UNCHANGED pathVars
    BY <2>4, BestStutter
  <2>5. UNCHANGED vars => UNCHANGED pathVars
    BY DEF vars
  <2>6. QED BY <2>1, <2>2, <2>3, <2>4, <2>5, StepKinds, PlayerLeavesPath, QuietTickRests
<1>3. QED BY Always, <1>1, <1>2, PTL DEF Spec

(* What a monster walks is a shortest path to the tile it chose: the       *)
(* search runs on a map nobody changes, and its caller reads the result    *)
(* before anything else is searched for.                                   *)
THEOREM ShortestInTheWorld == Spec => []ShortestOrNone
<1>1. IndInv /\ BestInv => ShortestOrNone
  BY BestIsShortest DEF IndInv
<1>2. QED BY Always, BestAlways, <1>1, PTL

\* Only these move the monster.
LEMMA WhoMoves == Next /\ pos' # pos => RoamingMove \/ MoveMonster
<1> SUFFICES ASSUME Next, pos' # pos, ~RoamingMove, ~MoveMonster PROVE FALSE
  OBVIOUS
<1>1. CASE \E p \in Players : PlayerAct(p)
  BY <1>1, PlayerLeavesPath
<1>2. CASE CooledDown \/ ChooseGoal \/ Search
  BY <1>2 DEF CooledDown, ChooseGoal, Search
<1>3. ASSUME NEW p, QuietTick(p) PROVE FALSE
  BY <1>3 DEF QuietTick, AITimerFires, SeesNobody, Deactivate, NoTarget, Measures, SetTarget, Sees,
     Passes, PassesOver, Considers, ClearTarget, HasTarget, OutOfRange, SeeTarget, GetOccupant,
     NoOccupant, CollectVictim, Beside, Waits, Attack, OnAttackPerformed, NobodyBeside,
     ConsiderSide, stateVars
<1>4. QED BY <1>1, <1>2, <1>3, StepKinds

(* Each step of a chase brings the monster one step nearer to the tile it  *)
(* has chosen, around any walls.  The tile is free when it is read; the    *)
(* players go on moving until the step is taken, and may have it by then.  *)
THEOREM GainsOnTargetAlways == Spec => GainsOnTarget
<1> DEFINE Gains == tick = "path" /\ pos' # pos =>
                      /\ Adjacent(pos, pos')
                      /\ goal \notin Within(pos)[Len(path) - 1]
                      /\ goal \in Within(pos')[Len(path) - 1]
<1>1. IndInv /\ BestInv /\ [Next]_vars => [Gains]_vars
  <2> SUFFICES ASSUME IndInv, BestInv, Next, tick = "path", pos' # pos PROVE Gains
    BY DEF vars
  <2>1. MoveMonster
    BY WhoMoves DEF RoamingMove, Ends, Step
  <2>2. pos' = path[1] /\ path # <<>> /\ Found /\ start = pos /\ search = "done"
    BY <2>1 DEF MoveMonster, NextTile, Found, IndInv, SearchInv
  <2>3. /\ IsWalk(start, path) /\ path \in Seq(Walkable) /\ path[Len(path)] = goal
    BY <2>2 DEF IndInv, PathInv, PathTypeOK, LeadsFrom
  <2>4. Adjacent(pos, pos')
    BY <2>2, <2>3 DEF IsWalk
  <2>5. goal \in Within(pos')[Len(path) - 1]
    BY <2>2, <2>3, WalkWithin
  <2>6. goal \notin Within(pos)[Len(path) - 1]
    <3>1. start # goal
      BY <2>2 DEF BestInv, ResultInv
    <3>2. QED BY <2>2, <3>1, BestIsShortest DEF IndInv, ShortestOrNone
  <2>7. QED BY <2>4, <2>5, <2>6
<1>2. QED BY Always, BestAlways, <1>1, PTL DEF Spec, GainsOnTarget

(* MoveMonster and RoamingMove take the monster to a walkable tile beside  *)
(* it, and to none that a player has taken by then: players come, go and   *)
(* move between the choice of the goal and the step.                       *)
THEOREM StepsBeside ==
  Spec => [][pos' # pos => /\ Adjacent(pos, pos') /\ pos' \in Walkable
                           /\ \A p \in Players : OnTile(p) => at[p] # pos']_vars
<1> DEFINE Steps == pos' # pos => /\ Adjacent(pos, pos') /\ pos' \in Walkable
                                    /\ \A p \in Players : OnTile(p) => at[p] # pos'
<1>1. IndInv /\ [Next]_vars => [Steps]_vars
  <2> SUFFICES ASSUME IndInv, Next, pos' # pos PROVE Steps
    BY DEF vars
  <2>1. CASE RoamingMove
    BY <2>1 DEF RoamingMove, Around, Occupied
  <2>2. CASE MoveMonster
    <3>1. pos' = path[1] /\ Found /\ start = pos /\ ~Occupied(pos')
      BY <2>2 DEF MoveMonster, NextTile, Found, IndInv, SearchInv
    <3>2. IsWalk(start, path) /\ path \in Seq(Walkable) /\ path # <<>>
      BY <3>1 DEF IndInv, PathInv, PathTypeOK, LeadsFrom, Found
    <3>3. Adjacent(pos, pos') /\ pos' \in Walkable
      BY <3>1, <3>2 DEF IsWalk
    <3>4. QED BY <3>1, <3>3 DEF Occupied
  <2>3. QED BY <2>1, <2>2, WhoMoves
<1>2. QED BY Always, <1>1, PTL DEF Spec

(* Chasing or roaming, no monster leaves its ROAMING_RANGE.                *)
THEOREM StaysInRangeAlways == Spec => []StaysInRange
<1>1. Init => StaysInRange
  <2>1. \A t \in Tiles : t[1] \in Int /\ t[2] \in Int
    BY PathAssumption DEF Tiles
  <2>2. QED BY <2>1, PursuitAssumption
        DEF Init, StaysInRange, InRoamingRange, Chebyshev, Max, Abs, Walkable
<1>2. StaysInRange /\ [Next]_vars => StaysInRange'
  <2> SUFFICES ASSUME StaysInRange, Next, pos' # pos PROVE StaysInRange'
    BY DEF vars, StaysInRange, InRoamingRange
  <2>1. RoamingMove \/ MoveMonster
    BY WhoMoves
  <2>2. InRoamingRange(pos')
    BY <2>1 DEF RoamingMove, MoveMonster
  <2>3. QED BY <2>2 DEF StaysInRange, InRoamingRange
<1>3. QED BY <1>1, <1>2, PTL DEF Spec
=============================================================================
