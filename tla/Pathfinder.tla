----------------------------- MODULE Pathfinder -----------------------------
(***************************************************************************)
(* Pathfinder::FindPath (Server/Game/Pathfinder.cpp): A* over the four     *)
(* neighbours of a tile with the Manhattan distance, cut off after         *)
(* maxNodes expanded tiles.  One turn of its loop is one action, one step  *)
(* of the way back through the parents another.                            *)
(*                                                                         *)
(* A tile is expanded once, so the parent of a node (an index into m_nodes *)
(* in the code) is a tile here, and the closed set is the domain of node.  *)
(* The order in which the heap returns equal nodes is left open.           *)
(***************************************************************************)
EXTENDS Integers, Sequences

CONSTANTS
    Cols, Rows,     \* MAP_WIDTH, MAP_HEIGHT
    Walls,          \* obstacles
    MaxNodes        \* maxNodes (25)

Tiles == (0 .. Cols - 1) \X (0 .. Rows - 1)

ASSUME PathAssumption ==
    /\ Cols \in Nat \ {0} /\ Rows \in Nat \ {0}
    /\ Walls \subseteq Tiles
    /\ MaxNodes \in Nat

Abs(n) == IF n < 0 THEN -n ELSE n
Manhattan(a, b) == Abs(a[1] - b[1]) + Abs(a[2] - b[2])
Walkable == Tiles \ Walls
Adjacent(a, b) == Manhattan(a, b) = 1
Around(t) == {u \in Walkable : Adjacent(t, u)}

VARIABLES
    search,         \* where FindPath stands
    start, goal,    \* its arguments
    open,           \* the priority queue
    node,           \* m_nodes by tile: cost from the start, and parent
    processed,      \* nodesProcessed
    back,           \* idx of the way back
    path            \* result

pathVars == <<search, start, goal, open, node, processed, back, path>>

None == [t \in {} |-> t]

PathInit ==
    /\ search = "idle"
    /\ start \in Walkable /\ goal = start /\ back = start
    /\ open = {} /\ node = None /\ processed = 0 /\ path = <<>>

-----------------------------------------------------------------------------
\* The call: a goal that is no tile to stand on, or is the start, has no path.
FindPath(from, to) ==
    /\ search = "idle"
    /\ start' = from /\ goal' = to /\ back' = to
    /\ node' = None /\ processed' = 0 /\ path' = <<>>
    /\ IF to \notin Walkable \/ to = from
       THEN search' = "done" /\ open' = {}
       ELSE search' = "loop" /\ open' = {[at |-> from, g |-> 0, parent |-> from]}

F(n) == n.g + Manhattan(n.at, goal)

\* Mutant: the comparison is the wrong way round.
TopLast(n) ==
    /\ n \in open
    /\ \A m \in open : F(n) > F(m) \/ (F(n) = F(m) /\ n.g <= m.g)

\* What top() may return: the smallest f, then the largest g.
Top(n) ==
    /\ n \in open
    /\ \A m \in open : F(n) < F(m) \/ (F(n) = F(m) /\ n.g >= m.g)

Turn(n) == search = "loop" /\ processed < MaxNodes /\ Top(n)

\* Visited before, by a path that was no longer.
Skip(n) ==
    /\ Turn(n) /\ n.at \in DOMAIN node
    /\ open' = open \ {n}
    /\ UNCHANGED <<search, start, goal, node, processed, back, path>>

Close(n) ==
    node' = [t \in DOMAIN node \cup {n.at} |->
                IF t = n.at THEN [g |-> n.g, parent |-> n.parent] ELSE node[t]]

\* The neighbours that are walkable and not closed.
QueueNeighbours(n) ==
    (open \ {n}) \cup {[at |-> u, g |-> n.g + 1, parent |-> n.at] :
                        u \in Around(n.at) \ (DOMAIN node \cup {n.at})}

Expand(n) ==
    /\ Turn(n) /\ n.at \notin DOMAIN node /\ n.at # goal
    /\ Close(n)
    /\ open' = QueueNeighbours(n)
    /\ processed' = processed + 1
    /\ UNCHANGED <<search, start, goal, back, path>>

Reach(n) ==
    /\ Turn(n) /\ n.at \notin DOMAIN node /\ n.at = goal
    /\ Close(n)
    /\ search' = "back"
    /\ open' = open \ {n}
    /\ UNCHANGED <<start, goal, processed, back, path>>

\* The queue is empty or maxNodes tiles have been expanded: no path.
GiveUp ==
    /\ search = "loop" /\ (open = {} \/ processed >= MaxNodes)
    /\ search' = "done"
    /\ UNCHANGED <<start, goal, open, node, processed, back, path>>

\* Back through the parents, up to the start, which is not part of the path.
TraceBack ==
    /\ search = "back"
    /\ IF back = start
       THEN search' = "done" /\ UNCHANGED <<back, path>>
       ELSE /\ path' = <<back>> \o path
            /\ back' = node[back].parent
            /\ UNCHANGED search
    /\ UNCHANGED <<start, goal, open, node, processed>>

\* The caller has looked at the path.
Forget ==
    /\ search' = "idle"
    /\ back' = start /\ goal' = start
    /\ open' = {} /\ node' = None /\ processed' = 0 /\ path' = <<>>
    /\ UNCHANGED start

PathStep ==
    \/ \E n \in open : Skip(n) \/ Expand(n) \/ Reach(n)
    \/ GiveUp \/ TraceBack

\* FindPath on its own, for any caller.
PathNext ==
    \/ \E from \in Walkable, to \in Tiles : FindPath(from, to)
    \/ PathStep
    \/ search = "done" /\ Forget

PathSpec == PathInit /\ [][PathNext]_pathVars /\ WF_pathVars(PathStep)

-----------------------------------------------------------------------------
Nodes == [at : Walkable, g : Nat, parent : Walkable]

PathTypeOK ==
    /\ search \in {"idle", "loop", "back", "done"}
    /\ start \in Walkable /\ goal \in Tiles /\ back \in Tiles
    /\ open \subseteq Nodes
    /\ DOMAIN node \subseteq Walkable
    /\ \A t \in DOMAIN node : node[t] \in [g : Nat, parent : Walkable]
    /\ processed \in 0 .. MaxNodes
    /\ path \in Seq(Walkable)

Found == search = "done" /\ path # <<>>

\* p is a walk from a: each of its tiles is next to the one before.
IsWalk(a, p) ==
    /\ Adjacent(a, p[1])
    /\ \A i \in 1 .. Len(p) - 1 : Adjacent(p[i], p[i + 1])

(* The path that is returned is a walk on walkable tiles from the start to *)
(* the goal: what the parents lead back through hangs together.            *)
PathIsWalk ==
    Found => /\ IsWalk(start, path)
             /\ path[Len(path)] = goal
             /\ \A i \in 1 .. Len(path) : path[i] \in Walkable

\* The reference: the tiles within n steps of a.
Within(a) ==
    LET W[n \in Nat] ==
            IF n = 0 THEN {a} ELSE LET V == W[n - 1] IN V \cup UNION {Around(t) : t \in V}
    IN  W

(* The path is such a walk and there is no shorter one: closing a tile     *)
(* when it is first taken from the heap is right, because the heap's order *)
(* never has to be corrected.  And none is returned only if there is none, *)
(* or after maxNodes tiles.                                                *)
ShortestOrNone ==
    /\ PathIsWalk
    /\ search = "done" /\ start # goal =>
          IF path # <<>>
          THEN /\ goal \in Within(start)[Len(path)]
               /\ goal \notin Within(start)[Len(path) - 1]
          ELSE \/ goal \notin Walkable
               \/ goal \notin Within(start)[Cols * Rows]
               \/ processed = MaxNodes
=============================================================================
