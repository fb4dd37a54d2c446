------------------------------- MODULE ThetaStar -------------------------------
(***************************************************************************)
(* The search of the global planner (theta_star.cpp), one call of          *)
(* getPlan on one costmap: start and goal are moved out of obstacles, then *)
(* cells are taken from a priority queue, each is given its parent's       *)
(* parent where that is in line of sight, and its neighbours are relaxed   *)
(* one by one.  Keys are lowered while their cells lie in the queue, which *)
(* does not notice.  Costs of cells are four classes, lengths are integers *)
(* given by a table.                                                       *)
(***************************************************************************)
EXTENDS Integers, FiniteSets, BinaryHeap

CONSTANTS
  SizeX, SizeY,      \* cells of the costmap
  Maps,              \* the costmaps to plan on
  Starts, Goals,     \* cells of the start and of the goal pose
  Areas,             \* conditional forbidden areas, as sets of cells
  AllowUnknown,      \* allow_unknown_
  Corners,           \* how_many_corners_, 4 or 8
  MaxRadius,         \* radius in which start and goal are moved
  Length,            \* w_euc_cost_ times the length of <<dx, dy>>, and w_heuristic_cost_ times it
                     \* (the two weights are equal up to a w_euc_cost_ of one, which is set)
  Traversal          \* w_traversal_cost_ times the squared cost of a class

Classes == {"free", "high", "unknown", "lethal"}
Cells == (0 .. SizeX - 1) \X (0 .. SizeY - 1)

ASSUME SizeAssumption == SizeX \in Nat \ {0} /\ SizeY \in Nat \ {0}
ASSUME MapAssumption == Maps \subseteq [Cells -> Classes]
ASSUME PoseAssumption == Starts \subseteq Cells /\ Goals \subseteq Cells
ASSUME AreaAssumption == \A a \in Areas : a \subseteq Cells
ASSUME ParameterAssumption == AllowUnknown \in BOOLEAN /\ Corners \in {4, 8} /\ MaxRadius \in Nat
ASSUME LengthAssumption ==
  /\ Length \in [(0 .. SizeX) \X (0 .. SizeY) -> Nat]
  /\ \A d \in DOMAIN Length : d # <<0, 0>> => Length[d] > 0
ASSUME TraversalAssumption == Traversal \in [Classes -> Nat]

VARIABLES
  costmap,   \* the costmap, locked for the whole plan
  src, dst,  \* src_ and dst_
  allowed,   \* areas the start or the goal pose lies in
  pc,        \* where the call is
  opened,    \* cells with a node
  g,         \* cost of a node; its f is g plus the distance to dst
  parent,    \* parent_id
  queue,     \* queue_
  curr,      \* curr_data
  turn       \* the neighbour of curr to relax next

plan == <<costmap, src, dst, allowed>>
search == <<opened, g, parent, queue, curr, turn>>
vars == <<plan, pc, search>>

-----------------------------------------------------------------------------
(* Which cells may be used. *)

Abs(n) == IF n < 0 THEN -n ELSE n
Around(c, r) == (c[1] - r .. c[1] + r) \X (c[2] - r .. c[2] + r)

Obstacle(c) == costmap[c] = "lethal" \/ (costmap[c] = "unknown" /\ ~AllowUnknown)

(* hasObstacleAround: the outside counts as an obstacle. *)
HasObstacleAround(c) == \E d \in Around(c, 1) : d \notin Cells \/ Obstacle(d)

(* isConditionalAreaBlockedCell *)
InForbiddenArea(c) == \E a \in Areas \ allowed : c \in a

IsSafe(c) == ~HasObstacleAround(c) /\ ~InForbiddenArea(c)

-----------------------------------------------------------------------------
(* losCheck walks from p to q along the longer axis.  It checks the cells  *)
(* of the line that joins the lower corners of p and q.  A line along an   *)
(* axis runs between two rows of cells, and one safe side is enough.       *)

Dx(p, q) == Abs(q[1] - p[1])
Dy(p, q) == Abs(q[2] - p[2])
Steep(p, q) == Dx(p, q) < Dy(p, q)
Longer(p, q) == IF Steep(p, q) THEN Dy(p, q) ELSE Dx(p, q)
Shorter(p, q) == IF Steep(p, q) THEN Dx(p, q) ELSE Dy(p, q)
Sign(a, b) == IF b > a THEN 1 ELSE -1
Lower(a, b) == IF b > a THEN 0 ELSE -1

(* The cell checked after i steps along the longer axis, j along the other. *)
Passed(p, q, i, j) ==
  LET nx == IF Steep(p, q) THEN j ELSE i
      ny == IF Steep(p, q) THEN i ELSE j
  IN  << p[1] + nx * Sign(p[1], q[1]) + Lower(p[1], q[1]),
         p[2] + ny * Sign(p[2], q[2]) + Lower(p[2], q[2]) >>

(* Step i of a slanted line checks the row it leaves, and the row it is in *)
(* then unless it is on a corner. *)
Rows(p, q, i) ==
  LET n == Longer(p, q)
      m == Shorter(p, q)
  IN  {j \in 0 .. m : \/ j = (i * m) \div n /\ ((i * m) % n) + m >= n
                      \/ j = ((i + 1) * m) \div n /\ ((i + 1) * m) % n # 0}

(* The two sides of step i of a line along an axis. *)
OneSide(p, q, i) ==
  IF Steep(p, q) THEN <<p[1], Passed(p, q, i, 0)[2]>> ELSE <<Passed(p, q, i, 0)[1], p[2]>>
OtherSide(p, q, i) ==
  LET c == OneSide(p, q, i)
  IN  IF Steep(p, q) THEN <<c[1] - 1, c[2]>> ELSE <<c[1], c[2] - 1>>

(* A mutant: the walk is as long as the shorter axis. *)
LineOfSight_Swapped(p, q) ==
  \A i \in 0 .. Shorter(p, q) - 1 :
    \A j \in Rows(p, q, i) : IsSafe(Passed(p, q, i, j))

LineOfSight(p, q) ==
  \A i \in 0 .. Longer(p, q) - 1 :
    /\ \A j \in Rows(p, q, i) : IsSafe(Passed(p, q, i, j))
    /\ Shorter(p, q) = 0 => IsSafe(OneSide(p, q, i)) \/ IsSafe(OtherSide(p, q, i))

(* losCheck adds up the costs of the cells it checks on a clear line; of   *)
(* the two sides of a line along an axis, that of the first safe one. *)
Seen(p, q) ==
  {s \in (0 .. Longer(p, q) - 1) \X (0 .. Shorter(p, q)) :
     Shorter(p, q) = 0 \/ s[2] \in Rows(p, q, s[1])}

SeenClass(p, q, i, j) ==
  costmap[IF Shorter(p, q) # 0 THEN Passed(p, q, i, j)
          ELSE IF IsSafe(OneSide(p, q, i)) THEN OneSide(p, q, i) ELSE OtherSide(p, q, i)]

SightCost(p, q) ==
  LET of(k) == Traversal[k] * Cardinality({s \in Seen(p, q) : SeenClass(p, q, s[1], s[2]) = k})
  IN  of("free") + of("high") + of("unknown")

-----------------------------------------------------------------------------
Distance(p, q) == Length[<<Dx(p, q), Dy(p, q)>>]

(* setStartAndGoal; a pose lies in an area only if its cell does. *)
Init ==
  /\ costmap \in Maps
  /\ src \in Starts
  /\ dst \in Goals
  /\ src # dst
  /\ allowed \in SUBSET {a \in Areas : src \in a \/ dst \in a}
  /\ pc = "plan"
  /\ opened = {} /\ queue = << >> /\ turn = 1
  /\ g = [c \in Cells |-> 0]
  /\ parent = [c \in Cells |-> c]
  /\ curr = src

TypeOK ==
  /\ costmap \in [Cells -> Classes]
  /\ src \in Cells /\ dst \in Cells /\ curr \in Cells
  /\ allowed \subseteq Areas
  /\ pc \in {"plan", "ready", "search", "relax", "found", "failed"}
  /\ opened \subseteq Cells /\ queue \in Seq(opened)
  /\ turn \in 1 .. Corners + 1
  /\ g \in [Cells -> Nat]
  /\ parent \in [Cells -> Cells]

(* findNearestFreeCell: ring by ring, the nearest of the first ring with a *)
(* safe cell. *)
Ring(c, r) == {d \in Around(c, r) \cap Cells : (Dx(c, d) = r \/ Dy(c, d) = r) /\ IsSafe(d)}
DistanceSq(c, d) == Dx(c, d) * Dx(c, d) + Dy(c, d) * Dy(c, d)

NearestFree(c) ==
  IF IsSafe(c) THEN {c}
  ELSE {d \in Cells : \E r \in 1 .. MaxRadius :
          /\ d \in Ring(c, r)
          /\ \A k \in 1 .. r - 1 : Ring(c, k) = {}
          /\ \A e \in Ring(c, r) : DistanceSq(c, d) <= DistanceSq(c, e)}

(* getPlan: start and goal are moved to free cells, or the plan fails.      *)
(* Which of several nearest cells is taken does not matter here. *)
MoveStartAndGoal ==
  /\ pc = "plan"
  /\ IF NearestFree(src) = {} \/ NearestFree(dst) = {}
     THEN pc' = "failed" /\ UNCHANGED <<src, dst>>
     ELSE /\ pc' = "ready"
          /\ src' \in NearestFree(src)
          /\ dst' \in NearestFree(dst)
  /\ UNCHANGED <<costmap, allowed, search>>

(* generatePath before its loop: src is expanded at once and stays in the   *)
(* queue as well. *)
Begin ==
  /\ pc = "ready"
  /\ pc' = "search"
  /\ opened' = {src}
  /\ queue' = <<src>>
  /\ g' = [g EXCEPT ![src] = Traversal[costmap[src]]]
  /\ parent' = [parent EXCEPT ![src] = src]
  /\ curr' = src
  /\ UNCHANGED <<plan, turn>>

(* resetParent: the node at hand is given its parent's parent, if that      *)
(* makes it cheaper. *)
Grandparent == parent[parent[curr]]
ViaGrandparent == g[Grandparent] + Distance(curr, Grandparent) + SightCost(curr, Grandparent)

Shortens == ViaGrandparent < g[curr]
SkipsParent == LineOfSight(curr, Grandparent) /\ Shortens

CurrParent == IF SkipsParent THEN Grandparent ELSE parent[curr]
CurrCost == IF SkipsParent THEN ViaGrandparent ELSE g[curr]

ResetParent ==
  /\ pc = "search"
  /\ queue # << >>
  /\ curr # dst
  /\ pc' = "relax"
  /\ turn' = 1
  /\ g' = [g EXCEPT ![curr] = CurrCost]
  /\ parent' = [parent EXCEPT ![curr] = CurrParent]
  /\ UNCHANGED <<plan, opened, queue, curr>>

(* setNeighbors; the four moves along the axes come first. *)
Moves == << <<0, 1>>, <<0, -1>>, <<1, 0>>, <<-1, 0>>, <<1, -1>>, <<-1, 1>>, <<1, 1>>, <<-1, -1>> >>
Moved(c, i) == <<c[1] + Moves[i][1], c[2] + Moves[i][2]>>
Neighbors(c) == {d \in {Moved(c, i) : i \in 1 .. Corners} : d \in Cells /\ IsSafe(d)}

(* A mutant: a node is relaxed again although it was reached more cheaply. *)
Improves_Always(c, cost) == TRUE

Improves(c, cost) == c \notin opened \/ cost < g[c]

Via(c) == g[curr] + Distance(curr, c) + Traversal[costmap[c]]

(* A turn of the loop of setNeighbors. *)
SetNeighbor ==
  /\ pc = "relax"
  /\ turn <= Corners
  /\ turn' = turn + 1
  /\ \E c \in {Moved(curr, turn)} :
       IF c \in Neighbors(curr) /\ Improves(c, Via(c))
       THEN /\ opened' = opened \cup {c}
            /\ g' = [g EXCEPT ![c] = Via(c)]
            /\ parent' = [parent EXCEPT ![c] = curr]
            /\ queue' = IF \E i \in DOMAIN queue : queue[i] = c THEN queue
                        ELSE Push(queue, c, [d \in Cells |-> g'[d] + Distance(d, dst)])
       ELSE UNCHANGED <<opened, g, parent, queue>>
  /\ UNCHANGED <<plan, pc, curr>>

(* The node on top of the queue is the next one. *)
TakeNext ==
  /\ pc = "relax"
  /\ turn > Corners
  /\ pc' = "search"
  /\ curr' = queue[1]
  /\ queue' = Pop(queue, [d \in Cells |-> g[d] + Distance(d, dst)])
  /\ UNCHANGED <<plan, opened, g, parent, turn>>

(* The loop ends at the goal, or when the queue has become empty - also if  *)
(* the node taken last is the goal or has neighbours left. *)
Finish ==
  /\ pc = "search"
  /\ queue = << >> \/ curr = dst
  /\ pc' = IF queue = << >> THEN "failed" ELSE "found"
  /\ UNCHANGED <<plan, search>>

Next == MoveStartAndGoal \/ Begin \/ ResetParent \/ SetNeighbor \/ TakeNext \/ Finish

Spec == Init /\ [][Next]_vars

(* backtrace: the nodes from the goal to the start. *)
Trace ==
  LET up[n \in 0 .. Cardinality(opened)] ==
        IF n = 0 THEN {curr} ELSE LET S == up[n - 1] IN S \cup {parent[c] : c \in S}
  IN  up[Cardinality(opened)]

-----------------------------------------------------------------------------
(* Every node leads back to the start by nodes that cost less, however     *)
(* costs and parents are revised behind the queue's back: backtrace ends,  *)
(* and ends at the start. *)
LinksDescend ==
  pc \in {"search", "relax", "found"} =>
    /\ parent[src] = src
    /\ \A c \in opened \ {src} : parent[c] \in opened /\ g[parent[c]] < g[c]

(* The cells beside the straight line between the centres of p and q, and  *)
(* twice the distance of a cell's centre from it, times its length. *)
Beside(p, q) ==
  LET within(a, u, v) == (a >= u /\ a <= v) \/ (a >= v /\ a <= u)
  IN  {c \in Cells : within(c[1], p[1], q[1]) /\ within(c[2], p[2], q[2])}

Offset(p, q, c) ==
  2 * Abs((q[1] - p[1]) * (c[2] - p[2]) - (q[2] - p[2]) * (c[1] - p[1]))

(* The cells the line touches, and those it runs through. *)
Touched(p, q) == {c \in Beside(p, q) : Offset(p, q, c) <= Dx(p, q) + Dy(p, q)}
Entered(p, q) == {c \in Beside(p, q) : Offset(p, q, c) < Dx(p, q) + Dy(p, q)}

(* No cell on the lines of a path is an obstacle, although the line of     *)
(* sight is checked half a cell beside the line the robot follows, and on  *)
(* one side only along an axis: the clearance of the checked cells makes   *)
(* up for it.                                                              *)
PathIsClear ==
  pc = "found" => \A c \in Trace : \A t \in Touched(c, parent[c]) : ~Obstacle(t)

(* docs/technical_document.md:174: an area in which neither start nor goal *)
(* lies is impassable for the search.                                      *)
PathAvoidsAreas ==
  pc = "found" => \A c \in Trace : \A t \in Entered(c, parent[c]) : ~InForbiddenArea(t)
=============================================================================
