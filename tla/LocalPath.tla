------------------------------ MODULE LocalPath ------------------------------
(***************************************************************************)
(* What the controller makes of the global plan in every cycle             *)
(* (omni_pid_pursuit_controller.cpp): the plan is cut off behind the       *)
(* robot and beyond the local costmap, and corners are left out where the  *)
(* way past them is free.  The straight way to the end of that path may be *)
(* driven directly.                                                        *)
(*                                                                         *)
(* A pose is a cell and the axes of all frames agree, as those of odom and *)
(* of fake_base_link do; distances are hundredths of a cell, rounded down. *)
(***************************************************************************)
EXTENDS Integers, Sequences, SequencesExt

CONSTANTS
  SizeX, SizeY,          \* cells in which plans lie
  Plans,                 \* global plans
  Costmaps,              \* local costmaps, functions from the cells
  SearchDist,            \* max_robot_pose_search_dist_
  Extent,                \* getCostmapMaxExtent
  max_skip_distance,
  LookaheadDist          \* lookahead distance, hundredths of a cell

Costs == {"free", "high", "lethal", "unknown"}
Cells == (0 .. SizeX - 1) \X (0 .. SizeY - 1)

PlanAssumption == Plans \subseteq Seq(Cells) /\ Costmaps \subseteq [Cells -> Costs]
DistanceAssumption ==
  {SizeX, SizeY, SearchDist, Extent, max_skip_distance, LookaheadDist} \subseteq Nat

VARIABLES
  global_plan_,
  seen,        \* what the last cycle saw: the cell of the robot, the local costmap, and
               \* whether the plan's frame can be transformed into the costmap's
  segment,     \* the piece of the plan the last cycle worked on
  local,       \* transformed_plan of the last cycle, in cells of the plan
  carrot,      \* the lookahead point
  direct       \* isDirectPathSafeToTarget, of the end of the local path

vars == <<global_plan_, seen, segment, local, carrot, direct>>

-----------------------------------------------------------------------------
Abs(n) == IF n < 0 THEN -n ELSE n
Sign(n) == IF n > 0 THEN 1 ELSE -1

(* Lengths, once for all differences. *)
Lengths == [d \in (0 .. SizeX) \X (0 .. SizeY) |->
               CHOOSE n \in 0 .. 100 * (d[1] + d[2]) :
                 LET sq == 10000 * (d[1] * d[1] + d[2] * d[2])
                 IN  n * n <= sq /\ sq < (n + 1) * (n + 1)]
Dist(a, b) == Lengths[<<Abs(a[1] - b[1]), Abs(a[2] - b[2])>>]

(* The cells of checkLineCollisionWithThreshold between two cells. *)
Line(a, b) ==
  LET dx == Abs(b[1] - a[1])
      dy == Abs(b[2] - a[2])
      Step(s) ==
        LET e2 == 2 * s.err
        IN  [x |-> s.x + IF e2 > -dy THEN Sign(b[1] - a[1]) ELSE 0,
             y |-> s.y + IF e2 < dx THEN Sign(b[2] - a[2]) ELSE 0,
             err |-> s.err - (IF e2 > -dy THEN dy ELSE 0) + (IF e2 < dx THEN dx ELSE 0)]
      at[n \in 0 .. (IF dx > dy THEN dx ELSE dy)] ==
        IF n = 0 THEN [x |-> a[1], y |-> a[2], err |-> dx - dy] ELSE LET s == at[n - 1] IN Step(s)
  IN  {<<at[n].x, at[n].y>> : n \in DOMAIN at}

(* Once for all lines. *)
Lines == [l \in Cells \X Cells |-> Line(l[1], l[2])]

(* checkLineCollision: anything but a known cheap cell is in the way. *)
Collides(e, a, b) == ~e.located \/ \E c \in Lines[<<a, b>>] : e.costmap[c] # "free"

-----------------------------------------------------------------------------
(* removeCornerPts *)
(* Infinity; no path is that long. *)
Unaffordable == 1000000
CostOf(e, a, b) == IF Collides(e, a, b) THEN Unaffordable ELSE Dist(a, b)

(* A mutant: the way past the corner is not looked at. *)
LeavesOut_Blind(e, path, s, i) == Dist(s.prev, path[i + 1]) < s.cost1 + CostOf(e, path[i], path[i + 1])

(* May path[i] be left out behind the point prev?  An infinite cost is less than nothing. *)
LeavesOut(e, path, s, i) ==
  /\ ~Collides(e, s.prev, path[i + 1])
  /\ Dist(s.prev, path[i + 1]) < s.cost1 + CostOf(e, path[i], path[i + 1])

Corner(e, path, s, i) ==
  IF Dist(s.prev, path[i + 1]) <= max_skip_distance /\ LeavesOut(e, path, s, i)
  THEN [s EXCEPT !.cost1 = CostOf(e, s.prev, path[i + 1])]
  ELSE [out |-> Append(s.out, path[i]), cost1 |-> Dist(path[i], path[i + 1]), prev |-> path[i]]

RemoveCornerPts(e, path) ==
  LET done[i \in 1 .. Len(path) - 1] ==
        IF i = 1 THEN [out |-> <<path[1]>>, cost1 |-> CostOf(e, path[1], path[2]), prev |-> path[1]]
        ELSE CHOOSE s \in {Corner(e, path, t, i) : t \in {done[i - 1]}} : TRUE
  IN  IF Len(path) < 4 THEN path ELSE Append(done[Len(path) - 1].out, path[Len(path)])

-----------------------------------------------------------------------------
(* transformGlobalPlan *)

(* The poses searched for the nearest one, for every rest of a plan: up to *)
(* a distance along the plan. *)
Rests == UNION {{SubSeq(p, i, Len(p)) : i \in DOMAIN p} : p \in Plans}
Searched ==
  [p \in Rests |->
     LET along[i \in 1 .. Len(p)] == IF i = 1 THEN 0 ELSE along[i - 1] + Dist(p[i - 1], p[i])
     IN  {i \in DOMAIN p : along[i] <= SearchDist}]

Nearest(e, p) ==
  CHOOSE i \in Searched[p] :
    \A j \in Searched[p] :
      \/ Dist(p[i], e.robot) < Dist(p[j], e.robot)
      \/ Dist(p[i], e.robot) = Dist(p[j], e.robot) /\ i <= j

(* The plan from that pose on, up to the first pose outside the costmap. *)
Inside(e, rest) ==
  LET far == {i \in DOMAIN rest : Dist(rest[i], e.robot) > Extent}
  IN  IF far = {} THEN rest ELSE SubSeq(rest, 1, (CHOOSE i \in far : \A j \in far : i <= j) - 1)

(* The robot itself stands on costly ground: corners are kept. *)
InObstacle(e) == e.located /\ e.costmap[e.robot] \in {"lethal", "unknown"}

Cleared(e, seg) ==
  IF ~InObstacle(e) /\ Len(seg) > 2 THEN RemoveCornerPts(e, seg) ELSE seg

(* getLookAheadPoint, without interpolation: the first pose at least that *)
(* far away, else the last one. *)
LookAheadPoint(e, p) ==
  LET far == {i \in DOMAIN p : Dist(p[i], e.robot) >= LookaheadDist}
  IN  p[IF far = {} THEN Len(p) ELSE CHOOSE i \in far : \A j \in far : i <= j]

(* isDirectPathSafeToTarget: up to a higher cost than a local path, and *)
(* without asking for a transform. *)
DirectPathSafe(e, target) == \A c \in Lines[<<e.robot, target>>] : e.costmap[c] \in {"free", "high"}

-----------------------------------------------------------------------------
Init ==
  /\ global_plan_ = <<>>
  /\ seen \in [robot : {p[1] : p \in Plans \ {<<>>}}, costmap : Costmaps, located : BOOLEAN]
  /\ segment = <<>> /\ local = <<>>
  /\ carrot = seen.robot
  /\ direct = FALSE

SetPlan(p) ==
  /\ global_plan_' = p
  /\ UNCHANGED <<seen, segment, local, carrot, direct>>

(* Before the next cycle the robot has moved, or the costmap is a new one; *)
(* of the last cycle only the plan is left. *)
Move(r, m, l) ==
  /\ seen' = [robot |-> r, costmap |-> m, located |-> l]
  /\ segment' = <<>> /\ local' = <<>> /\ direct' = FALSE
  /\ carrot' = r
  /\ UNCHANGED global_plan_

(* One cycle. *)
Cycle ==
  /\ local = <<>>
  /\ global_plan_ # <<>>                     \* an empty plan throws
  /\ global_plan_' = SubSeq(global_plan_, Nearest(seen, global_plan_), Len(global_plan_))
  /\ segment' = Inside(seen, global_plan_')
  /\ segment' # <<>>                         \* so does an empty segment
  /\ local' = Cleared(seen, segment')
  /\ carrot' = LookAheadPoint(seen, local')
  /\ direct' = DirectPathSafe(seen, local'[Len(local')])
  /\ UNCHANGED seen

Near(c) == {r \in Cells : Abs(r[1] - c[1]) <= 1 /\ Abs(r[2] - c[2]) <= 1}

Next ==
  \/ \E p \in Plans : SetPlan(p)
  \/ Cycle
  \/ \E r \in Near(seen.robot), m \in Costmaps, l \in BOOLEAN : Move(r, m, l)

Spec == Init /\ [][Next]_vars

-----------------------------------------------------------------------------
IsEdge(a, b) == \E i \in 1 .. Len(segment) - 1 : segment[i] = a /\ segment[i + 1] = b

(* Every line of the local path is one of the plan or has been found free  *)
(* in the costmap, wherever the robot is and whatever has been left out    *)
(* before: the path of the planner is never replaced by one nobody has     *)
(* looked at. *)
ShortcutsAreFree ==
  \A i \in 1 .. Len(local) - 1 :
    IsEdge(local[i], local[i + 1]) \/ ~Collides(seen, local[i], local[i + 1])
=============================================================================
