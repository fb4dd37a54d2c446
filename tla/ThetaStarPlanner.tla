--------------------------- MODULE ThetaStarPlanner ---------------------------
(***************************************************************************)
(* The global planner from one createPlan to the next: the last path is    *)
(* kept while its goal is almost the same, the robot is near it, it is     *)
(* safe on the present costmap and the new path is not clearly better.     *)
(* Between two plans the costmap and the goal change, the robot follows    *)
(* the path it was given or is pushed off it.                              *)
(*                                                                         *)
(* Poses are cells and poses of a path are neighbours.  The search         *)
(* (ThetaStar) returns any path past the obstacles, also through cells     *)
(* that are not safe, or fails.                                            *)
(***************************************************************************)
EXTENDS Integers, Sequences, FiniteSets

CONSTANTS
  Cells,           \* cells of the costmap, pairs of integers
  Maps,            \* costmaps: the class of every cell: "free", "high" (costly),
                   \* "close" (not safe, but no obstacle) or "lethal"
  Starts, Goals,   \* cells the robot starts in, cells of goal poses
  Paths,           \* the paths a search may find, by their ends
  MaxRadius,       \* radius in which start and goal are moved
  Tolerance,       \* same_goal_tolerance_, squared
  Deviation,       \* max_reuse_path_deviation_, squared: up to one cell
  Ratio,           \* switch_improvement_ratio_, in percent
  DistanceWeight,  \* compare_distance_weight_ of a step
  Traversal,       \* compare_traversal_weight_ times the squared cost of a class
  MaxChanges       \* bound: changes of costmap and goal, and pushes

PlannerAssumption ==
  /\ Cells \subseteq Int \X Int /\ IsFiniteSet(Cells)
  /\ Maps \subseteq [Cells -> {"free", "high", "close", "lethal"}]
  /\ Starts \subseteq Cells /\ Goals \subseteq Cells
  /\ Paths \in [Cells \X Cells -> SUBSET (Seq(Cells) \ {<<>>})]
  /\ \A e \in Cells \X Cells : \A p \in Paths[e] : p[1] = e[1] /\ p[Len(p)] = e[2]
  /\ MaxRadius \in Nat /\ Tolerance \in Nat /\ Deviation \in {0, 1} /\ Ratio \in 0 .. 99
  /\ DistanceWeight \in Nat /\ MaxChanges \in Nat
  /\ Traversal \in [{"free", "high", "close", "lethal"} -> Nat]

VARIABLES
  costmap,
  robot,      \* cell of the robot, the start of the next plan
  goal,       \* cell of the goal pose
  last_path,  \* last_path_; has_last_path_ if it has two poses
  last_goal,  \* last_goal_
  progress,   \* last_progress_index_
  path,       \* the path given to the controller
  reused,     \* reused_last_path of the last plan
  fresh,      \* costmap and goal are those the path was given for
  changes

world == <<costmap, robot, goal, changes>>
memory == <<last_path, last_goal, progress>>
given == <<path, reused, fresh>>
vars == <<world, memory, given>>

TypeOK ==
  /\ costmap \in Maps
  /\ robot \in Cells /\ goal \in Cells /\ last_goal \in Cells
  /\ \A p \in {last_path, path} : \A i \in DOMAIN p : p[i] \in Cells
  /\ progress \in Nat
  /\ last_path # <<>> => progress < Len(last_path)
  /\ reused \in BOOLEAN /\ fresh \in BOOLEAN
  /\ changes \in 0 .. MaxChanges

Init ==
  /\ costmap \in Maps
  /\ robot \in Starts
  /\ goal \in Goals
  /\ last_path = <<>> /\ last_goal = goal /\ progress = 0
  /\ path = <<>> /\ reused = FALSE /\ fresh = FALSE
  /\ changes = 0

-----------------------------------------------------------------------------
IsSafe(c) == costmap[c] \in {"free", "high"}

Abs(n) == IF n < 0 THEN -n ELSE n
Squared(c, d) == (c[1] - d[1]) * (c[1] - d[1]) + (c[2] - d[2]) * (c[2] - d[2])
RingOf(c, d) == IF Abs(c[1] - d[1]) > Abs(c[2] - d[2]) THEN Abs(c[1] - d[1]) ELSE Abs(c[2] - d[2])

(* findNearestFreeCell: of the first ring with a safe cell the nearest, of  *)
(* several the first by dx, then dy.  None: the empty set. *)
Nearer(c, d, e) ==
  \/ RingOf(c, d) < RingOf(c, e)
  \/ RingOf(c, d) = RingOf(c, e) /\ Squared(c, d) < Squared(c, e)
  \/ /\ RingOf(c, d) = RingOf(c, e) /\ Squared(c, d) = Squared(c, e)
     /\ d[1] < e[1] \/ (d[1] = e[1] /\ d[2] <= e[2])

FreeCell(c) ==
  LET free == {d \in Cells : IsSafe(d) /\ RingOf(c, d) <= MaxRadius}
  IN  IF IsSafe(c) THEN {c} ELSE {d \in free : \A e \in free : Nearer(c, d, e)}

(* getPlan between the free cells next to start and goal: the lines of a    *)
(* path found meet no obstacle (ThetaStar's PathIsClear), but along an axis *)
(* one safe side is enough, so poses between their ends need not be safe.   *)
(* The search fails without a path, and also when its queue has run empty   *)
(* although there is one. *)
FoundPaths ==
  UNION {{p \in Paths[e] : \A i \in DOMAIN p : costmap[p[i]] # "lethal"} :
         e \in FreeCell(robot) \X FreeCell(goal)}
NewPaths == FoundPaths \cup {<<>>}

-----------------------------------------------------------------------------
(* tryReuseLastPath: segment i of the last path joins its poses i and i + 1. *)

SearchBegin ==
  IF progress < Len(last_path) - 1 THEN progress + 1 ELSE Len(last_path) - 1

(* The end of segment i on which the robot is projected. *)
Projection(i) ==
  IF Squared(robot, last_path[i + 1]) < Squared(robot, last_path[i]) THEN i + 1 ELSE i

DeviationFrom(i) == Squared(robot, last_path[Projection(i)])

(* The first segment of those nearest to the robot. *)
NearestSegment ==
  CHOOSE i \in SearchBegin .. Len(last_path) - 1 :
    /\ \A j \in i .. Len(last_path) - 1 : DeviationFrom(i) <= DeviationFrom(j)
    /\ \A j \in SearchBegin .. i - 1 : DeviationFrom(i) < DeviationFrom(j)

Rest(segment) == SubSeq(last_path, Projection(segment), Len(last_path))

(* pathCostAndSafe; the step to a neighbour is sampled at both ends and     *)
(* between them, on the border, which belongs to the cell behind it. *)
PathSafe(p) == p # <<>> /\ IsSafe(robot) /\ \A i \in DOMAIN p : IsSafe(p[i])

Border(c, d) == IF d[1] > c[1] \/ d[2] > c[2] THEN d ELSE c

SegmentCost(c, d) ==
  Traversal[costmap[c]] + Traversal[costmap[d]]
    + (IF c = d THEN 0 ELSE DistanceWeight + Traversal[costmap[Border(c, d)]])

PathCost(p) ==
  LET upto[i \in 0 .. Len(p)] ==
        IF i = 0 THEN 0
        ELSE upto[i - 1] + SegmentCost(IF i = 1 THEN robot ELSE p[i - 1], p[i])
  IN  upto[Len(p)]

(* A mutant: any new path is better. *)
ClearlyBetter_Any(new, old) == PathSafe(new)

ClearlyBetter(new, old) ==
  /\ PathSafe(new)
  /\ 100 * PathCost(new) <= (100 - Ratio) * PathCost(old)

(* A mutant: the old path is not checked on the new costmap. *)
StillGood_Unchecked(segment, old) ==
  Len(old) >= 2 /\ DeviationFrom(segment) <= Deviation

StillGood(segment, old) ==
  Len(old) >= 2 /\ DeviationFrom(segment) <= Deviation /\ PathSafe(old)

KeepPath(segment) ==
  /\ path' = Rest(segment) /\ reused' = TRUE
  /\ progress' = segment - 1
  /\ UNCHANGED <<last_path, last_goal>>

(* cachePath, for a path that is not empty *)
TakePath(new) ==
  /\ path' = new /\ reused' = FALSE
  /\ IF new = <<>> THEN UNCHANGED memory
     ELSE last_path' = new /\ last_goal' = goal /\ progress' = 0

HasLastPath == Len(last_path) >= 2 /\ Squared(goal, last_goal) <= Tolerance

(* createPlan on the spot (where only an obstacle is in the way), without  *)
(* and with a last path. *)
PlanHere ==
  /\ robot = goal
  /\ path' = IF costmap[robot] # "lethal" THEN <<robot>> ELSE <<>>
  /\ reused' = FALSE
  /\ UNCHANGED memory

PlanAnew ==
  /\ robot # goal
  /\ ~HasLastPath
  /\ \E new \in NewPaths : TakePath(new)

Replan ==
  /\ robot # goal
  /\ HasLastPath
  /\ \E segment \in {NearestSegment} :
       \E old \in {Rest(segment)}, new \in NewPaths :
         IF StillGood(segment, old) /\ ~ClearlyBetter(new, old)
         THEN KeepPath(segment) ELSE TakePath(new)

CreatePlan ==
  /\ UNCHANGED world
  /\ fresh' = TRUE
  /\ PlanHere \/ PlanAnew \/ Replan

-----------------------------------------------------------------------------
(* The controller drives to the next pose of its path, and to the first    *)
(* one from beside it. *)
NextPose ==
  LET at == {i \in DOMAIN path : path[i] = robot}
  IN  IF at = {} THEN 1 ELSE (CHOOSE i \in at : TRUE) + 1

Follow ==
  /\ path # <<>>
  /\ NextPose <= Len(path)
  /\ robot' = path[NextPose]
  /\ UNCHANGED <<costmap, goal, changes, memory, given>>

Change == changes < MaxChanges /\ changes' = changes + 1

(* The robot is pushed, or its pose is corrected. *)
Push ==
  /\ Change
  /\ \E c \in Cells : Squared(c, robot) = 1 /\ robot' = c
  /\ UNCHANGED <<costmap, goal, memory, given>>

ChangeGoal ==
  /\ Change
  /\ goal' \in Goals \ {goal}
  /\ fresh' = FALSE
  /\ UNCHANGED <<costmap, robot, memory, path, reused>>

ChangeMap ==
  /\ Change
  /\ costmap' \in Maps \ {costmap}
  /\ fresh' = FALSE
  /\ UNCHANGED <<robot, goal, memory, path, reused>>

Next == CreatePlan \/ Follow \/ Push \/ ChangeGoal \/ ChangeMap

Spec == Init /\ [][Next]_vars

(* Plans are made all the time, and the controller drives while it has a   *)
(* path. *)
FairSpec == Spec /\ WF_vars(CreatePlan) /\ WF_vars(Follow)

-----------------------------------------------------------------------------
(* A path that is kept is safe on the costmap it is given out on, though   *)
(* it was planned on another one, and ends beside a goal within tolerance  *)
(* of the one it is given out for: a goal that creeps does not drag an old *)
(* path along.  (A new path is given out unchecked.)                       *)
KeptPathIsSafe ==
  fresh /\ reused =>
    /\ \A i \in DOMAIN path : IsSafe(path[i])
    /\ Squared(last_goal, goal) <= Tolerance
    /\ RingOf(path[Len(path)], last_goal) <= MaxRadius

(* If from some time on there is a path at hand, and a safe one, the robot *)
(* arrives: plans do not alternate for ever.  Searches may go on failing   *)
(* or returning unsafe paths all the while, as long as the old path is     *)
(* kept then.                                                              *)
PathAtHand == path # <<>> /\ \A i \in DOMAIN path : IsSafe(path[i])
Arrived == robot = goal \/ robot \in FreeCell(goal)
Arrives == <>[]PathAtHand => <>[]Arrived
=============================================================================
