---------------------------- MODULE MCGlobalPlanner ----------------------------
(***************************************************************************)
(* The global planner: one search on a costmap (ThetaStar), and what is    *)
(* kept of its paths from one plan to the next (ThetaStarPlanner).  The    *)
(* modules share no variable (for the second a search is one step, which   *)
(* returns any path past the obstacles or none), so one run takes them in  *)
(* turn: part says which one moves.                                        *)
(***************************************************************************)
EXTENDS ThetaStar

CONSTANTS
  ReuseCells, ReuseMaps, ReuseStarts, ReuseGoals, ReuseRadius, ReuseTraversal,
  Paths, Tolerance, Deviation, Ratio, DistanceWeight, MaxChanges

VARIABLES
  part,
  known, robot, goal, last_path, last_goal, progress, path, reused, fresh, changes

Reuse == INSTANCE ThetaStarPlanner WITH
  Cells <- ReuseCells, Maps <- ReuseMaps, Starts <- ReuseStarts, Goals <- ReuseGoals,
  MaxRadius <- ReuseRadius, Traversal <- ReuseTraversal, costmap <- known

ASSUME MCAssumption == Reuse!PlannerAssumption

reuseVars == <<known, robot, goal, last_path, last_goal, progress, path, reused, fresh, changes>>
allVars == <<part, vars, reuseVars>>

-----------------------------------------------------------------------------
(* The search: a field of ten by seven cells, of which eight by five keep  *)
(* clear of the border: open, with up to three obstacles to pass or        *)
(* squeeze between, or closed off, with a corridor one cell wide, and with *)
(* a costly or an unknown strip.  One forbidden area covers two of the     *)
(* goals, one a start. *)
Field(cells, S, k) == [c \in cells |-> IF c \in S THEN k ELSE "free"]

Obstacles == {<<3, 0>>, <<5, 0>>, <<4, 1>>, <<3, 3>>, <<5, 4>>, <<7, 4>>, <<3, 6>>, <<6, 6>>}
SearchFields ==
  {Field(Cells, S, "lethal") : S \in {{c, d, e} : c, d, e \in Obstacles} \cup {{}}}
    \cup {Field(Cells, (1 .. 8) \X {y, y + 4}, "lethal") : y \in 0 .. 2}
    \cup {Field(Cells, {4} \X (0 .. 4), k) : k \in {"high", "unknown"}}
MCMaps == SearchFields
MCStarts == {<<1, 1>>, <<1, 3>>, <<0, 5>>, <<4, 3>>}
MCGoals == {<<8, 1>>, <<8, 5>>, <<7, 2>>, <<2, 5>>}
MCAreas == {(6 .. 8) \X (0 .. 2), {<<1, 3>>}}

(* An open field with an area of two rows beside the straight way. *)
OpenMaps == {Field(Cells, {}, "lethal")}
RowStart == {<<1, 3>>}
RowGoal == {<<8, 3>>}
RowArea == {(4 .. 5) \X (3 .. 4)}

(* Lengths and costs in hundredths of a cell. *)
Lengths == [d \in (0 .. SizeX) \X (0 .. SizeY) |->
               CHOOSE n \in 100 * (IF d[1] > d[2] THEN d[1] ELSE d[2]) .. 100 * (d[1] + d[2]) :
                 LET sq == 10000 * (d[1] * d[1] + d[2] * d[2])
                 IN  n * n <= sq /\ sq < (n + 1) * (n + 1)]
MCLength == Lengths
MCTraversal == [free |-> 3, high |-> 166, unknown |-> 252, lethal |-> 256]

-----------------------------------------------------------------------------
(* The reuse: two rows of four cells, with one way closed or costly, with  *)
(* both ends of it or the other way too close to an obstacle, and a goal   *)
(* that can creep along the row from its far end. *)
MCReuseCells == (0 .. 3) \X (0 .. 1)

ReuseFields == {Field(MCReuseCells, S, "lethal") : S \in {{}, {<<1, 0>>}}}
                 \cup {Field(MCReuseCells, {<<0, 0>>, <<3, 0>>}, "close"),
                      Field(MCReuseCells, {<<0, 0>>, <<2, 1>>}, "close"),
                      Field(MCReuseCells, {<<1, 0>>, <<2, 0>>}, "high")}
MCReuseMaps == ReuseFields
MCReuseStarts == {<<0, 0>>}
MCReuseGoals == {<<3, 0>>, <<2, 0>>, <<1, 0>>}

(* Every simple path from neighbour to neighbour, of up to LongestPath poses. *)
LongestPath == 6
Beyond(p) == {c \in MCReuseCells : DistanceSq(p[Len(p)], c) = 1 /\ \A i \in DOMAIN p : p[i] # c}
SimplePaths ==
  LET long[n \in 1 .. LongestPath] ==
        IF n = 1 THEN {<<c>> : c \in MCReuseCells}
        ELSE UNION {{Append(p, c) : c \in Beyond(p)} : p \in long[n - 1]}
  IN  UNION {long[n] : n \in 1 .. LongestPath}

ByEnds == [e \in MCReuseCells \X MCReuseCells |-> {p \in SimplePaths : p[1] = e[1] /\ p[Len(p)] = e[2]}]
MCPaths == ByEnds

MCReuseTraversal == [free |-> 1, high |-> 100, close |-> 100, lethal |-> 100]

-----------------------------------------------------------------------------
MCInit ==
  /\ part \in {"search", "reuse"}
  /\ Init /\ Reuse!Init
  /\ goal = <<3, 0>>
  /\ part = "search" => known = Field(MCReuseCells, {}, "lethal")
  /\ part = "reuse" => costmap = Field(Cells, {}, "lethal") /\ src = <<1, 1>> /\ dst = <<8, 5>>

MCNext ==
  /\ UNCHANGED part
  /\ \/ part = "search" /\ Next /\ UNCHANGED reuseVars
     \/ part = "reuse" /\ Reuse!Next /\ UNCHANGED vars

(* Plans are made all the time, and the controller drives. *)
ReuseFairness ==
  /\ WF_reuseVars(part = "reuse" /\ Reuse!CreatePlan)
  /\ WF_reuseVars(part = "reuse" /\ Reuse!Follow)

MCSpec == MCInit /\ [][MCNext]_allVars /\ ReuseFairness

(* A path that is kept is safe and leads to the present goal               *)
(* (ThetaStarPlanner). *)
KeptPathIsSafe == Reuse!KeptPathIsSafe

(* With a safe path at hand for good the plans do not alternate for ever   *)
(* (ThetaStarPlanner). *)
Arrives == <>[](part = "reuse" /\ Reuse!PathAtHand) => <>[]Reuse!Arrived
=============================================================================
