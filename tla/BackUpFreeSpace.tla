-------------------------- MODULE BackUpFreeSpace --------------------------
(***************************************************************************)
(* The recovery behaviour of move_to_free: it asks the global costmap      *)
(* asynchronously, picks the sampled direction with the fewest leading     *)
(* obstacles and drives until it has gone far enough, stands on a cheap    *)
(* cell or runs out of time.  It runs inside nav2's TimedBehavior loop,    *)
(* and the chassis drops a velocity that is not repeated.                  *)
(*                                                                         *)
(* A map is the set of its expensive cells (cost above 150, or lethal in a *)
(* ray); space and velocity are counted in cells per cycle.                *)
(***************************************************************************)
EXTENDS Integers, Sequences, FiniteSets

CONSTANTS
  Width, Height,   \* size of the costmap
  Maps,            \* the maps the costmap server may hold
  NoMap,           \* no answer has been received yet
  SampleSteps,     \* cells looked at along a direction
  Distance,        \* command_x of the goal
  TimeAllowance,   \* cycles a run may take
  DropAfter,       \* cycles after which an unrepeated velocity is dropped
  MaxRequests      \* bound: unanswered costmap requests

Cells == (0 .. Width - 1) \X (0 .. Height - 1)

BackUpAssumption ==
  /\ Width \in Nat \ {0} /\ Height \in Nat \ {0}
  /\ SampleSteps \in Nat \ {0}
  /\ Distance \in Nat \ {0}
  /\ TimeAllowance \in Nat \ {0}
  /\ DropAfter \in Nat \ {0}
  /\ MaxRequests \in Nat
  /\ NoMap \notin Maps /\ \A m \in Maps : m \subseteq Cells

VARIABLES
  world,      \* the map the costmap server holds
  pos,        \* where the robot is
  vel,        \* the velocity the chassis follows
  silence,    \* cycles since that velocity was published
  service,    \* the costmap service is there
  requests,   \* the unanswered requests, with the function that sent them
  latest,     \* latest_costmap_
  in_flight,  \* costmap_request_in_flight_
  phase,      \* idle; cycle: due; wait: for the service; sleep: until the next cycle
  init_pos,   \* init_x, init_y
  current,    \* current_x, current_y
  twist,      \* twist_x_, twist_y_
  has_dir,    \* has_free_space_direction_
  elapsed,    \* cycles since the run began
  result,     \* how the last run ended
  chosen      \* history: the direction chosen last

costmap == <<requests, latest, in_flight>>
chassis == <<pos, vel, silence>>
run == <<phase, init_pos, current, twist, has_dir, elapsed, result, chosen>>
vars == <<world, service, costmap, chassis, run>>

-----------------------------------------------------------------------------
(* Geometry. *)

Zero == <<0, 0>>

(* The sampled directions, in the order the loop takes them. *)
Directions == << <<1, 0>>, <<0, 1>>, <<-1, 0>>, <<0, -1>> >>
DirectionSet == {Directions[i] : i \in DOMAIN Directions}

Plus(p, v) == <<p[1] + v[1], p[2] + v[2]>>
Abs(n) == IF n < 0 THEN -n ELSE n

DistanceSq(p, q) == (p[1] - q[1]) * (p[1] - q[1]) + (p[2] - q[2]) * (p[2] - q[2])

(* parseCostmapAndQuery: a cell outside the map counts as expensive. *)
IsFree(map, p) == p \in Cells \ map

(* The cells along a direction. *)
Ray(p, d) == [i \in 1 .. SampleSteps |-> <<p[1] + i * d[1], p[2] + i * d[2]>>]

(* countLeadingObstacleCount: the obstacles before the first free sample. *)
LeadingObstacles(map, p, d) ==
  Cardinality({i \in 1 .. SampleSteps : \A j \in 1 .. i : ~IsFree(map, Ray(p, d)[j])})

(* calculateAvgCost, up to the constant number of samples. *)
Cost(map, p, d) == Cardinality({i \in 1 .. SampleSteps : ~IsFree(map, Ray(p, d)[i])})

Better(map, p, d, e) ==
  \/ LeadingObstacles(map, p, d) < LeadingObstacles(map, p, e)
  \/ /\ LeadingObstacles(map, p, d) = LeadingObstacles(map, p, e)
     /\ Cost(map, p, d) < Cost(map, p, e)

(* The first direction no other one is better than.  A ray has at least one *)
(* sample, so the loop always finds one. *)
BestDirection(map, p) ==
  LET best == {i \in DOMAIN Directions :
                 \A j \in DOMAIN Directions : ~Better(map, p, Directions[j], Directions[i])}
  IN  Directions[CHOOSE i \in best : \A j \in best : i <= j]

TypeOK ==
  /\ world \in Maps
  /\ pos \in Cells /\ init_pos \in Cells /\ current \in Cells
  /\ vel \in DirectionSet \cup {Zero} /\ twist \in DirectionSet \cup {Zero}
  /\ chosen \in DirectionSet \cup {Zero}
  /\ silence \in 0 .. DropAfter
  /\ service \in BOOLEAN /\ in_flight \in BOOLEAN /\ has_dir \in BOOLEAN
  /\ requests \in Seq({"onRun", "cycle"}) /\ Len(requests) <= MaxRequests
  /\ latest \in Maps \cup {NoMap}
  /\ phase \in {"idle", "cycle", "wait", "sleep"}
  /\ elapsed \in 0 .. TimeAllowance + 1
  /\ result \in {"none", "refused", "pose lost", "timeout", "reached", "canceled"}

Init ==
  /\ world \in Maps
  /\ pos \in Cells
  /\ vel = Zero /\ silence = DropAfter
  /\ service = TRUE
  /\ requests = <<>> /\ latest = NoMap /\ in_flight = FALSE
  /\ phase = "idle"
  /\ init_pos = pos /\ current = pos
  /\ twist = Zero /\ has_dir = FALSE
  /\ elapsed = 0 /\ result = "none" /\ chosen = Zero

-----------------------------------------------------------------------------
(* onRun: the request it sends is answered later, so it decides on the map *)
(* of an earlier request; without one it does not succeed, which ends the  *)
(* run. *)
OnRun(has_pose) ==
  /\ phase = "idle"
  /\ service
  /\ Len(requests) < MaxRequests
  /\ requests' = Append(requests, "onRun")
  /\ IF latest = NoMap \/ ~has_pose
     THEN /\ result' = "refused"
          /\ UNCHANGED <<phase, init_pos, twist, elapsed, chosen>>
     ELSE /\ phase' = "cycle"
          /\ init_pos' = pos
          /\ twist' = BestDirection(latest, pos)
          /\ chosen' = BestDirection(latest, pos)
          /\ elapsed' = 0
          /\ UNCHANGED result
  /\ UNCHANGED <<world, service, latest, in_flight, chassis, current, has_dir>>

(* TimedBehavior ends the run. *)
End(how) == phase' = "idle" /\ result' = how

(* stopRobot publishes a zero velocity. *)
StopRobot == vel' = Zero /\ silence' = 0 /\ UNCHANGED pos

(* A mutant: the allowance is ignored. *)
OutOfTime_Never == FALSE

(* The check of onCycleUpdate against the time allowance. *)
OutOfTime == elapsed > TimeAllowance

(* A run out of time stops the robot. *)
TimeOut ==
  /\ phase = "cycle"
  /\ OutOfTime
  /\ StopRobot
  /\ End("timeout")
  /\ UNCHANGED <<world, service, costmap, init_pos, current, twist, has_dir, elapsed, chosen>>

(* Without a pose the run fails, and the robot is not stopped. *)
LosePose ==
  /\ phase = "cycle"
  /\ ~OutOfTime
  /\ End("pose lost")
  /\ UNCHANGED <<world, service, costmap, chassis, init_pos, current, twist, has_dir, elapsed, chosen>>

(* With a pose the cycle goes on once the service is there. *)
TakePose ==
  /\ phase = "cycle"
  /\ ~OutOfTime
  /\ phase' = "wait"
  /\ current' = pos
  /\ UNCHANGED <<world, service, costmap, chassis, init_pos, twist, has_dir, elapsed, result, chosen>>

(* requestCostmapAsync: one request of this kind at a time. *)
RequestCostmap ==
  IF in_flight THEN UNCHANGED <<requests, in_flight>>
  ELSE requests' = Append(requests, "cycle") /\ in_flight' = TRUE

(* A mutant: only the distance along y counts. *)
FarEnough_AlongY == Abs(current[2] - init_pos[2]) >= Distance

(* The test of onCycleUpdate on the pose read before the wait. *)
FarEnough == DistanceSq(init_pos, current) >= Distance * Distance
Reached == FarEnough \/ IsFree(latest, current)

(* The direction of the run is chosen again on the way, the first time in  *)
(* the life of the node only, and the components of the old twist are      *)
(* scaled by the new direction. *)
Rescaled(d) == <<d[1] * Abs(twist[1]), d[2] * Abs(twist[2])>>

Cycle ==
  /\ phase = "wait"
  /\ service
  /\ in_flight \/ Len(requests) < MaxRequests
  /\ RequestCostmap
  /\ IF Reached
     THEN StopRobot /\ End("reached") /\ UNCHANGED <<twist, has_dir, chosen>>
     ELSE /\ IF has_dir THEN UNCHANGED <<twist, has_dir, chosen>>
             ELSE LET d == BestDirection(latest, init_pos)
                  IN  twist' = Rescaled(d) /\ chosen' = d /\ has_dir' = TRUE
          /\ vel' = twist'
          /\ silence' = 0
          /\ phase' = "sleep"
          /\ UNCHANGED <<pos, result>>
  /\ UNCHANGED <<world, service, latest, init_pos, current, elapsed>>

(* The loop of TimedBehavior looks for a cancel before each cycle. *)
Cancel ==
  /\ phase = "cycle"
  /\ StopRobot
  /\ End("canceled")
  /\ UNCHANGED <<world, service, costmap, init_pos, current, twist, has_dir, elapsed, chosen>>

-----------------------------------------------------------------------------
(* The environment. *)

(* The costmap server answers the oldest request with the map it holds. *)
Answer ==
  /\ service
  /\ requests # <<>>
  /\ latest' = world
  /\ in_flight' = IF Head(requests) = "cycle" THEN FALSE ELSE in_flight
  /\ requests' = Tail(requests)
  /\ UNCHANGED <<world, service, chassis, run>>

(* The server goes away with the requests it has not answered. *)
ServiceDown ==
  /\ service
  /\ service' = FALSE
  /\ requests' = <<>>
  /\ UNCHANGED <<world, latest, in_flight, chassis, run>>

ServiceUp ==
  /\ ~service
  /\ service' = TRUE
  /\ UNCHANGED <<world, costmap, chassis, run>>

WorldChanges ==
  /\ world' \in Maps \ {world}
  /\ UNCHANGED <<service, costmap, chassis, run>>

(* One cycle passes: the robot moves with its velocity or is held back, and *)
(* the chassis drops a velocity that was not repeated.  A run that waits for *)
(* the service stays behind. *)
PassTime ==
  /\ phase \in {"idle", "sleep"} \/ (phase = "wait" /\ ~service)
  /\ pos' \in ({pos, Plus(pos, vel)} \cap Cells)
  /\ silence' = IF silence < DropAfter THEN silence + 1 ELSE silence
  /\ vel' = IF silence' = DropAfter THEN Zero ELSE vel
  /\ elapsed' = IF phase # "idle" /\ elapsed <= TimeAllowance THEN elapsed + 1 ELSE elapsed
  /\ phase' = IF phase = "sleep" THEN "cycle" ELSE phase
  /\ UNCHANGED <<world, service, costmap, init_pos, current, twist, has_dir, result, chosen>>

Behave == TimeOut \/ LosePose \/ TakePose \/ Cycle

Next == \/ \E has_pose \in BOOLEAN : OnRun(has_pose)
        \/ Behave \/ Cancel
        \/ Answer \/ ServiceDown \/ ServiceUp \/ WorldChanges \/ PassTime

Spec == Init /\ [][Next]_vars

(* The behaviour and the clock run on, the service comes back and answers. *)
Fairness == /\ WF_vars(TimeOut \/ TakePose \/ LosePose)
            /\ SF_vars(Cycle)
            /\ WF_vars(PassTime)
            /\ WF_vars(ServiceUp)
            /\ WF_vars(Answer)

FairSpec == Spec /\ Fairness

-----------------------------------------------------------------------------
(* However a run goes on or ends, the robot comes no further along an axis  *)
(* than one cell less than the commanded distance, plus what it drives     *)
(* while a cycle waits for the service with a pose read before, plus what  *)
(* the chassis drives until it drops an unrepeated velocity. *)
TravelBounded ==
  \A axis \in {1, 2} : Abs(pos[axis] - init_pos[axis]) <= (Distance - 1) + (DropAfter - 1) + DropAfter

(* Every run ends, also when the robot cannot move. *)
RunEnds == phase # "idle" ~> phase = "idle"

(* docs/technical_document.md:344: the behaviour drives the robot actively *)
(* in the direction, of several, from which free space is easier to reach. *)
DrivesInChosenDirection == phase = "sleep" /\ silence = 0 => vel = chosen
=============================================================================
