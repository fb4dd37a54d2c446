------------------------------- MODULE MCMotion -------------------------------
(***************************************************************************)
(* What is between a plan and the chassis: the parts of the controller and *)
(* the command watchdog.  The modules share no variable (each takes what   *)
(* it gets from the others as input), so one run takes them in turn: turn  *)
(* says which one moves.                                                   *)
(***************************************************************************)
EXTENDS FakeVelTransform, TLC

CONSTANTS
  SizeX, SizeY, Plans, Costmaps, SearchDist, Extent, max_skip_distance, LookaheadDist,
  Vertices, Turns, Robots, smooth_region_match_dist_, smooth_region_max_miss_,
  smooth_region_max_count_,
  Courses, Length, Scale, PlaceLength, Share, RawSpeeds, Profile, Back, Fwd, KappaMin, KappaMax,
  Hysteresis, FormulaVel, SlowdownPercent, RecoverStep, Np, FullSpeed, Carrots, CurvatureMin,
  CurvatureMax, KappaOne, ReductionPercent, ScaleStep, LowerSpeed, LastVel, LeastScaled,
  Tasks, Timeout,
  Horizons, Limits, AMax, VMax,
  v_linear_max, Kp, Kd, lookahead_time, min_lookahead_dist, max_lookahead_dist,
  approach_velocity_scaling_dist, min_approach_linear_velocity, ExitMargin,
  DirectSlowdownDist, DirectStopDist, MaxLinearVel, MpcSpeeds, CurveSpeed, XyGoalTolerance,
  Overrun, NewDists

VARIABLES
  turn,
  global_plan_, seen, segment, local, carrot, direct,
  follower, locked_smooth_regions_, smoothed, regions, chosen,
  mode, course, place, filtered, slow, last, speed, refs, age,
  rm_task_value_, value_age, receive_age, message, message_age, stored, reader, fresh, task,
  Np_, Nc_, v_max_, last_solution_, last_accel_, v_now, solved, v_cmd,
  state, use_mpc_control_, mpc_controller_, move_pid_, prev_cmd_vel_, has_prev_cmd_vel_,
  pending_controller_soft_reset_, has_latched_goal_, mpc_near_goal_pursuit_mode_,
  following, dist, vel, room

Path == INSTANCE LocalPath
Smoothing == INSTANCE PathSmoothing WITH robot <- follower
Curve == INSTANCE CurvatureLimit WITH robot <- place, use_mpc_control_ <- mode
Task == INSTANCE RmTask
Solver == INSTANCE Mpc
Pursuit == INSTANCE OmniPidPursuit WITH v_linear_min <- -v_linear_max

ASSUME MCAssumption ==
  /\ Path!PlanAssumption /\ Path!DistanceAssumption
  /\ Smoothing!VertexAssumption /\ Smoothing!RegionAssumption /\ Smoothing!SpacingAssumption
  /\ Curve!ProfileAssumption /\ Curve!SpeedAssumption /\ Curve!CourseAssumption
  /\ Curve!SightAssumption
  /\ Task!TimeoutAssumption
  /\ Solver!LimitAssumption
  /\ Pursuit!ParameterAssumption /\ Pursuit!StoppingAssumption

pathVars == <<global_plan_, seen, segment, local, carrot, direct>>
smoothingVars == <<follower, locked_smooth_regions_, smoothed, regions, chosen>>
curveVars == <<mode, course, place, filtered, slow, last, speed, refs, age>>
taskVars == <<rm_task_value_, value_age, receive_age, message, message_age, stored,
              reader, fresh, task>>
solverVars == <<Np_, Nc_, v_max_, last_solution_, last_accel_, v_now, solved, v_cmd>>
pursuitVars == <<state, use_mpc_control_, mpc_controller_, move_pid_, prev_cmd_vel_,
                 has_prev_cmd_vel_, pending_controller_soft_reset_, has_latched_goal_,
                 mpc_near_goal_pursuit_mode_, following, dist, vel, room>>

allVars == <<turn, vars, pathVars, smoothingVars, curveVars, taskVars, solverVars, pursuitVars>>

-----------------------------------------------------------------------------
(* The instances. *)

Ways == {<< <<0, 0>>, <<1, 0>>, <<2, 0>>, <<2, 1>>, <<2, 2>> >>,
         << <<0, 2>>, <<0, 1>>, <<1, 1>>, <<2, 1>>, <<3, 0>> >>,
         << <<0, 0>>, <<1, 1>>, <<0, 2>>, <<1, 2>>, <<2, 2>>, <<3, 1>> >>}

Field(S, k) == [c \in (0 .. 3) \X (0 .. 2) |-> IF c \in S THEN k ELSE "free"]

Fields == {Field({c}, "high") : c \in {<<1, 1>>, <<2, 1>>, <<1, 0>>}} \cup
          {Field({<<1, 1>>, <<1, 2>>}, "lethal"), Field({<<0, 1>>}, "unknown"), Field({}, "free")}

Bends == {<<60, 60, 60>>, <<30, 60, 60>>, <<60, -60, 60>>, <<60, 30, -60>>}

(* Straight on, then a sharp corner, a gentle one, two after another, and  *)
(* one so near that the filter has not settled.  A place is 25 units of    *)
(* the coordinates, 0.0875 m, from the next. *)
Past(i, corner) == IF i < corner THEN 0 ELSE i - corner
Roads == <<
  [end |-> 28, at |-> [i \in 0 .. 28 |-> <<25 * i - 25 * Past(i, 24), 25 * Past(i, 24)>>]],
  [end |-> 36, at |-> [i \in 0 .. 36 |-> <<25 * i - 5 * Past(i, 24), 15 * Past(i, 24)>>]],
  [end |-> 28, at |-> [i \in 0 .. 28 |-> <<25 * i - 5 * Past(i, 20) - 20 * Past(i, 24),
                                           15 * Past(i, 20) + 10 * Past(i, 24)>>]],
  [end |-> 6, at |-> [i \in 0 .. 6 |-> <<25 * i - 25 * Past(i, 3), 25 * Past(i, 3)>>]]>>

Offsets ==
  UNION {{<<Roads[w].at[j][1] - Roads[w].at[i][1], Roads[w].at[j][2] - Roads[w].at[i][2]>> :
            i, j \in 0 .. Roads[w].end} : w \in DOMAIN Roads}

Rounded == [o \in Offsets |->
              CHOOSE r \in 0 .. 1000 :
                LET n == o[1] * o[1] + o[2] * o[2]
                IN  n <= r * r + r /\ (r = 0 \/ n > r * r - r)]

(* sqrt(pid_curve_a_lat_max / kappa), in twentieths of m/s and fortieths of 1/m. *)
SpeedOf == [k \in 1 .. 48 |-> CHOOSE v \in 1 .. 300 : v * v * k <= 57600 /\ (v + 1) * (v + 1) * k > 57600]

MCPlans == Ways
MCCostmaps == Fields
MCVertices == <<40, 54, 74, 130>>
MCTurns == Bends
MCCourses == Roads
MCLength == Rounded
MCShare == <<[pid |-> 93, mpc |-> 100], [pid |-> 42, mpc |-> 90], [pid |-> 81, mpc |-> 100],
             [pid |-> 100, mpc |-> 100]>>
MCFormulaVel == SpeedOf
MCProfile == [pid |-> [ahead |-> 13, ds |-> 2, rise |-> 3, fall |-> 5, min_speed |-> 36],
              mpc |-> [ahead |-> 17, ds |-> 1, rise |-> 15, fall |-> 2, min_speed |-> 30]]
MCHorizons == {<<4, 2>>, <<3, 3>>, <<2, 5>>, <<0, 0>>}

-----------------------------------------------------------------------------
MCInit ==
  /\ turn \in {"vel", "path", "smoothing", "curve", "task", "solver", "pursuit"}
  /\ Init /\ Path!Init /\ Smoothing!Init /\ Curve!Init /\ Task!Init /\ Solver!Init /\ Pursuit!Init
  /\ turn # "vel" => enable_limit
  /\ turn # "path" => seen = [robot |-> <<0, 0>>, costmap |-> Field({}, "free"), located |-> TRUE]
  /\ turn # "smoothing" => follower = 0
  /\ turn # "curve" => mode /\ course = 1
  /\ turn # "solver" => Np_ = 4 /\ v_max_ = 1

MCNext ==
  /\ UNCHANGED turn
  /\ \/ /\ turn = "vel" /\ Next
        /\ UNCHANGED <<pathVars, smoothingVars, curveVars, taskVars, solverVars, pursuitVars>>
     \/ /\ turn = "path" /\ Path!Next
        /\ UNCHANGED <<vars, smoothingVars, curveVars, taskVars, solverVars, pursuitVars>>
     \/ /\ turn = "smoothing" /\ Smoothing!Next
        /\ UNCHANGED <<vars, pathVars, curveVars, taskVars, solverVars, pursuitVars>>
     \/ /\ turn = "curve" /\ Curve!Next
        /\ UNCHANGED <<vars, pathVars, smoothingVars, taskVars, solverVars, pursuitVars>>
     \/ /\ turn = "task" /\ Task!Next
        /\ UNCHANGED <<vars, pathVars, smoothingVars, curveVars, solverVars, pursuitVars>>
     \/ /\ turn = "solver" /\ Solver!Next
        /\ UNCHANGED <<vars, pathVars, smoothingVars, curveVars, taskVars, pursuitVars>>
     \/ /\ turn = "pursuit" /\ room # "both" /\ Pursuit!Next
        /\ UNCHANGED <<vars, pathVars, smoothingVars, curveVars, taskVars, solverVars>>
     \/ /\ state = "crashed" /\ UNCHANGED allVars   \* a crashed controller stays down
     \/ /\ room = "both" /\ UNCHANGED allVars       \* a goal StaysAtGoal is not about

MCSpec == MCInit /\ [][MCNext]_allVars

(* Points are left out only where the line is free (LocalPath). *)
ShortcutsAreFree == Path!ShortcutsAreFree

(* The smoothed corners do not change from cycle to cycle (PathSmoothing). *)
ChoiceIsSteady == Smoothing!ChoiceIsSteady

(* Before a corner the limit fits what sampling takes of it (CurvatureLimit). *)
LimitedAtCorner == Curve!LimitedAtCorner

(* A cycle does not act on a task that is long over (RmTask). *)
TaskIsCurrent == Task!TaskIsCurrent

(* The robot drives the solution of the problem that was solved (Mpc). *)
SolutionIsDriven == Solver!SolutionIsDriven

(* The robot does not drive on past its goal (OmniPidPursuit). *)
StaysAtGoal == Pursuit!StaysAtGoal
=============================================================================
