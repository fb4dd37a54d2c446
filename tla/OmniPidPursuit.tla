---------------------------- MODULE OmniPidPursuit ----------------------------
(***************************************************************************)
(* The controller plugin as a state machine: its life cycle, the change of *)
(* mode at run time, plans and the command of one cycle, closed over a     *)
(* robot that follows commands with limited acceleration.  The             *)
(* controller server calls it: it starts, cancels and ends goals.          *)
(*                                                                         *)
(* Motion is along the line to the goal: dist is what is left, negative    *)
(* beyond the goal.  The unit of speed is what acc_max_ allows in a cycle, *)
(* the unit of length is the way of a cycle at that speed.                 *)
(***************************************************************************)
EXTENDS Integers, FiniteSets, FiniteSetsExt

CONSTANTS
  v_linear_max, v_linear_min,
  Kp, Kd, lookahead_time,       \* translation_kp_, translation_kd_, lookahead_time_, per mille
  min_lookahead_dist, max_lookahead_dist,
  approach_velocity_scaling_dist, min_approach_linear_velocity,
  ExitMargin,                   \* 0.20 m
  DirectSlowdownDist, DirectStopDist,
  MaxLinearVel,                 \* 4.0 m/s
  MpcSpeeds,                    \* limits samplePathToTimedMpcRefSeq may give
  CurveSpeed,                   \* the lowest limit applyCurvatureLimitation may give
  XyGoalTolerance,              \* of the goal checker
  Overrun,
  NewDists                      \* distances of new goals

VARIABLES
  state,                        \* "unconfigured", "inactive", "active", "crashed"
  use_mpc_control_, mpc_controller_, move_pid_,
  prev_cmd_vel_, has_prev_cmd_vel_,
  pending_controller_soft_reset_,
  has_latched_goal_,
  mpc_near_goal_pursuit_mode_,
  following,                    \* the server works on a goal
  dist, vel,                    \* of the robot
  room                          \* "near" for a goal nearer than the approach distance when it
                                \* came, else whether it saw failed or direct cycles or "both"

ParameterAssumption ==
  /\ v_linear_max \in Nat \ {0} /\ v_linear_min = -v_linear_max
  /\ {Kp, Kd, lookahead_time, min_lookahead_dist, max_lookahead_dist, ExitMargin,
      DirectStopDist, MaxLinearVel} \subseteq Nat
  /\ approach_velocity_scaling_dist \in Nat \ {0}
  /\ min_approach_linear_velocity \in 1 .. v_linear_max
  /\ DirectSlowdownDist \in Nat /\ DirectStopDist < DirectSlowdownDist
  /\ MpcSpeeds \subseteq 0 .. v_linear_max /\ CurveSpeed \in 0 .. v_linear_max
  /\ NewDists \subseteq Nat

(* Twice the way that the approach distance is too short by, for a robot   *)
(* that brakes from full speed with a cycle failing whenever it can. *)
Missing ==
  Max({3 * v_linear_max * (v_linear_max - 1) + 2 - 2 * approach_velocity_scaling_dist, 0})

(* Speeds and distances go with acc_max_ (the sum of the speeds up to v is *)
(* the way it takes to brake from v): from full speed the robot can stop   *)
(* in the approach distance and where the direct drive slows down, and     *)
(* what is missing with failed cycles is little against a stop that needs  *)
(* more way than the tolerance. *)
StoppingAssumption ==
  LET m == min_approach_linear_velocity
  IN  /\ Overrun = XyGoalTolerance /\ Overrun \in Nat /\ Overrun >= 4
      /\ v_linear_max * (v_linear_max + 1) <= 2 * approach_velocity_scaling_dist
      /\ v_linear_max * (v_linear_max + 1) <= 2 * (DirectSlowdownDist + Overrun)
      /\ m * (m + 1) <= 2 * (1 + Overrun) /\ 3 * m * (m - 1) <= Missing
      /\ \A v \in 1 .. v_linear_max :
            v * (v - 1) > 2 * XyGoalTolerance => Missing < 2 * (v - 1) * (v - 1)

vars == <<state, use_mpc_control_, mpc_controller_, move_pid_, prev_cmd_vel_,
          has_prev_cmd_vel_, pending_controller_soft_reset_, has_latched_goal_,
          mpc_near_goal_pursuit_mode_, following, dist, vel, room>>

plugin == <<use_mpc_control_, mpc_controller_, move_pid_>>
memory == <<prev_cmd_vel_, has_prev_cmd_vel_, mpc_near_goal_pursuit_mode_>>
goal   == <<has_latched_goal_, pending_controller_soft_reset_>>
robot  == <<dist, vel, room>>

Clamp(n, lo, hi) == IF n < lo THEN lo ELSE IF n > hi THEN hi ELSE n
Size(n) == IF n < 0 THEN -n ELSE n

(* One step of acceleration. *)
Toward(from, to) == Clamp(to, from - 1, from + 1)

-----------------------------------------------------------------------------
(* PID *)

NoPid == [exists |-> FALSE, pre_error |-> 0, has |-> FALSE]

(* The constructor leaves has_pre_error_ uninitialized. *)
NewPids == {[exists |-> TRUE, pre_error |-> 0, has |-> h] : h \in BOOLEAN}

Reset(pid) == [pid EXCEPT !.pre_error = 0, !.has = FALSE]

(* calculate; translation_ki_ is 0 in every configuration. *)
Output(pid, error) ==
  Clamp((Kp * error + (IF pid.has THEN Kd * (error - pid.pre_error) ELSE 0)) \div 1000,
        v_linear_min, v_linear_max)

Calculated(pid, error) == [pid EXCEPT !.pre_error = error, !.has = TRUE]

-----------------------------------------------------------------------------
(* The parts of a command. *)

getLookAheadDistance ==
  Clamp((lookahead_time * Size(IF has_prev_cmd_vel_ THEN prev_cmd_vel_ ELSE vel)) \div 1000,
        min_lookahead_dist, max_lookahead_dist)

CarrotDist == Min({getLookAheadDistance, Size(dist)})

(* A mutant: the speed is not scaled down. *)
Approach_Unscaled(v) == v

(* applyApproachVelocityScaling *)
Approach(v) ==
  LET scaled == IF Size(dist) < approach_velocity_scaling_dist
                THEN (v * Size(dist)) \div approach_velocity_scaling_dist ELSE v
  IN  Min({v, Max({scaled, min_approach_linear_velocity})})

(* runProportionalPursuit: speeds towards the carrot. *)
Pursuit(pid) ==
  IF CarrotDist = 0 THEN {0}
  ELSE LET v == Output(pid, CarrotDist)
       IN  {Approach(v), Approach(Min({v, CurveSpeed}))}

(* The straight drive to the target. *)
Direct ==
  LET d == Size(dist)
      width == DirectSlowdownDist - DirectStopDist
      raw == Clamp((Kp * d) \div 1000, 0, v_linear_max)
      ratio == Clamp(d - DirectStopDist, 0, width)
  IN  IF d <= DirectStopDist THEN 0
      ELSE IF d < DirectSlowdownDist
      THEN Min({raw, (v_linear_max * ratio * ratio) \div (width * width)})
      ELSE raw

(* What the solver may answer: a step of acceleration along the reference, *)
(* cut to the limit of this cycle. *)
Solved ==
  IF mpc_controller_
  THEN UNION {{Clamp(vel + a, 0, limit) : a \in {-1, 0, 1}} : limit \in MpcSpeeds}
  ELSE {0}

(* mpc_near_goal_pursuit_mode_ of this cycle. *)
NearGoal ==
  IF mpc_near_goal_pursuit_mode_ THEN Size(dist) < approach_velocity_scaling_dist + ExitMargin
  ELSE Size(dist) <= approach_velocity_scaling_dist

(* The limits on the way out; only the PID mode has one on the change. *)
Limited(v) ==
  Clamp(IF ~use_mpc_control_ /\ has_prev_cmd_vel_ THEN Toward(prev_cmd_vel_, v) ELSE v,
        -MaxLinearVel, MaxLinearVel)

-----------------------------------------------------------------------------
(* computeVelocityCommands *)

(* The soft reset that setPlan asked for. *)
Pid == IF pending_controller_soft_reset_ THEN Reset(move_pid_) ELSE move_pid_

(* The robot follows a command for a cycle. *)
Move(cmd) ==
  /\ vel' = Toward(vel, cmd)
  /\ dist' = dist - vel'

Give(v) ==
  \E cmd \in {Limited(IF dist < 0 THEN -v ELSE v)} :
    /\ prev_cmd_vel_' = cmd /\ has_prev_cmd_vel_' = TRUE
    /\ Move(cmd)
    /\ following' = (Size(dist') > XyGoalTolerance)

Working == state = "active" /\ following

Seen(kind) == IF room \in {"far", kind} THEN kind ELSE IF room = "near" THEN room ELSE "both"

Done == UNCHANGED <<state, use_mpc_control_, mpc_controller_, has_latched_goal_>>

DirectCycle ==
  /\ Working
  /\ Give(Direct)
  /\ room' = Seen("direct")
  /\ move_pid_' = Pid
  /\ pending_controller_soft_reset_' = FALSE
  /\ UNCHANGED mpc_near_goal_pursuit_mode_
  /\ Done

PursuitCycle ==
  /\ Working
  /\ use_mpc_control_ => NearGoal
  /\ CarrotDist > 0 => move_pid_.exists
  /\ \E pid \in {Pid} : \E v \in Pursuit(pid) :
       /\ Give(v)
       /\ UNCHANGED room
       /\ move_pid_' = IF CarrotDist > 0 THEN Calculated(pid, CarrotDist) ELSE pid
  /\ mpc_near_goal_pursuit_mode_' = (use_mpc_control_ \/ mpc_near_goal_pursuit_mode_)
  /\ pending_controller_soft_reset_' = FALSE
  /\ Done

MpcCycle ==
  /\ Working
  /\ use_mpc_control_ /\ ~NearGoal
  /\ \E v \in Solved : Give(v)
  /\ UNCHANGED room
  /\ move_pid_' = Pid
  /\ mpc_near_goal_pursuit_mode_' = FALSE
  /\ pending_controller_soft_reset_' = FALSE
  /\ Done

(* move_pid_ is used without being there. *)
Crash ==
  /\ Working
  /\ use_mpc_control_ /\ NearGoal
  /\ CarrotDist > 0 /\ ~move_pid_.exists
  /\ state' = "crashed" /\ following' = FALSE
  /\ UNCHANGED <<plugin, memory, goal, robot>>

(* No transform of the plan, or no carrot: zero is published, but not      *)
(* remembered.  After too many failures the server gives the goal up. *)
FailedCycle ==
  /\ Working
  /\ Move(0)
  /\ room' = Seen("failed")
  /\ move_pid_' = Pid
  /\ pending_controller_soft_reset_' = FALSE
  /\ following' \in BOOLEAN
  /\ UNCHANGED memory
  /\ Done

(* The server has no goal and has published zero: the robot brakes. *)
Brake ==
  /\ ~following /\ vel # 0
  /\ Move(0)
  /\ UNCHANGED <<state, plugin, memory, goal, following, room>>

-----------------------------------------------------------------------------
(* setPlan *)

(* A plan to a new goal, in the direction of the motion or against it;     *)
(* changed if it is more than 1.0 m from the latched one.  A new plan to   *)
(* the goal there was changes nothing here. *)
NewGoal(d, turn, changed) ==
  /\ state = "active"
  /\ changed \/ has_latched_goal_
  /\ has_latched_goal_' = TRUE
  /\ pending_controller_soft_reset_' = (changed \/ pending_controller_soft_reset_)
  /\ dist' = d
  /\ vel' = turn * vel /\ prev_cmd_vel_' = turn * prev_cmd_vel_
  /\ room' = IF d >= approach_velocity_scaling_dist THEN "far" ELSE "near"
  /\ following' = TRUE
  /\ UNCHANGED <<state, plugin, has_prev_cmd_vel_, mpc_near_goal_pursuit_mode_>>

Cancel ==
  /\ Working
  /\ following' = FALSE
  /\ UNCHANGED <<state, plugin, memory, goal, robot>>

-----------------------------------------------------------------------------
(* dynamicParametersCallback with another use_mpc_control. *)

SwitchToMpc ==
  /\ state = "active" /\ ~use_mpc_control_
  /\ use_mpc_control_' = TRUE
  /\ move_pid_' = NoPid
  /\ mpc_controller_' = TRUE
  /\ UNCHANGED <<state, memory, goal, robot, following>>

SwitchToPid ==
  /\ state = "active" /\ use_mpc_control_
  /\ use_mpc_control_' = FALSE
  /\ mpc_controller_' = FALSE
  /\ move_pid_' \in NewPids
  /\ UNCHANGED <<state, memory, goal, robot, following>>

-----------------------------------------------------------------------------
(* The life cycle; the robot stands when the server goes down. *)

NoGoal == dist' = 0 /\ room' = "near"

(* configure; the switch is read from the parameters again. *)
Configure ==
  /\ state = "unconfigured"
  /\ use_mpc_control_' \in BOOLEAN
  /\ mpc_controller_' = (use_mpc_control_' \/ mpc_controller_)
  /\ move_pid_' \in NewPids
  /\ state' = "inactive"
  /\ UNCHANGED <<memory, goal, robot, following>>

Activate ==
  /\ state = "inactive" /\ state' = "active"
  /\ UNCHANGED <<plugin, memory, goal, robot, following>>

Deactivate ==
  /\ state = "active" /\ vel = 0
  /\ state' = "inactive"
  /\ following' = FALSE
  /\ NoGoal
  /\ UNCHANGED <<plugin, memory, goal, vel>>

Cleanup ==
  /\ state = "inactive" /\ state' = "unconfigured"
  /\ IF use_mpc_control_ THEN mpc_controller_' = FALSE /\ UNCHANGED move_pid_
     ELSE move_pid_' = NoPid /\ UNCHANGED mpc_controller_
  /\ UNCHANGED <<use_mpc_control_, memory, goal, robot, following>>

-----------------------------------------------------------------------------
Init ==
  /\ state = "unconfigured"
  /\ use_mpc_control_ = FALSE /\ mpc_controller_ = FALSE /\ move_pid_ = NoPid
  /\ prev_cmd_vel_ = 0 /\ has_prev_cmd_vel_ = FALSE
  /\ mpc_near_goal_pursuit_mode_ = FALSE
  /\ has_latched_goal_ = FALSE /\ pending_controller_soft_reset_ = FALSE
  /\ following = FALSE
  /\ dist = 0 /\ vel = 0 /\ room = "near"

Next ==
  \/ Configure \/ Activate \/ Deactivate \/ Cleanup
  \/ \E d \in NewDists, turn \in {1, -1}, changed \in BOOLEAN : NewGoal(d, turn, changed)
  \/ Cancel
  \/ DirectCycle \/ PursuitCycle \/ MpcCycle \/ FailedCycle \/ Crash
  \/ Brake
  \/ SwitchToMpc \/ SwitchToPid

Spec == Init /\ [][Next]_vars

-----------------------------------------------------------------------------
(* A goal that came with the approach distance to go is not overrun by     *)
(* more than its tolerance, whatever the modes and cancellations on the    *)
(* way: the speed is taken back early enough for acc_max_.  This holds     *)
(* with failed cycles and with direct driving, but not with both: a failed *)
(* cycle publishes zero without remembering it, the next command speeds up *)
(* from the one before, and the direct drive has no room for that. *)
StaysAtGoal == room \in {"far", "failed", "direct"} => dist >= -Overrun

(* Near the goal the MPC hands over to the proportional pursuit, which     *)
(* then gives the command (docs/technical_document.md). *)
NearGoalIsProportional == state # "crashed"
=============================================================================
