-------------------------- MODULE FakeVelTransform --------------------------
(***************************************************************************)
(* The node between the velocity smoother and the chassis: it repeats the  *)
(* last command on a timer, replaces it by zero when the controller has    *)
(* been silent too long, and may limit how fast the speed drops.           *)
(*                                                                         *)
(* Time is counted in the smallest step of the limiter (its lower clamp).  *)
(* The velocity is a number along one axis: the rotation by the yaw keeps  *)
(* the speed and is left out, the reversal of the velocity is kept.        *)
(***************************************************************************)
EXTENDS Integers

CONSTANTS
  MaxSpeed,                 \* largest speed the controller commands
  max_linear_deceleration,  \* loss of speed per unit of time
  CONTROLLER_TIMEOUT,       \* age at which a command no longer counts
  DtMax,                    \* upper clamp of the limiter's time step
  MaxLate,                  \* bound: units between two runs of the timer
  MaxAge                    \* bound: age of a command

ASSUME LimitAssumption ==
  /\ MaxSpeed \in Nat \ {0}
  /\ max_linear_deceleration \in Nat \ {0}
  /\ CONTROLLER_TIMEOUT \in Nat \ {0}
  /\ DtMax \in Nat \ {0}
  /\ MaxLate \in Nat \ {0}
  /\ MaxAge \in Nat

(* A timer later than the upper clamp slows the limiter down. *)
ASSUME LateAssumption == MaxLate <= DtMax

VARIABLES
  enable_limit,  \* enable_linear_deceleration_limit_
  last_cmd_vel,  \* last_cmd_vel_
  cmd_age,       \* time since last_cmd_vel_time_
  limited,       \* limited_cmd_vel_, the velocity published last
  limit_age      \* time since last_velocity_limit_time_

vars == <<enable_limit, last_cmd_vel, cmd_age, limited, limit_age>>

Speeds == -MaxSpeed .. MaxSpeed

Abs(n) == IF n < 0 THEN -n ELSE n

TypeOK ==
  /\ enable_limit \in BOOLEAN
  /\ last_cmd_vel \in Speeds
  /\ cmd_age \in 0 .. MaxAge
  /\ limited \in Speeds
  /\ limit_age \in 0 .. MaxLate

Init ==
  /\ enable_limit \in BOOLEAN
  /\ last_cmd_vel = 0
  /\ cmd_age = 0
  /\ limited = 0
  /\ limit_age = 0

-----------------------------------------------------------------------------
(* cmdVelCallback *)
CmdVel(v) ==
  /\ last_cmd_vel' = v
  /\ cmd_age' = 0
  /\ UNCHANGED <<enable_limit, limited, limit_age>>

(* The command, or zero when it is out of date. *)
Target == IF cmd_age < CONTROLLER_TIMEOUT THEN last_cmd_vel ELSE 0

(* A mutant: the time step is the nominal one, also when the timer is late. *)
Dt_Nominal == 1

(* The time step of the limiter. *)
Dt == IF limit_age < 1 THEN 1 ELSE IF limit_age > DtMax THEN DtMax ELSE limit_age

MaxDelta == max_linear_deceleration * Dt

(* A mutant: the change is subtracted whatever the sign of the velocity. *)
Limit_Unsigned(target) ==
  IF enable_limit /\ Abs(target) < Abs(limited) /\ Abs(target - limited) > MaxDelta
  THEN limited - MaxDelta
  ELSE target

(* applyLinearDecelerationLimit: only a lower speed is approached in steps. *)
Limit(target) ==
  IF enable_limit /\ Abs(target) < Abs(limited) /\ Abs(target - limited) > MaxDelta
  THEN IF target > limited THEN limited + MaxDelta ELSE limited - MaxDelta
  ELSE target

(* publishTransformAndSafeVel *)
Publish ==
  /\ limited' = Limit(Target)
  /\ limit_age' = 0
  /\ UNCHANGED <<enable_limit, last_cmd_vel, cmd_age>>

(* Time passes, but not beyond the next run of the timer. *)
Tick ==
  /\ limit_age < MaxLate
  /\ cmd_age < MaxAge
  /\ cmd_age' = cmd_age + 1
  /\ limit_age' = limit_age + 1
  /\ UNCHANGED <<enable_limit, last_cmd_vel, limited>>

Next == (\E v \in Speeds : CmdVel(v)) \/ Publish \/ Tick

Spec == Init /\ [][Next]_vars

-----------------------------------------------------------------------------
(* When the controller has been silent for its timeout, one period of the  *)
(* timer and the time the limiter needs from full speed, the chassis is    *)
(* told to stand. *)
StopsWhenSilent ==
  \A ramp \in 1 .. MaxSpeed :
    /\ max_linear_deceleration * ramp >= MaxSpeed
    /\ cmd_age >= CONTROLLER_TIMEOUT + MaxLate + ramp - 1
    => limited = 0

(* The published speed rises only to a command that is not out of date,    *)
(* never on the way from one command to another one. *)
NoSurge ==
  [][Abs(limited') > Abs(limited)
       => cmd_age < CONTROLLER_TIMEOUT /\ limited' = last_cmd_vel]_vars
=============================================================================
