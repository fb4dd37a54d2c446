--------------------------------- MODULE Mpc ---------------------------------
(***************************************************************************)
(* OmniMpcController along one axis (the matrices treat the axes alike):   *)
(* the prediction of the states over the horizon, the constraints built    *)
(* from it, and the solver with its fallbacks.  A cycle is the unit of     *)
(* time; positions are counted in halves, so that B is integral.  What the *)
(* iteration converges to is any feasible sequence: the cost is left out.  *)
(***************************************************************************)
EXTENDS Integers, Sequences, FiniteSets, FiniteSetsExt

CONSTANTS
  Horizons,   \* pairs <<Np, Nc>> asked for
  Limits,     \* speed limits of a cycle
  AMax,       \* a_max_ = -a_min_, in speed per cycle
  VMax        \* bound: measured speed

LimitAssumption ==
  /\ Horizons \subseteq Int \X Int /\ Limits \subseteq Nat
  /\ AMax \in Nat /\ VMax \in Nat

VARIABLES
  Np_, Nc_,
  v_max_,         \* = -v_min_
  last_solution_, last_accel_,
  v_now,          \* the measured speed, x0
  solved,         \* the constrained problem of this cycle was solved
  v_cmd

vars == <<Np_, Nc_, v_max_, last_solution_, last_accel_, v_now, solved, v_cmd>>

Clip(n, lo, hi) == IF n < lo THEN lo ELSE IF n > hi THEN hi ELSE n
Accels == -AMax .. AMax
Zeros(n) == [j \in 1 .. n |-> 0]

-----------------------------------------------------------------------------
(* buildPredictionMatrix: states are pairs of position and speed. *)

(* A^k applied to a state, and to B. *)
APower(k, x) == <<x[1] + 2 * k * x[2], x[2]>>
APowerB(k) == <<1 + 2 * k, 1>>

Plus(x, y) == <<x[1] + y[1], x[2] + y[2]>>
Times(x, n) == <<x[1] * n, x[2] * n>>

(* A mutant: the last control acts once, as the others. *)
Block_NotHeld(i, j) == IF j <= i THEN APowerB(i - j) ELSE <<0, 0>>

(* The effect of control j on state i, both from 0 on; the last control is *)
(* held to the end of the horizon (hold_last_control_). *)
Block(i, j) ==
  LET held[k \in 0 .. i - j] ==
        IF k = 0 THEN APowerB(0) ELSE Plus(held[k - 1], APowerB(k))
  IN  IF j > i THEN <<0, 0>>
      ELSE IF j < Nc_ - 1 THEN APowerB(i - j)
      ELSE held[i - j]

(* State i, from the state x0 and the controls U. *)
Predicted(x0, U, i) ==
  LET forced[j \in 0 .. Nc_] ==
        IF j = 0 THEN APower(i + 1, x0) ELSE Plus(forced[j - 1], Times(Block(i, j - 1), U[j]))
  IN  forced[Nc_]

(* The controls that keep all rows of buildConstraintMatrix. *)
Feasible ==
  {U \in [1 .. Nc_ -> Accels] :
     \A i \in 0 .. Np_ - 1 : Predicted(<<0, v_now>>, U, i)[2] \in -v_max_ .. v_max_}

-----------------------------------------------------------------------------
(* The constructor, setHorizon *)
SetHorizon(np, nc) ==
  /\ Np_' = Max({np, 1})
  /\ Nc_' = Min({Max({nc, 1}), Np_'})
  /\ last_solution_' = Zeros(Nc_')
  /\ solved' = FALSE
  /\ UNCHANGED <<v_max_, last_accel_, v_now, v_cmd>>

(* The controls of this cycle: those of the solved problem, else the       *)
(* unconstrained ones, the first of them clipped, else none. *)
SetControls(U, ok) ==
  /\ last_solution_' = [U EXCEPT ![1] = Clip(U[1], -AMax, AMax)]
  /\ v_cmd' = Clip(v_now + last_solution_'[1], -v_max_, v_max_)
  /\ last_accel_' = v_cmd' - v_now
  /\ solved' = ok

(* solveVelocityCommand, after setVelocityLimits *)
Solve ==
  /\ \/ \E U \in Feasible : SetControls(U, TRUE)
     \/ \E U \in [1 .. Nc_ -> {-2 * AMax, 0, 2 * AMax}] : SetControls(U, FALSE)
     \/ /\ v_cmd' = Clip(v_now, -v_max_, v_max_)
        /\ last_accel_' = v_cmd' - v_now
        /\ solved' = FALSE
        /\ UNCHANGED last_solution_
  /\ UNCHANGED <<Np_, Nc_, v_max_, v_now>>

(* The next cycle: another measurement, another limit. *)
NextCycle(v, limit) ==
  /\ v_now' = v /\ v_max_' = limit
  /\ solved' = FALSE
  /\ UNCHANGED <<Np_, Nc_, last_solution_, last_accel_, v_cmd>>

Reset ==
  /\ last_accel_' = 0
  /\ last_solution_' = Zeros(Nc_)
  /\ solved' = FALSE
  /\ UNCHANGED <<Np_, Nc_, v_max_, v_now, v_cmd>>

Init ==
  /\ \E h \in Horizons : Np_ = h[1] /\ Nc_ = h[2]
  /\ Np_ >= Nc_ /\ Nc_ >= 1
  /\ v_max_ \in Limits
  /\ last_solution_ = Zeros(Nc_) /\ last_accel_ = 0
  /\ v_now = 0 /\ solved = FALSE /\ v_cmd = 0

Next ==
  \/ \E h \in Horizons : SetHorizon(h[1], h[2])
  \/ Solve
  \/ \E v \in {v_cmd, Clip(v_cmd - 1, -VMax, VMax)}, limit \in Limits : NextCycle(v, limit)
  \/ Reset

Spec == Init /\ [][Next]_vars

-----------------------------------------------------------------------------
(* The robot after i controls of the solution, the last one held. *)
Driven(U) ==
  LET at[i \in 0 .. Np_] ==
        IF i = 0 THEN <<0, v_now>>
        ELSE LET a == U[Min({i, Nc_})] IN Plus(APower(1, at[i - 1]), Times(APowerB(0), a))
  IN  at

(* What the solver takes for the way of the robot is the way the robot     *)
(* drives with these controls: so it is driven within the limits, for the  *)
(* whole horizon, and the command needs no clipping. *)
SolutionIsDriven ==
  solved =>
    /\ \A i \in 1 .. Np_ :
         /\ Driven(last_solution_)[i] = Predicted(<<0, v_now>>, last_solution_, i - 1)
         /\ Driven(last_solution_)[i][2] \in -v_max_ .. v_max_
    /\ v_cmd = v_now + last_solution_[1]
=============================================================================
