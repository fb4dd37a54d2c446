---------------------------- MODULE CurvatureLimit ----------------------------
(***************************************************************************)
(* How the controller slows down for curves: applyCurvatureLimitation of   *)
(* the PID pursuit, samplePathToTimedMpcRefSeq and                         *)
(* applyCurvatureLimitation_mpc of the MPC.  The curvature ahead is        *)
(* sampled, weighted, filtered from cycle to cycle and turned into a limit *)
(* of the speed.                                                           *)
(*                                                                         *)
(* The path is a course of places, each a unit of length from the next: the *)
(* way driven in one cycle at FullSpeed.  A sample is the curvature of the *)
(* circle through three places of it.  Speeds and curvatures are counted   *)
(* in units of the constants.                                              *)
(***************************************************************************)
EXTENDS Integers, Sequences, FiniteSets, FiniteSetsExt, Functions

CONSTANTS
  Courses,          \* the plans: [end, at : place -> coordinates]
  Length,           \* the rounded length of an offset in the plane, in units of the coordinates
  Scale,            \* 2 in units of curvature, for lengths in units of the coordinates
  PlaceLength,      \* the unit of length, in units of the coordinates
  Share,            \* percent of a corner's curvature seen in time, for every course and mode
  RawSpeeds,        \* speeds asked for
  Profile,          \* parameters of the two modes, "pid" and "mpc": ahead, ds, rise, fall, min_speed
  Back, Fwd,        \* curvature_backward_dist_, curvature_forward_dist_
  KappaMin, KappaMax, Hysteresis,
  FormulaVel,       \* sqrt(a_lat_max / kappa), for every curvature
  SlowdownPercent,  \* what pid_curve_max_slowdown_ratio_ leaves of the speed, percent
  RecoverStep,      \* pid_curve_recover_rate_ times the period
  Np,               \* mpc_Np_
  FullSpeed,        \* v_linear_max_
  Carrots,          \* distances of the lookahead point
  CurvatureMin, CurvatureMax,   \* curvature_min_, curvature_max_
  KappaOne,         \* 1 per metre
  ReductionPercent, \* reduction_ratio_at_high_curvature_, percent
  ScaleStep,        \* max_velocity_scaling_factor_rate_ times the period
  LowerSpeed, LastVel,          \* lower_speed_, last_vel_
  LeastScaled       \* twice min_approach_linear_velocity_

VARIABLES
  use_mpc_control_,
  course, robot,    \* the plan, and the place the robot is at
  filtered,         \* pid_ or mpc_curve_filtered_kappa_, of the mode; -1 before the first cycle
  slow,             \* pid_curve_slow_active_
  last,             \* last_velocity_scaling_factor_
  speed,            \* the speed of this cycle, before acceleration is limited
  refs,             \* the reference sequence: places and speeds
  age               \* cycles in which the filter followed this course, up to Settled

vars == <<use_mpc_control_, course, robot, filtered, slow, last, speed, refs, age>>

Clamp(n, lo, hi) == IF n < lo THEN lo ELSE IF n > hi THEN hi ELSE n

Modes == {"pid", "mpc"}
InUse == IF use_mpc_control_ THEN "mpc" ELSE "pid"
Mode == Profile[InUse]
Settled == Max({(KappaMax + Profile[m].rise - 1) \div Profile[m].rise : m \in Modes})

ProfileAssumption ==
  /\ Profile \in [Modes -> [ahead : Nat, ds : Nat \ {0}, rise : Nat \ {0}, fall : Nat, min_speed : Nat]]
  /\ {Back, Fwd, SlowdownPercent, RecoverStep, FullSpeed} \subseteq Nat
  /\ {KappaMin, Hysteresis, Np} \subseteq Nat \ {0}
  /\ KappaMax \in Nat /\ KappaMin < KappaMax
  /\ {CurvatureMin, CurvatureMax, KappaOne, ReductionPercent} \subseteq Nat
  /\ CurvatureMin < CurvatureMax
  /\ {ScaleStep, LowerSpeed, LastVel, LeastScaled} \subseteq Nat

(* The sharper the curve, the slower; and what the slowdown ratio leaves is *)
(* not faster than the slowest limit. *)
SpeedAssumption ==
  /\ FormulaVel \in [1 .. KappaMax -> Nat]
  /\ \A k \in 1 .. KappaMax : \A j \in 1 .. k : FormulaVel[k] <= FormulaVel[j]
  /\ RawSpeeds \subseteq Nat
  /\ \A raw \in RawSpeeds : (SlowdownPercent * raw) \div 100 <= Profile["pid"].min_speed

-----------------------------------------------------------------------------
(* The curvatures seen by the samples ahead of the robot. *)

Offset(p, q) == <<q[1] - p[1], q[2] - p[2]>>
Abs(n) == IF n < 0 THEN -n ELSE n

(* Of points that are not all different there is no circle. *)
Apart(a, b, c) == a # b /\ b # c /\ c # a

(* The curvature of the circle through three points. *)
Curvature(a, b, c) ==
  LET ab == Offset(a, b)
      ac == Offset(a, c)
  IN  IF Apart(a, b, c)
      THEN (Scale * Abs(ab[1] * ac[2] - ab[2] * ac[1])) \div
             (Length[ab] * Length[Offset(b, c)] * Length[ac])
      ELSE 0

(* What is behind the first pose of the local path is not seen. *)
Behind(w, begin, s) == Courses[w].at[Max({begin, s - Back})]
Ahead(w, s) == Courses[w].at[Min({Courses[w].end, s + Fwd})]
KappaAt(w, begin, s) == Curvature(Behind(w, begin, s), Courses[w].at[s], Ahead(w, s))

(* The places where the course changes its direction. *)
Corners(w) ==
  {c \in 1 .. Courses[w].end - 1 :
     LET at == Courses[w].at IN Offset(at[c - 1], at[c]) # Offset(at[c], at[c + 1])}

CourseAssumption ==
  /\ Scale \in Nat /\ PlaceLength \in Nat \ {0} /\ Carrots \subseteq Nat
  /\ \A w \in DOMAIN Courses :
       /\ Courses[w].end \in Nat
       /\ Courses[w].at \in [0 .. Courses[w].end -> Int \X Int]
       /\ \A i, j \in 0 .. Courses[w].end :
            LET at == Courses[w].at
            IN  at[i] # at[j] => Length[Offset(at[i], at[j])] \in Nat \ {0}

(* The distances at which a path that goes on for length is sampled. *)
Reach(p, length) == Min({length, Clamp(p.ahead, 2, Max({2, length}))})
Spots(p, length) == {k * p.ds : k \in 0 .. Reach(p, length) \div p.ds}

(* The distances from start at which there is a sample: the way from the   *)
(* place behind to the one ahead is at least a place long, or none. *)
Sampled(w, m, begin, start) ==
  {x \in Spots(Profile[m], Courses[w].end - start) :
     Apart(Behind(w, begin, start + x), Courses[w].at[start + x], Ahead(w, start + x))}

(* The curvatures there, the largest first: the i-th is the largest that is *)
(* reached by i samples. *)
Samples(w, m, begin, start) ==
  LET spots == Sampled(w, m, begin, start)
      at == [x \in spots |-> KappaAt(w, begin, start + x)]
      Reaching(kappa) == {x \in spots : at[x] >= kappa}
  IN  [i \in 1 .. Cardinality(spots) |->
         Max({kappa \in Range(at) : Cardinality(Reaching(kappa)) >= i})]

(* The top quarter of n samples. *)
Top(n) == Clamp((n + 3) \div 4, Min({2, n}), Min({5, n}))

(* The largest curvature counts half, the rest of the top quarter the other *)
(* half, falling with the rank. *)
Robust(samples) ==
  LET n == Len(samples)
      top == Top(n)
      rest[i \in 0 .. top - 1] == IF i = 0 THEN 0 ELSE rest[i - 1] + (top - i) * samples[i + 1]
  IN  IF n = 0 THEN 0
      ELSE IF top = 1 THEN samples[1]
      ELSE (samples[1] + rest[top - 1] \div ((top * (top - 1)) \div 2)) \div 2

(* What sampling takes of the curvature of a corner, and the cycles in     *)
(* which the filter rises to it. *)
Noted(w, m, c) == (Share[w][m] * Min({KappaMax, KappaAt(w, 0, c)})) \div 100
Needed(w, m, c) == (Noted(w, m, c) + Profile[m].rise - 1) \div Profile[m].rise

(* The local path begins at the pose nearest to the robot; where the robot *)
(* is too far off it, its first pose stands for the robot. *)
Begins(place) == {place, Max({0, place - 1})}

(* From so many places before the corner on, sampling sees that much. *)
SightAssumption ==
  \A w \in DOMAIN Courses, m \in Modes :
    /\ Share[w][m] \in 0 .. 100
    /\ \A c \in Corners(w) :
         \A place \in Max({0, c - Needed(w, m, c)}) .. c - 1 :
           \A begin \in Begins(place) : \A start \in {begin, place} :
             Noted(w, m, c) <= Robust(Samples(w, m, begin, start))

(* A mutant: the steps up and down are swapped. *)
Filter_Swapped(raw, max) ==
  IF filtered = -1 THEN raw
  ELSE Clamp(filtered + Clamp(raw - filtered, -Mode.rise, Mode.fall), 0, max)

(* The filter; max is the larger of the sharpest curvature and, for the PID, KappaMax. *)
Filter(raw, max) ==
  IF filtered = -1 THEN raw
  ELSE Clamp(filtered + Clamp(raw - filtered, -Mode.fall, Mode.rise), 0, max)

-----------------------------------------------------------------------------
(* applyCurvatureLimitation *)

(* Slowing down starts at KappaMin and ends a hysteresis below it. *)
SlowActive(kappa) ==
  IF slow THEN kappa > Max({0, KappaMin - Hysteresis}) ELSE kappa >= KappaMin

Allowed(raw) == Min({raw, Max({Profile["pid"].min_speed, (SlowdownPercent * raw) \div 100})})

LimitOf(kappa, raw) ==
  Clamp(Min({raw, FormulaVel[Clamp(kappa, KappaMin, KappaMax)]}), Allowed(raw), raw)

FilterPid(begin, start) ==
  \E raw \in {Robust(Samples(course, "pid", begin, start))} :
    filtered' = Filter(raw, Max({KappaMax, raw}))

(* Slower at once, faster step by step. *)
Recovered(target) ==
  IF last > 0 /\ target > last THEN Min({target, last + RecoverStep}) ELSE target

(* Fewer than three poses: nothing to see. *)
Straight(begin) == \A c \in Corners(course) : c <= begin

LimitPid(raw, begin, start) ==
  /\ ~use_mpc_control_
  /\ \/ /\ Straight(begin)
        /\ speed' = raw /\ last' = raw
        /\ UNCHANGED <<filtered, slow, age>>
     \/ /\ start < Courses[course].end
        /\ FilterPid(begin, start)
        /\ slow' = SlowActive(filtered')
        /\ speed' = Recovered(IF slow' THEN LimitOf(filtered', raw) ELSE raw)
        /\ last' = speed'
        /\ age' = Min({age + 1, Settled})
  /\ UNCHANGED <<use_mpc_control_, course, robot, refs>>

-----------------------------------------------------------------------------
(* samplePathToTimedMpcRefSeq *)

(* The speed that ends at the end of the path, within the horizon. *)
EffectiveSpeed(v_des, start) == Min({v_des, ((Courses[course].end - start) * FullSpeed) \div Np})

CurveLimit(kappa, v_des) ==
  Clamp(IF kappa > 0 THEN FormulaVel[Min({kappa, KappaMax})] ELSE v_des, Profile["mpc"].min_speed, v_des)

FilterMpc(begin, start) ==
  \E samples \in {Samples(course, "mpc", begin, start)} :
    filtered' = Filter(Robust(samples), Max({Robust(samples)} \cup Range(samples)))

(* The polynomial has a window to fit at all but the first place. *)
FitsTangent(i) == Courses[course].end >= 1 /\ i > 1

(* The places reached in the cycles to come, and the speed at each of them: *)
(* the reference speed along the path, or none where there is no direction, *)
(* because place and neighbours are the end of the path. *)
Refs(start, v) ==
  LET at == [i \in 1 .. Np |-> Min({Courses[course].end, start + (v * i) \div FullSpeed})]
      moves(i) == IF i = 1 THEN at[1] > robot \/ at[2] > at[1] ELSE at[Min({i + 1, Np})] > at[i - 1]
  IN  [i \in 1 .. Np |-> [s |-> at[i], v |-> IF moves(i) \/ FitsTangent(i) THEN v ELSE 0]]

(* calculateCurvature: the lookahead point, and the places before and      *)
(* behind it that are as far along the path as it is from the robot. *)
CarrotKappa(begin, carrot) ==
  LET end == Courses[course].end
      at == Courses[course].at
      Along(d) == at[Clamp(begin + d, begin, end)]
      dist == IF at[carrot] = at[robot] THEN 0
              ELSE (Length[Offset(at[robot], at[carrot])] + PlaceLength \div 2) \div PlaceLength
  IN  Curvature(Along(dist - Back), at[carrot], Along(dist + Fwd))

(* The speed that the lookahead point allows. *)
Reduced(v, kappa) ==
  IF kappa > CurvatureMax THEN (ReductionPercent * v) \div 100
  ELSE v - (v * (kappa - CurvatureMin) * (100 - ReductionPercent)) \div (100 * (CurvatureMax - CurvatureMin))

(* The speed is led to it from the last one, by larger steps in a sharp    *)
(* curve; from a lower speed it is not led at all. *)
Led(v, kappa) ==
  LET target == Reduced(v, kappa)
  IN  IF kappa <= CurvatureMin THEN v
      ELSE IF kappa > KappaOne /\ last > LastVel
      THEN last + Clamp(target - last, -LowerSpeed, LowerSpeed)
      ELSE IF last > target THEN last + Clamp(target - last, -ScaleStep, ScaleStep) ELSE v

(* applyCurvatureLimitation_mpc, for a command that is not zero. *)
ScaledByMpc(v, kappa) == Min({v, Max({Led(v, kappa), LeastScaled})})

LimitMpc(v, begin) ==
  \/ v = 0 /\ speed' = 0 /\ UNCHANGED last
  \/ /\ v > 0
     /\ \E d \in Carrots :
          speed' = ScaledByMpc(v, CarrotKappa(begin, Min({Courses[course].end, robot + d})))
     /\ last' = speed'

(* The solver answers with the speed of the references; when they stand at *)
(* the end of the path, with that or with none. *)
TimedRefs(v_des, begin, start) ==
  /\ use_mpc_control_
  /\ \/ /\ Courses[course].end <= start    \* the end of the path, again and again
        /\ refs' = [i \in 1 .. Np |-> [s |-> Courses[course].end, v |-> 0]]
        /\ \E v \in {0, v_des} : LimitMpc(v, begin)
        /\ UNCHANGED <<filtered, age>>
     \/ /\ Courses[course].end > start
        /\ FilterMpc(begin, start)
        /\ \E v \in {Min({EffectiveSpeed(v_des, start), CurveLimit(filtered', v_des)})} :
             /\ refs' = Refs(start, v)
             /\ LimitMpc(v, begin)
        /\ age' = Min({age + 1, Settled})
  /\ UNCHANGED <<use_mpc_control_, course, robot, slow>>

-----------------------------------------------------------------------------
Init ==
  /\ use_mpc_control_ \in BOOLEAN
  /\ course \in DOMAIN Courses
  /\ robot = 0
  /\ filtered = -1
  /\ slow = FALSE
  /\ last = 0 /\ speed = 0
  /\ refs = <<>>
  /\ age = 0

(* The next cycle, for which the robot has driven on or not. *)
Drive ==
  /\ speed > 0
  /\ robot' \in {robot, robot + 1} \cap (0 .. Courses[course].end)
  /\ speed' = 0 /\ refs' = <<>>
  /\ UNCHANGED <<use_mpc_control_, course, filtered, slow, last, age>>

(* Another plan: the filters keep what they know of the old one. *)
SetPlan(c) ==
  /\ course' = c /\ robot' = 0 /\ age' = 0
  /\ UNCHANGED <<use_mpc_control_, filtered, slow, last, speed, refs>>

Next ==
  \/ Drive
  \/ \E c \in DOMAIN Courses : SetPlan(c)
  \/ \E raw \in RawSpeeds, begin \in Begins(robot) : \E start \in {begin, robot} :
       speed = 0 /\ (LimitPid(raw, begin, start) \/ TimedRefs(raw, begin, start))

Spec == Init /\ [][Next]_vars

-----------------------------------------------------------------------------
(* In the cycle before a corner, a robot that has followed a plan long     *)
(* enough is given a speed that fits the corner, as far as sampling saw it *)
(* in time: the limit has come down before the robot is there, although    *)
(* the filter rises step by step and the samples on both sides of a corner *)
(* see less of it the farther it is from their middle. *)
LimitedAtCorner ==
  speed > 0 /\ age >= Settled =>
    \A c \in Corners(course) \cap {robot + 1} :
      LET kappa == Noted(course, InUse, c)
      IN  kappa >= KappaMin => speed <= Max({FormulaVel[kappa], Mode.min_speed})
=============================================================================
