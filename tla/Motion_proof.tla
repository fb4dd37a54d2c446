------------------------------ MODULE Motion_proof ------------------------------
(***************************************************************************)
(* What is between a plan and the chassis: the watchdog stops the robot    *)
(* for every speed, deceleration, timeout and timer period; a cycle acts   *)
(* only on a task that is not over; the solver's way is the one that is    *)
(* driven; the local path has no line that nobody has looked at; a goal    *)
(* given early enough is not overrun; and before a corner the speed is     *)
(* limited to what sampling takes of its curvature.                        *)
(***************************************************************************)
EXTENDS PathSmoothing_proof

-----------------------------------------------------------------------------
(* The part of the invariant that carries the bound: the run of the timer  *)
(* at which the command was already out of date has taken the speed down   *)
(* by all the time since the timeout. *)
RampDown ==
  cmd_age - limit_age >= CONTROLLER_TIMEOUT =>
    \/ limited = 0
    \/ Abs(limited)
         + max_linear_deceleration * (cmd_age - limit_age - CONTROLLER_TIMEOUT + 1) <= MaxSpeed

WatchdogInv == TypeOK /\ RampDown

(* A longer time step of the limiter takes off at least as much speed. *)
LEMMA Monotone ==
  ASSUME NEW d \in Nat, NEW m \in Int, NEW n \in Int, m <= n
  PROVE  d * m <= d * n
  BY SMT

LEMMA Distributes ==
  ASSUME NEW d \in Nat, NEW m \in Int, NEW n \in Int
  PROVE  d * (m + n) = d * m + d * n
  BY SMT

LEMMA AbsOfSpeed ==
  ASSUME NEW v \in Speeds
  PROVE  Abs(v) \in Nat /\ Abs(v) <= MaxSpeed /\ (v # 0 => Abs(v) >= 1)
  BY LimitAssumption DEF Speeds, Abs

(* The time step covers the time since the last run of the timer. *)
LEMMA DtCovers ==
  ASSUME TypeOK
  PROVE  Dt \in Nat /\ Dt >= limit_age /\ MaxDelta \in Nat
<1>1. Dt \in Nat /\ Dt >= limit_age
  BY LimitAssumption, LateAssumption DEF TypeOK, Dt
<1>2. MaxDelta \in Nat
  BY <1>1, LimitAssumption, SMT DEF MaxDelta
<1> QED BY <1>1, <1>2

(* The limiter stays between the old velocity and the target; towards rest *)
(* it arrives or takes off the whole of its step. *)
LEMMA LimitIsBetween ==
  ASSUME TypeOK, NEW target \in Speeds
  PROVE  /\ Limit(target) \in Speeds
         /\ Abs(Limit(target)) > Abs(limited) => Limit(target) = target
         /\ target = 0 => \/ Limit(target) = 0
                          \/ Abs(Limit(target)) + MaxDelta = Abs(limited)
<1> DEFINE m == MaxDelta
<1>1. m \in Nat BY DtCovers
<1>2. limited \in Int /\ target \in Int /\ MaxSpeed \in Nat
  BY LimitAssumption DEF TypeOK, Speeds
<1>3. -MaxSpeed <= limited /\ limited <= MaxSpeed /\ -MaxSpeed <= target /\ target <= MaxSpeed
  BY LimitAssumption DEF TypeOK, Speeds
<1>4. Limit(target) = IF enable_limit /\ Abs(target) < Abs(limited) /\ Abs(target - limited) > m
                      THEN IF target > limited THEN limited + m ELSE limited - m
                      ELSE target
  BY DEF Limit
<1> HIDE DEF m
<1>5. CASE enable_limit /\ Abs(target) < Abs(limited) /\ Abs(target - limited) > m
  <2>1. CASE target > limited
    <3>1. Limit(target) = limited + m BY <1>4, <1>5, <2>1
    <3> QED BY <3>1, <1>1, <1>2, <1>3, <1>5, <2>1, SMT DEF Abs, Speeds, m
  <2>2. CASE ~(target > limited)
    <3>1. Limit(target) = limited - m BY <1>4, <1>5, <2>2
    <3> QED BY <3>1, <1>1, <1>2, <1>3, <1>5, <2>2, SMT DEF Abs, Speeds, m
  <2> QED BY <2>1, <2>2
<1>6. CASE ~(enable_limit /\ Abs(target) < Abs(limited) /\ Abs(target - limited) > m)
  BY <1>4, <1>6
<1> QED BY <1>5, <1>6

LEMMA TargetIsSpeed ==
  ASSUME TypeOK
  PROVE  Target \in Speeds /\ (cmd_age >= CONTROLLER_TIMEOUT => Target = 0)
  BY LimitAssumption DEF TypeOK, Target, Speeds

(* Every step keeps the invariant. *)
LEMMA Step == WatchdogInv /\ [Next]_vars => WatchdogInv'
<1> SUFFICES ASSUME WatchdogInv, [Next]_vars PROVE WatchdogInv' OBVIOUS
<1> USE LimitAssumption, LateAssumption DEF WatchdogInv
<1>1. ASSUME NEW v \in Speeds, CmdVel(v) PROVE WatchdogInv'
  <2>1. TypeOK' BY <1>1 DEF CmdVel, TypeOK
  <2>2. RampDown' BY <1>1 DEF CmdVel, TypeOK, RampDown
  <2> QED BY <2>1, <2>2
<1>2. CASE Publish
  <2>1. Limit(Target) \in Speeds BY TargetIsSpeed, LimitIsBetween
  <2>2. TypeOK' BY <1>2, <2>1 DEF Publish, TypeOK
  <2>3. RampDown'
    <3> SUFFICES ASSUME cmd_age >= CONTROLLER_TIMEOUT, limited' # 0
                 PROVE  Abs(limited') + max_linear_deceleration
                          * (cmd_age - CONTROLLER_TIMEOUT + 1) <= MaxSpeed
      BY <1>2 DEF Publish, RampDown, TypeOK
    <3> DEFINE d == max_linear_deceleration
               a == cmd_age - limit_age - CONTROLLER_TIMEOUT + 1
               b == cmd_age - CONTROLLER_TIMEOUT + 1
    <3>1. Abs(limited') + d * Dt = Abs(limited)
      BY <1>2, TargetIsSpeed, LimitIsBetween DEF Publish, MaxDelta
    <3>2. a \in Int /\ b \in Int /\ limit_age \in Int /\ b = a + limit_age
      BY DEF TypeOK
    <3>3. Abs(limited) \in Nat /\ Abs(limited') \in Nat /\ Abs(limited) <= MaxSpeed
      BY <2>2, AbsOfSpeed DEF TypeOK
    <3>4. Dt \in Nat /\ Dt >= limit_age BY DtCovers
    <3>5. d * limit_age <= d * Dt BY <3>2, <3>4, Monotone
    <3>6. d \in Nat /\ d * Dt \in Int /\ d * a \in Int /\ d * b \in Int /\ d * limit_age \in Int
      BY <3>2, <3>4, SMT
    <3>7. CASE a >= 1
      <4>1. Abs(limited) + d * a <= MaxSpeed
        <5>1. limited' \in Speeds BY <2>2 DEF TypeOK
        <5>2. Abs(limited') >= 1 BY <5>1, AbsOfSpeed
        <5>3. d * Dt >= 0 BY <3>4, <3>6, Monotone, SMT
        <5>4. Abs(limited) > 0
          <6> HIDE DEF d
          <6> QED BY <5>2, <5>3, <3>1, <3>3, <3>6
        <5>5. limited # 0 BY <5>4 DEF Abs
        <5> QED BY <5>5, <3>7 DEF RampDown, TypeOK
      <4>2. d * b = d * a + d * limit_age BY <3>2, Distributes
      <4> HIDE DEF a, b, d
      <4> QED BY <4>1, <4>2, <3>1, <3>3, <3>5, <3>6 DEF b, d
    <3>8. CASE a < 1
      <4>1. b <= Dt BY <3>2, <3>4, <3>8
      <4>2. d * b <= d * Dt BY <4>1, <3>2, <3>4, Monotone
      <4> HIDE DEF a, b, d
      <4> QED BY <4>2, <3>1, <3>3, <3>6 DEF b, d
    <3> QED BY <3>2, <3>7, <3>8
  <2> QED BY <2>2, <2>3
<1>3. CASE Tick
  <2>1. TypeOK' BY <1>3 DEF Tick, TypeOK
  <2>2. cmd_age' - limit_age' = cmd_age - limit_age BY <1>3 DEF Tick, TypeOK
  <2>3. RampDown' BY <1>3, <2>2 DEF Tick, RampDown
  <2> QED BY <2>1, <2>3
<1>4. CASE UNCHANGED vars BY <1>4 DEF vars, TypeOK, RampDown
<1> QED BY <1>1, <1>2, <1>3, <1>4 DEF Next

LEMMA InitHolds == Init => WatchdogInv
  BY LimitAssumption DEF Init, WatchdogInv, TypeOK, RampDown, Speeds

(* The bound follows from the invariant. *)
LEMMA RampIsOver == WatchdogInv => StopsWhenSilent
<1> SUFFICES ASSUME WatchdogInv, NEW ramp \in 1 .. MaxSpeed,
                    max_linear_deceleration * ramp >= MaxSpeed,
                    cmd_age >= CONTROLLER_TIMEOUT + MaxLate + ramp - 1,
                    limited # 0
             PROVE  FALSE
  BY DEF StopsWhenSilent
<1> USE LimitAssumption
<1> DEFINE d == max_linear_deceleration
           a == cmd_age - limit_age - CONTROLLER_TIMEOUT + 1
<1>1. a \in Int /\ a >= ramp /\ ramp \in Nat /\ ramp >= 1 BY DEF WatchdogInv, TypeOK
<1>2. Abs(limited) + d * a <= MaxSpeed BY <1>1 DEF WatchdogInv, TypeOK, RampDown
<1>3. d * ramp <= d * a BY <1>1, Monotone
<1>4. Abs(limited) \in Nat /\ Abs(limited) >= 1 BY DEF WatchdogInv, TypeOK, Speeds, Abs
<1>5. d * a \in Int /\ d * ramp \in Int /\ d * ramp >= MaxSpeed BY <1>1, SMT
<1> HIDE DEF a, d
<1> QED BY <1>2, <1>3, <1>4, <1>5

(* Type correctness for every value of the constants. *)
THEOREM TypeCorrect == Spec => []TypeOK
<1>1. WatchdogInv => TypeOK BY DEF WatchdogInv
<1> QED BY InitHolds, Step, <1>1, PTL DEF Spec

(* A silent controller stops the robot within the stated time, however the *)
(* timer is delayed within its bound. *)
THEOREM SilenceStops == Spec => []StopsWhenSilent
  BY InitHolds, Step, RampIsOver, PTL DEF Spec

(* The speed rises only to a command that is not out of date. *)
THEOREM SpeedRisesToCommand == Spec => NoSurge
<1>1. WatchdogInv /\ [Next]_vars =>
        [Abs(limited') > Abs(limited)
           => cmd_age < CONTROLLER_TIMEOUT /\ limited' = last_cmd_vel]_vars
  <2> SUFFICES ASSUME WatchdogInv, Next, Abs(limited') > Abs(limited)
               PROVE  cmd_age < CONTROLLER_TIMEOUT /\ limited' = last_cmd_vel
    BY DEF vars
  <2>1. limited' # limited BY LimitAssumption DEF WatchdogInv, TypeOK, Speeds, Abs
  <2>2. Publish BY <2>1 DEF Next, CmdVel, Tick
  <2>3. limited' = Target BY <2>2, TargetIsSpeed, LimitIsBetween DEF WatchdogInv, Publish
  <2>4. Target # 0 BY <2>3, LimitAssumption DEF WatchdogInv, TypeOK, Speeds, Abs
  <2> QED BY <2>3, <2>4, LimitAssumption DEF Target, WatchdogInv, TypeOK
<1> QED BY InitHolds, Step, <1>1, PTL DEF Spec, NoSurge

-----------------------------------------------------------------------------
(* The task (RmTask).  The value is never older than the time that stands  *)
(* for it: the value is stored first and read last. *)
AgesAgree ==
  /\ {value_age, receive_age, message_age} \subseteq 0 .. Task!Outdated
  /\ stored \in 0 .. 2
  /\ value_age = IF stored = 0 THEN receive_age ELSE message_age
  /\ message_age <= receive_age
  /\ stored = 2 => receive_age = message_age

(* What the cycle found recent is still recent: no time passes in a cycle, *)
(* and what is stored meanwhile is younger. *)
FreshInCycle ==
  /\ reader # "idle" /\ fresh => receive_age <= Timeout
  /\ reader = "read" /\ task \in {1, 2} => fresh

TaskInv == AgesAgree /\ FreshInCycle

LEMMA TaskInit == Task!TimeoutAssumption /\ Task!Init => TaskInv
  BY DEF Task!Init, Task!TimeoutAssumption, Task!Outdated, TaskInv, AgesAgree, FreshInCycle

LEMMA TaskStep ==
  ASSUME Task!TimeoutAssumption, TaskInv, [Task!Next]_taskVars
  PROVE  TaskInv'
<1> USE DEF TaskInv, AgesAgree, FreshInCycle, Task!TimeoutAssumption, Task!Outdated
<1>1. ASSUME NEW t \in Tasks, Task!Hear(t) PROVE TaskInv'
  BY <1>1 DEF Task!Hear
<1>2. CASE Task!Store
  <2>1. CASE stored = 0
    <3>1. Task!Stores[stored + 1] = "value"
      BY <2>1 DEF Task!Stores
    <3>2. rm_task_value_' = message /\ value_age' = message_age /\ stored' = 1
          /\ UNCHANGED <<receive_age, message_age, reader, fresh, task>>
      BY <1>2, <2>1, <3>1 DEF Task!Store
    <3>3. QED BY <2>1, <3>2
  <2>2. CASE stored = 1
    <3>1. Task!Stores[stored + 1] = "time"
      BY <2>2 DEF Task!Stores
    <3>2. receive_age' = message_age /\ stored' = 2
          /\ UNCHANGED <<value_age, message_age, reader, fresh, task>>
      BY <1>2, <2>2, <3>1 DEF Task!Store
    <3>3. QED BY <2>2, <3>2
  <2>3. stored \in {0, 1}
    BY <1>2 DEF Task!Store
  <2>4. QED BY <2>1, <2>2, <2>3
<1>3. CASE Task!ReadTime
  <2>1. fresh' => receive_age <= Timeout
    BY <1>3, Zenon DEF Task!ReadTime
  <2>2. QED BY <1>3, <2>1 DEF Task!ReadTime, Task!listening
<1>4. CASE Task!ReadValue
  BY <1>4 DEF Task!ReadValue, Task!listening
<1>5. CASE Task!EndCycle
  BY <1>5 DEF Task!EndCycle, Task!listening
<1>6. CASE Task!Tick
  <2>1. AgesAgree'
    BY <1>6 DEF Task!Tick
  <2>2. FreshInCycle'
    BY <1>6 DEF Task!Tick
  <2>3. QED BY <2>1, <2>2
<1>7. CASE UNCHANGED taskVars
  BY <1>7 DEF taskVars
<1>8. QED
  BY <1>1, <1>2, <1>3, <1>4, <1>5, <1>6, <1>7 DEF Task!Next

(* The controller drives straight only for a task it was told within the   *)
(* timeout, whatever the values, the timeout and the place in a cycle where *)
(* a message comes in. *)
THEOREM TaskIsNotOver == Task!Init /\ [][Task!Next]_taskVars => []TaskIsCurrent
<1>1. TaskInv => TaskIsCurrent
  BY MCAssumption DEF TaskInv, AgesAgree, FreshInCycle, TaskIsCurrent, Task!TaskIsCurrent,
         Task!direct_drive_request, Task!TimeoutAssumption, Task!Outdated
<1>2. Task!Init => TaskInv
  BY TaskInit, MCAssumption
<1>3. TaskInv /\ [Task!Next]_taskVars => TaskInv'
  BY TaskStep, MCAssumption
<1>4. QED BY <1>1, <1>2, <1>3, PTL

-----------------------------------------------------------------------------
(* The local path (LocalPath). *)

(* A line of the path, or one that has been found free. *)
Allowed(e, path, a, b) ==
  \/ \E k \in 1 .. Len(path) - 1 : path[k] = a /\ path[k + 1] = b
  \/ ~Path!Collides(e, a, b)

AllAllowed(e, path, out) == \A i \in 1 .. Len(out) - 1 : Allowed(e, path, out[i], out[i + 1])

(* What RemoveCornerPts has after looking at path[i]: allowed lines up to   *)
(* prev, from where the line to the next pose is allowed as well. *)
KeptSoFar(e, path, i, s) ==
  /\ s.out \in Seq(Path!Cells) /\ Len(s.out) > 0 /\ s.out[Len(s.out)] = s.prev
  /\ AllAllowed(e, path, s.out)
  /\ Allowed(e, path, s.prev, path[i + 1])

LEMMA AppendAllowed ==
  ASSUME NEW e, NEW path, NEW out \in Seq(Path!Cells), NEW x \in Path!Cells, Len(out) > 0,
         AllAllowed(e, path, out), Allowed(e, path, out[Len(out)], x)
  PROVE  /\ Append(out, x) \in Seq(Path!Cells) /\ Len(Append(out, x)) > 0
         /\ Append(out, x)[Len(Append(out, x))] = x
         /\ AllAllowed(e, path, Append(out, x))
<1> DEFINE s == Append(out, x)
<1>1. /\ Len(out) \in Nat /\ s \in Seq(Path!Cells) /\ Len(s) = Len(out) + 1
      /\ s[Len(out) + 1] = x /\ \A i \in 1 .. Len(out) : s[i] = out[i]
  OBVIOUS
<1> HIDE DEF s
<1>2. ASSUME NEW i \in 1 .. Len(s) - 1 PROVE Allowed(e, path, s[i], s[i + 1])
  <2>1. CASE i = Len(out)
    <3>1. s[i] = out[Len(out)] /\ s[i + 1] = x
      BY <1>1, <2>1
    <3>2. QED BY <3>1
  <2>2. CASE i # Len(out)
    <3>1. i \in 1 .. Len(out) - 1 /\ s[i] = out[i] /\ s[i + 1] = out[i + 1]
      BY <1>1, <2>2
    <3>2. QED BY <3>1 DEF AllAllowed
  <2>3. QED BY <2>1, <2>2
<1>3. QED BY <1>1, <1>2 DEF AllAllowed, s

(* A pose is left out only if the way past it is free. *)
LEMMA CornerKeeps ==
  ASSUME NEW e, NEW path \in Seq(Path!Cells), NEW i \in 2 .. Len(path) - 1,
         NEW s, KeptSoFar(e, path, i - 1, s)
  PROVE  KeptSoFar(e, path, i, Path!Corner(e, path, s, i))
<1> DEFINE c == Path!Corner(e, path, s, i)
<1>1. path[i] \in Path!Cells /\ (i - 1) + 1 = i
  OBVIOUS
<1>2. CASE Path!Dist(s.prev, path[i + 1]) <= max_skip_distance /\ Path!LeavesOut(e, path, s, i)
  <2>1. c = [s EXCEPT !.cost1 = Path!CostOf(e, s.prev, path[i + 1])]
    BY <1>2 DEF Path!Corner
  <2>2. c.out = s.out /\ c.prev = s.prev
    BY <2>1
  <2>3. Allowed(e, path, s.prev, path[i + 1])
    BY <1>2 DEF Path!LeavesOut, Allowed
  <2>4. QED BY <2>2, <2>3 DEF KeptSoFar
<1>3. CASE ~(Path!Dist(s.prev, path[i + 1]) <= max_skip_distance /\ Path!LeavesOut(e, path, s, i))
  <2>1. c = [out |-> Append(s.out, path[i]), cost1 |-> Path!Dist(path[i], path[i + 1]), prev |-> path[i]]
    BY <1>3 DEF Path!Corner
  <2>2. c.out = Append(s.out, path[i]) /\ c.prev = path[i]
    BY <2>1
  <2> HIDE DEF c
  <2>3. Allowed(e, path, s.out[Len(s.out)], path[i])
    BY <1>1 DEF KeptSoFar
  <2>4. /\ Append(s.out, path[i]) \in Seq(Path!Cells) /\ Len(Append(s.out, path[i])) > 0
        /\ Append(s.out, path[i])[Len(Append(s.out, path[i]))] = path[i]
        /\ AllAllowed(e, path, Append(s.out, path[i]))
    <3> DEFINE out == s.out
               x == path[i]
    <3>1. /\ out \in Seq(Path!Cells) /\ x \in Path!Cells /\ Len(out) > 0
          /\ AllAllowed(e, path, out) /\ Allowed(e, path, out[Len(out)], x)
      BY <1>1, <2>3 DEF KeptSoFar
    <3> HIDE DEF out, x
    <3>2. /\ Append(out, x) \in Seq(Path!Cells) /\ Len(Append(out, x)) > 0
          /\ Append(out, x)[Len(Append(out, x))] = x
          /\ AllAllowed(e, path, Append(out, x))
      BY <3>1, AppendAllowed
    <3>3. QED BY <3>2 DEF out, x
  <2>5. Allowed(e, path, path[i], path[i + 1])
    BY DEF Allowed
  <2>6. QED BY <2>2, <2>4, <2>5 DEF KeptSoFar, c
<1>4. QED BY <1>2, <1>3

LEMMA PathAllowed ==
  ASSUME NEW e, NEW path
  PROVE  AllAllowed(e, path, path)
BY DEF AllAllowed, Allowed

(* The local path without its corners has only allowed lines. *)
LEMMA CornersAllowed ==
  ASSUME NEW e, NEW path \in Seq(Path!Cells)
  PROVE  AllAllowed(e, path, Path!RemoveCornerPts(e, path))
<1>1. CASE Len(path) < 4
  <2>1. Path!RemoveCornerPts(e, path) = path
    BY <1>1 DEF Path!RemoveCornerPts
  <2>2. QED BY <2>1, PathAllowed
<1>2. CASE ~(Len(path) < 4)
  <2> DEFINE N == Len(path)
             C == Path!Cells
             Lengths == {Path!Dist(a, b) : a \in C, b \in C} \cup {Path!Unaffordable}
             V == [out : Seq(C), cost1 : Lengths, prev : C]
             First == [out |-> <<path[1]>>, cost1 |-> Path!CostOf(e, path[1], path[2]),
                       prev |-> path[1]]
             F == [n \in Nat |-> [t \in V |->
                     IF n \in 1 .. N - 2 THEN Path!Corner(e, path, t, n + 1) ELSE t]]
             done[i \in 1 .. N - 1] ==
               IF i = 1 THEN [out |-> <<path[1]>>, cost1 |-> Path!CostOf(e, path[1], path[2]),
                              prev |-> path[1]]
               ELSE CHOOSE s \in {Path!Corner(e, path, t, i) : t \in {done[i - 1]}} : TRUE
  <2>1. Path!RemoveCornerPts(e, path) = Append(done[N - 1].out, path[N])
    BY <1>2, Zenon DEF Path!RemoveCornerPts
  <2>2. N \in Nat /\ N >= 4 /\ \A i \in 1 .. N : path[i] \in C
    BY <1>2
  <2> HIDE DEF N, C
  <2>3. \A a, b \in C : Path!Dist(a, b) \in Lengths /\ Path!CostOf(e, a, b) \in Lengths
    BY DEF Path!CostOf
  <2> HIDE DEF Lengths
  <2>4. First \in V
    BY <2>2, <2>3
  <2>5. ASSUME NEW t \in V, NEW i \in 2 .. N - 1 PROVE Path!Corner(e, path, t, i) \in V
    <3>1. path[i] \in C /\ path[i + 1] \in C /\ t.prev \in C /\ t.out \in Seq(C)
      BY <2>2
    <3>2. Append(t.out, path[i]) \in Seq(C)
      BY <3>1
    <3>3. [t EXCEPT !.cost1 = Path!CostOf(e, t.prev, path[i + 1])] \in V
      BY <2>3, <3>1
    <3>4. [out |-> Append(t.out, path[i]), cost1 |-> Path!Dist(path[i], path[i + 1]),
           prev |-> path[i]] \in V
      BY <2>3, <3>1, <3>2
    <3>5. QED BY <3>3, <3>4 DEF Path!Corner
  <2>6. \A n \in Nat, t \in V : F[n][t] \in V
    <3> TAKE n \in Nat, t \in V
    <3>1. CASE n \in 1 .. N - 2
      <4>1. n + 1 \in 2 .. N - 1
        BY <2>2, <3>1
      <4>2. Path!Corner(e, path, t, n + 1) \in V
        BY <2>5, <4>1
      <4>3. QED BY <3>1, <4>2
    <3>2. CASE n \notin 1 .. N - 2
      BY <3>2
    <3>3. QED BY <3>1, <3>2
  <2>7. ASSUME NEW n \in 1 .. N - 2, NEW t \in V PROVE F[n][t] = Path!Corner(e, path, t, n + 1)
    BY <2>7
  <2> HIDE DEF F, V, First
  <2>8. StaysIn(F, V)
    BY <2>6 DEF StaysIn
  <2>9. N - 2 \in Nat
    BY <2>2
  <2>10. PICK g : Steps(g, N - 2, V, First, F)
    BY <2>4, <2>8, <2>9, Recursion, Zenon
  <2> DEFINE d == [i \in 1 .. N - 1 |-> g[i - 1]]
  <2>11. d = [i \in 1 .. N - 1 |->
                IF i = 1 THEN First
                ELSE CHOOSE s \in {Path!Corner(e, path, t, i) : t \in {d[i - 1]}} : TRUE]
    <3>1. d[1] = First
      BY <2>2, <2>10 DEF Steps
    <3>2. ASSUME NEW i \in 1 .. N - 1, i # 1
          PROVE  d[i] = CHOOSE s \in {Path!Corner(e, path, t, i) : t \in {d[i - 1]}} : TRUE
      <4>1. i - 1 \in 1 .. N - 2 /\ (i - 1) + 1 = i /\ i - 1 \in 0 .. N - 2 /\ (i - 1) - 1 \in 0 .. N - 2
            /\ i - 1 \in 1 .. N - 1
        BY <2>2, <3>2
      <4>2. d[i] = g[i - 1] /\ d[i - 1] = g[(i - 1) - 1]
        BY <4>1
      <4>3. g[(i - 1) - 1] \in V /\ g[i - 1] = F[i - 1][g[(i - 1) - 1]]
        BY <2>10, <4>1 DEF Steps
      <4>4. d[i] = Path!Corner(e, path, d[i - 1], i)
        BY <2>7, <4>1, <4>2, <4>3
      <4> HIDE DEF d
      <4>5. {Path!Corner(e, path, t, i) : t \in {d[i - 1]}} = {d[i]}
        BY <4>4
      <4>6. QED BY <4>5, OnlyOne
    <3>3. DOMAIN d = 1 .. N - 1 /\ d = [i \in 1 .. N - 1 |-> d[i]]
      OBVIOUS
    <3> HIDE DEF d
    <3>4. QED BY <3>1, <3>2, <3>3
  <2>12. done = [i \in 1 .. N - 1 |->
                   IF i = 1 THEN First
                   ELSE CHOOSE s \in {Path!Corner(e, path, t, i) : t \in {done[i - 1]}} : TRUE]
    <3> HIDE DEF d
    <3>1. QED BY <2>11, Zenon DEF First
  <2> HIDE DEF done
  <2>13. done[1] = First
    BY <2>2, <2>12
  <2>14. ASSUME NEW i \in 1 .. N - 1, i # 1
         PROVE  done[i] = Path!Corner(e, path, done[i - 1], i)
    <3>1. done[i] = CHOOSE s \in {Path!Corner(e, path, t, i) : t \in {done[i - 1]}} : TRUE
      BY <2>12, <2>14
    <3>2. {Path!Corner(e, path, t, i) : t \in {done[i - 1]}} = {Path!Corner(e, path, done[i - 1], i)}
      OBVIOUS
    <3>3. QED BY <3>1, <3>2, OnlyOne
  <2> DEFINE S == {n \in Nat : n + 1 <= N - 1 => KeptSoFar(e, path, n + 1, done[n + 1])}
  <2>15. 0 \in S
    <3>1. path[1] \in Path!Cells
      BY <2>2 DEF C
    <3>2. First.out = <<path[1]>> /\ First.prev = path[1]
      BY DEF First
    <3>3. /\ First.out \in Seq(Path!Cells) /\ Len(First.out) > 0 /\ First.out[Len(First.out)] = First.prev
          /\ AllAllowed(e, path, First.out)
      BY <3>1, <3>2 DEF AllAllowed
    <3>4. Allowed(e, path, First.prev, path[1 + 1])
      <4>1. 1 \in 1 .. Len(path) - 1
        BY <2>2 DEF N
      <4>2. QED BY <3>2, <4>1 DEF Allowed
    <3>5. KeptSoFar(e, path, 1, done[1])
      BY <2>13, <3>3, <3>4 DEF KeptSoFar
    <3>6. 0 + 1 = 1
      OBVIOUS
    <3>7. QED BY <3>5, <3>6
  <2>16. ASSUME NEW n \in Nat, n \in S PROVE n + 1 \in S
    <3> DEFINE i == (n + 1) + 1
    <3> SUFFICES ASSUME i <= N - 1 PROVE KeptSoFar(e, path, i, done[i])
      OBVIOUS
    <3>1. i \in 1 .. N - 1 /\ i # 1 /\ i - 1 = n + 1 /\ i \in 2 .. Len(path) - 1 /\ n + 1 <= N - 1
      BY <2>2 DEF N
    <3>2. KeptSoFar(e, path, i - 1, done[i - 1])
      BY <2>16, <3>1
    <3> HIDE DEF i
    <3>3. done[i] = Path!Corner(e, path, done[i - 1], i)
      BY <2>14, <3>1
    <3>4. QED BY <3>1, <3>2, <3>3, CornerKeeps
  <2> HIDE DEF S
  <2>17. Nat \subseteq S
    BY <2>15, <2>16, SetInduction
  <2>18. KeptSoFar(e, path, N - 1, done[N - 1])
    <3>1. N - 2 \in S /\ (N - 2) + 1 = N - 1
      BY <2>2, <2>17
    <3>2. QED BY <2>2, <3>1 DEF S
  <2> DEFINE out == done[N - 1].out
             x == path[N]
  <2>19. /\ out \in Seq(Path!Cells) /\ x \in Path!Cells /\ Len(out) > 0
         /\ AllAllowed(e, path, out) /\ Allowed(e, path, out[Len(out)], x)
    <3>1. (N - 1) + 1 = N /\ path[N] \in Path!Cells
      BY <2>2 DEF C
    <3>2. QED BY <2>18, <3>1 DEF KeptSoFar
  <2> HIDE DEF out, x
  <2>20. AllAllowed(e, path, Append(out, x))
    BY <2>19, AppendAllowed
  <2>21. QED BY <2>1, <2>20 DEF out, x
<1>3. QED BY <1>1, <1>2

LEMMA RootExists ==
  ASSUME NEW n \in Nat, NEW b \in Nat, n < (b + 1) * (b + 1)
  PROVE  \E r \in 0 .. b : r * r <= n /\ n < (r + 1) * (r + 1)
<1> DEFINE T == {r \in Nat : n < (r + 1) * (r + 1)}
<1>1. T \subseteq Nat /\ b \in T
  OBVIOUS
<1> HIDE DEF T
<1>2. PICK r \in T : \A y \in T : ~(y < r)
  BY <1>1, LeastMember
<1>3. r \in Nat /\ r <= b
  BY <1>1, <1>2
<1>4. n < (r + 1) * (r + 1)
  BY <1>2 DEF T
<1>5. r * r <= n
  <2>1. CASE r = 0
    BY <2>1
  <2>2. CASE r # 0
    <3> DEFINE p == r - 1
    <3>1. p \in Nat /\ p < r /\ p + 1 = r
      BY <1>3, <2>2
    <3> HIDE DEF p
    <3>2. p \notin T
      BY <1>2, <3>1
    <3>3. ~(n < r * r)
      BY <3>1, <3>2 DEF T
    <3>4. r * r \in Nat
      BY <1>3
    <3>5. QED BY <3>3, <3>4
  <2>3. QED BY <2>1, <2>2
<1>6. r \in 0 .. b
  BY <1>3
<1>7. QED BY <1>4, <1>5, <1>6

LEMMA SizesAre == SizeX \in Nat /\ SizeY \in Nat /\ SearchDist \in Nat
  BY MCAssumption DEF Path!DistanceAssumption

LEMMA LengthsAre == Path!Lengths \in [(0 .. SizeX) \X (0 .. SizeY) -> Nat]
<1> SUFFICES ASSUME NEW d \in (0 .. SizeX) \X (0 .. SizeY)
             PROVE  (CHOOSE n \in 0 .. 100 * (d[1] + d[2]) :
                       LET sq == 10000 * (d[1] * d[1] + d[2] * d[2])
                       IN  n * n <= sq /\ sq < (n + 1) * (n + 1)) \in Nat
  BY DEF Path!Lengths
<1>1. PICK x \in Nat, y \in Nat : d[1] = x /\ d[2] = y
  <2>1. d[1] \in Nat /\ d[2] \in Nat
    BY SizesAre
  <2>2. QED BY <2>1, Zenon
<1> DEFINE sq == 10000 * (x * x + y * y)
           b == 100 * (x + y)
<1>2. x * x \in Nat /\ y * y \in Nat /\ x * y \in Nat
  BY <1>1
<1>3. (x + y) * (x + y) = x * x + y * y + 2 * (x * y)
  BY <1>1
<1>4. b * b = 10000 * ((x + y) * (x + y))
  BY <1>1
<1>5. (b + 1) * (b + 1) = b * b + 2 * b + 1
  BY <1>1
<1>6. sq \in Nat /\ b \in Nat
  BY <1>1, <1>2
<1>7. sq < (b + 1) * (b + 1)
  <2> DEFINE xx == x * x
             yy == y * y
             xy == x * y
  <2> HIDE DEF xx, yy, xy
  <2>1. sq = 10000 * (xx + yy) /\ b * b = 10000 * (xx + yy + 2 * xy)
        /\ xx \in Nat /\ yy \in Nat /\ xy \in Nat
    BY <1>2, <1>3, <1>4 DEF xx, yy, xy
  <2> HIDE DEF sq, b
  <2>2. QED BY <2>1, <1>5, <1>6
<1> HIDE DEF sq, b
<1>8. \E n \in 0 .. b : n * n <= sq /\ sq < (n + 1) * (n + 1)
  BY <1>6, <1>7, RootExists
<1>9. (CHOOSE n \in 0 .. b : n * n <= sq /\ sq < (n + 1) * (n + 1)) \in 0 .. b
  BY <1>8, Zenon
<1>10. (CHOOSE n \in 0 .. b : n * n <= sq /\ sq < (n + 1) * (n + 1)) \in Nat
  <2> DEFINE r == CHOOSE n \in 0 .. b : n * n <= sq /\ sq < (n + 1) * (n + 1)
  <2>1. r \in 0 .. b
    BY <1>9
  <2> HIDE DEF r
  <2>2. r \in Nat
    BY <2>1, <1>6
  <2>3. QED BY <2>2 DEF r
<1>11. QED BY <1>1, <1>10 DEF sq, b

LEMMA DistIs ==
  ASSUME NEW a \in Path!Cells, NEW b \in Path!Cells
  PROVE  Path!Dist(a, b) \in Nat
<1> DEFINE d == <<Path!Abs(a[1] - b[1]), Path!Abs(a[2] - b[2])>>
<1>1. /\ a[1] \in 0 .. SizeX - 1 /\ a[2] \in 0 .. SizeY - 1
      /\ b[1] \in 0 .. SizeX - 1 /\ b[2] \in 0 .. SizeY - 1
  BY DEF Path!Cells
<1>2. Path!Abs(a[1] - b[1]) \in 0 .. SizeX /\ Path!Abs(a[2] - b[2]) \in 0 .. SizeY
  BY <1>1, SizesAre DEF Path!Abs
<1>3. d \in (0 .. SizeX) \X (0 .. SizeY)
  BY <1>2
<1> HIDE DEF d
<1>4. Path!Lengths[d] \in Nat
  BY <1>3, LengthsAre
<1>5. QED BY <1>4 DEF Path!Dist, d

(* The first pose is within the search, so that a nearest one is found. *)
LEMMA FirstIsSearched ==
  ASSUME NEW p \in Path!Rests, p \in Seq(Path!Cells), p # <<>>
  PROVE  Path!Searched[p] \subseteq DOMAIN p /\ 1 \in Path!Searched[p]
<1> DEFINE N == Len(p)
           along[i \in 1 .. Len(p)] == IF i = 1 THEN 0 ELSE along[i - 1] + Path!Dist(p[i - 1], p[i])
<1>1. Path!Searched[p] = {i \in DOMAIN p : along[i] <= SearchDist}
  <2>1. Path!Searched = [q \in Path!Rests |->
          LET walked[i \in 1 .. Len(q)] ==
                IF i = 1 THEN 0 ELSE walked[i - 1] + Path!Dist(q[i - 1], q[i])
          IN  {i \in DOMAIN q : walked[i] <= SearchDist}]
    BY Zenon DEF Path!Searched
  <2>2. QED BY <2>1, Zenon
<1> DEFINE F == [n \in Nat |-> [t \in Nat |->
                  IF n \in 1 .. N - 1 THEN t + Path!Dist(p[n], p[n + 1]) ELSE t]]
<1>2. N \in Nat /\ N >= 1 /\ DOMAIN p = 1 .. N /\ \A i \in 1 .. N : p[i] \in Path!Cells
  OBVIOUS
<1> HIDE DEF N
<1>3. ASSUME NEW n \in Nat, NEW t \in Nat
      PROVE  F[n][t] \in Nat /\ (n \in 1 .. N - 1 => F[n][t] = t + Path!Dist(p[n], p[n + 1]))
  <2>1. CASE n \in 1 .. N - 1
    <3>1. Path!Dist(p[n], p[n + 1]) \in Nat
      BY <1>2, <2>1, DistIs
    <3>2. F[n][t] = t + Path!Dist(p[n], p[n + 1])
      BY <2>1
    <3>3. QED BY <3>1, <3>2
  <2>2. CASE n \notin 1 .. N - 1
    BY <2>2
  <2>3. QED BY <2>1, <2>2
<1> HIDE DEF F
<1>4. StaysIn(F, Nat) /\ N - 1 \in Nat /\ 0 \in Nat
  BY <1>2, <1>3 DEF StaysIn
<1>5. PICK g : Steps(g, N - 1, Nat, 0, F)
  BY <1>4, Recursion, Zenon
<1> DEFINE d == [i \in 1 .. N |-> g[i - 1]]
<1>6. d = [i \in 1 .. N |-> IF i = 1 THEN 0 ELSE d[i - 1] + Path!Dist(p[i - 1], p[i])]
  <2>1. d[1] = 0
    BY <1>2, <1>5 DEF Steps
  <2>2. ASSUME NEW i \in 1 .. N, i # 1 PROVE d[i] = d[i - 1] + Path!Dist(p[i - 1], p[i])
    <3>1. i - 1 \in 1 .. N - 1 /\ (i - 1) + 1 = i /\ (i - 1) - 1 \in 0 .. N - 1 /\ i - 1 \in 1 .. N
          /\ i - 1 \in Nat
      BY <1>2, <2>2
    <3>2. d[i] = g[i - 1] /\ d[i - 1] = g[(i - 1) - 1]
      BY <3>1
    <3>3. g[(i - 1) - 1] \in Nat /\ g[i - 1] = F[i - 1][g[(i - 1) - 1]]
      BY <1>5, <3>1 DEF Steps
    <3> HIDE DEF d
    <3>4. F[i - 1][g[(i - 1) - 1]] = g[(i - 1) - 1] + Path!Dist(p[i - 1], p[(i - 1) + 1])
      BY <1>3, <3>1, <3>3
    <3>5. QED BY <3>1, <3>2, <3>3, <3>4
  <2>3. d = [i \in 1 .. N |-> d[i]]
    OBVIOUS
  <2> HIDE DEF d
  <2>4. QED BY <2>1, <2>2, <2>3
<1> HIDE DEF d
<1>7. along = [i \in 1 .. N |-> IF i = 1 THEN 0 ELSE along[i - 1] + Path!Dist(p[i - 1], p[i])]
  BY <1>6, Zenon DEF N
<1> HIDE DEF along
<1>8. along[1] = 0
  BY <1>2, <1>7
<1>9. QED BY <1>1, <1>2, <1>8, SizesAre

(* A nearest pose is a pose of the plan. *)
LEMMA NearestIs ==
  ASSUME NEW e, e.robot \in Path!Cells, NEW p \in Path!Rests, p \in Seq(Path!Cells), p # <<>>
  PROVE  Path!Nearest(e, p) \in DOMAIN p
<1> DEFINE A == Path!Searched[p]
           D(i) == Path!Dist(p[i], e.robot)
<1>1. A \subseteq DOMAIN p /\ 1 \in A
  BY FirstIsSearched
<1>2. DOMAIN p \subseteq Nat /\ \A i \in DOMAIN p : D(i) \in Nat
  <2>1. \A i \in DOMAIN p : p[i] \in Path!Cells
    OBVIOUS
  <2>2. \A i \in DOMAIN p : Path!Dist(p[i], e.robot) \in Nat
    BY <2>1, DistIs
  <2>3. QED BY <2>2
<1> HIDE DEF A
<1> DEFINE T == {Path!Dist(p[i], e.robot) : i \in A}
<1>3. T \subseteq Nat /\ T # {}
  BY <1>1, <1>2
<1>4. PICK m \in T : \A y \in T : ~(y < m)
  <2> HIDE DEF T
  <2>1. QED BY <1>3, LeastMember
<1> DEFINE I == {i \in A : Path!Dist(p[i], e.robot) = m}
<1>5. I \subseteq Nat /\ I # {}
  BY <1>1, <1>2, <1>4
<1>6. PICK i \in I : \A y \in I : ~(y < i)
  <2> HIDE DEF I
  <2>1. QED BY <1>5, LeastMember
<1>7. i \in A /\ \A j \in A : \/ Path!Dist(p[i], e.robot) < Path!Dist(p[j], e.robot)
                              \/ Path!Dist(p[i], e.robot) = Path!Dist(p[j], e.robot) /\ i <= j
  <2>1. i \in A /\ i \in Nat /\ Path!Dist(p[i], e.robot) = m /\ m \in Nat
    BY <1>3, <1>4, <1>5, <1>6
  <2>2. ASSUME NEW j \in A
        PROVE  \/ Path!Dist(p[i], e.robot) < Path!Dist(p[j], e.robot)
               \/ Path!Dist(p[i], e.robot) = Path!Dist(p[j], e.robot) /\ i <= j
    <3>1. j \in Nat /\ Path!Dist(p[j], e.robot) \in Nat /\ Path!Dist(p[j], e.robot) \in T
      BY <1>1, <1>2
    <3>2. ~(Path!Dist(p[j], e.robot) < m)
      BY <1>4, <3>1
    <3>3. Path!Dist(p[j], e.robot) = m => ~(j < i)
      BY <1>6
    <3> HIDE DEF T, I
    <3>4. QED BY <2>1, <3>1, <3>2, <3>3
  <2>3. QED BY <2>1, <2>2
<1>8. Path!Nearest(e, p) \in A
  BY <1>7, Zenon DEF Path!Nearest, A
<1>9. QED BY <1>1, <1>8

(* What is left of a rest of a plan is a rest of it. *)
LEMMA RestOfRest ==
  ASSUME NEW p \in Path!Rests, NEW i \in DOMAIN p
  PROVE  /\ SubSeq(p, i, Len(p)) \in Path!Rests
         /\ SubSeq(p, i, Len(p)) \in Seq(Path!Cells)
         /\ SubSeq(p, i, Len(p)) # <<>>
<1>1. PICK q \in Plans : p \in {SubSeq(q, k, Len(q)) : k \in DOMAIN q}
  BY DEF Path!Rests
<1>2. q \in Seq(Path!Cells)
  BY <1>1, MCAssumption DEF Path!PlanAssumption
<1>3. PICK k \in DOMAIN q : p = SubSeq(q, k, Len(q))
  BY <1>1
<1> DEFINE N == Len(q)
           j == k + i - 1
           r == SubSeq(p, i, Len(p))
           t == SubSeq(q, j, N)
<1>4. N \in Nat /\ k \in 1 .. N /\ \A n \in 1 .. N : q[n] \in Path!Cells
  BY <1>2
<1>5. p = [n \in 1 .. N - k + 1 |-> q[n + k - 1]] /\ Len(p) = N - k + 1 /\ i \in 1 .. N - k + 1
  BY <1>2, <1>3, <1>4
<1>6. j \in 1 .. N
  BY <1>4, <1>5
<1>7. t = [n \in 1 .. N - j + 1 |-> q[n + j - 1]] /\ Len(t) = N - j + 1 /\ t \in Seq(Path!Cells)
  BY <1>2, <1>4, <1>6
<1>8. p \in Seq(Path!Cells)
  BY <1>2, <1>3, <1>4
<1>9. r = [n \in 1 .. Len(p) - i + 1 |-> p[n + i - 1]]
  BY <1>5, <1>8
<1>10. ASSUME NEW n \in 1 .. N - j + 1 PROVE p[n + i - 1] = q[n + j - 1]
  <2>1. k \in Int /\ i \in Int /\ N \in Int /\ n \in Int /\ j = k + i - 1
    BY <1>4, <1>5, <1>6
  <2>2. 1 <= i /\ 1 <= n /\ n <= N - j + 1
    BY <1>4, <1>5, <1>6
  <2> HIDE DEF N, j
  <2>3. n + i - 1 \in 1 .. N - k + 1 /\ (n + i - 1) + k - 1 = n + j - 1
    BY ONLY <2>1, <2>2
  <2>4. QED BY <1>5, <2>3
<1>11. Len(p) - i + 1 = N - j + 1
  BY <1>4, <1>5
<1> HIDE DEF N, j, t, r
<1>12. r = t
  BY <1>7, <1>9, <1>10, <1>11
<1>13. t \in {SubSeq(q, m, Len(q)) : m \in DOMAIN q}
  <2>1. j \in DOMAIN q
    BY <1>2, <1>6 DEF N
  <2>2. QED BY <2>1, Zenon DEF t, N
<1>14. t \in Path!Rests
  BY <1>1, <1>13 DEF Path!Rests
<1>15. t # <<>>
  <2>1. N - j + 1 # 0
    BY <1>4, <1>6
  <2>2. Len(t) # 0
    BY <1>7, <2>1
  <2>3. QED BY <2>2
<1>16. QED BY <1>7, <1>12, <1>14, <1>15 DEF r

LEMMA PlansAreRests ==
  ASSUME NEW p \in Plans
  PROVE  p \in Seq(Path!Cells) /\ (p # <<>> => p \in Path!Rests)
<1>1. p \in Seq(Path!Cells)
  BY MCAssumption DEF Path!PlanAssumption
<1>2. ASSUME p # <<>> PROVE p \in Path!Rests
  <2>1. 1 \in DOMAIN p
    BY <1>1, <1>2
  <2>2. SubSeq(p, 1, Len(p)) = p
    BY <1>1
  <2>3. p \in {SubSeq(p, k, Len(p)) : k \in DOMAIN p}
    BY <2>1, <2>2
  <2>4. QED BY <2>3 DEF Path!Rests
<1>3. QED BY <1>1, <1>2

(* The segment is a piece of the plan. *)
LEMMA InsideIs ==
  ASSUME NEW e, e.robot \in Path!Cells, NEW rest \in Seq(Path!Cells)
  PROVE  Path!Inside(e, rest) \in Seq(Path!Cells)
<1> DEFINE far == {i \in DOMAIN rest : Path!Dist(rest[i], e.robot) > Extent}
           least == CHOOSE i \in far : \A j \in far : i <= j
<1>1. CASE far = {}
  BY <1>1 DEF Path!Inside
<1>2. CASE far # {}
  <2>1. far \subseteq DOMAIN rest /\ far \subseteq Nat
    OBVIOUS
  <2> HIDE DEF far
  <2>2. PICK x \in far : \A y \in far : ~(y < x)
    BY <1>2, <2>1, LeastMember
  <2>3. \A y \in far : x <= y
    BY <2>1, <2>2
  <2>4. least \in far
    BY <2>3, Zenon
  <2>5. Path!Inside(e, rest) = SubSeq(rest, 1, least - 1)
    BY <1>2 DEF Path!Inside, far
  <2> HIDE DEF least
  <2>6. least \in 1 .. Len(rest)
    BY <2>1, <2>4
  <2>7. QED BY <2>5, <2>6
<1>3. QED BY <1>1, <1>2

PathInv ==
  /\ seen.robot \in Path!Cells
  /\ global_plan_ \in Seq(Path!Cells)
  /\ global_plan_ # <<>> => global_plan_ \in Path!Rests
  /\ AllAllowed(seen, segment, local)

LEMMA PathInitially == Path!Init => PathInv
<1> SUFFICES ASSUME Path!Init PROVE PathInv
  OBVIOUS
<1>1. PICK p \in Plans \ {<<>>} : seen.robot = p[1]
  BY DEF Path!Init
<1>2. seen.robot \in Path!Cells
  <2>1. p \in Seq(Path!Cells) /\ p # <<>>
    BY PlansAreRests
  <2>2. QED BY <1>1, <2>1
<1>3. global_plan_ = <<>> /\ local = <<>>
  BY DEF Path!Init
<1>4. QED BY <1>2, <1>3 DEF PathInv, AllAllowed

LEMMA PathStep == PathInv /\ [Path!Next]_pathVars => PathInv'
<1> SUFFICES ASSUME PathInv, [Path!Next]_pathVars PROVE PathInv'
  OBVIOUS
<1>1. CASE UNCHANGED pathVars
  BY <1>1 DEF PathInv, pathVars, AllAllowed, Allowed, Path!Collides
<1>2. CASE \E p \in Plans : Path!SetPlan(p)
  <2>1. PICK p \in Plans : Path!SetPlan(p)
    BY <1>2
  <2>2. global_plan_' = p /\ seen' = seen /\ segment' = segment /\ local' = local
    BY <2>1 DEF Path!SetPlan
  <2>3. global_plan_' \in Seq(Path!Cells) /\ (global_plan_' # <<>> => global_plan_' \in Path!Rests)
    BY <2>2, PlansAreRests
  <2>4. AllAllowed(seen, segment, local)'
    BY <2>2 DEF PathInv, AllAllowed, Allowed, Path!Collides
  <2>5. QED BY <2>2, <2>3, <2>4 DEF PathInv
<1>3. CASE Path!Cycle
  <2> DEFINE n == Path!Nearest(seen, global_plan_)
             rest == SubSeq(global_plan_, n, Len(global_plan_))
             seg == Path!Inside(seen, rest)
             out == Path!Cleared(seen, seg)
  <2>1. /\ global_plan_' = rest /\ segment' = Path!Inside(seen, global_plan_')
        /\ local' = Path!Cleared(seen, segment') /\ seen' = seen /\ global_plan_ # <<>>
    BY <1>3, Zenon DEF Path!Cycle
  <2>2. n \in DOMAIN global_plan_
    BY <2>1, NearestIs DEF PathInv
  <2>3. global_plan_ \in Path!Rests
    BY <2>1 DEF PathInv
  <2>4. segment' = seg /\ local' = out
    BY <2>1
  <2> HIDE DEF n
  <2>5. rest \in Path!Rests /\ rest \in Seq(Path!Cells) /\ rest # <<>>
    BY <2>2, <2>3, RestOfRest
  <2> HIDE DEF rest
  <2>6. seg \in Seq(Path!Cells)
    BY <2>5, InsideIs DEF PathInv
  <2> HIDE DEF seg
  <2>7. AllAllowed(seen, seg, out)
    <3>1. out = Path!RemoveCornerPts(seen, seg) \/ out = seg
      BY DEF Path!Cleared
    <3>2. AllAllowed(seen, seg, Path!RemoveCornerPts(seen, seg))
      BY <2>6, CornersAllowed
    <3>3. AllAllowed(seen, seg, seg)
      BY PathAllowed
    <3>4. QED BY <3>1, <3>2, <3>3
  <2> HIDE DEF out
  <2>8. AllAllowed(seen, segment, local)'
    BY <2>1, <2>4, <2>7 DEF AllAllowed, Allowed, Path!Collides
  <2>9. QED BY <2>1, <2>5, <2>8 DEF PathInv
<1>4. CASE \E r \in Path!Near(seen.robot), m \in Costmaps, l \in BOOLEAN : Path!Move(r, m, l)
  <2>1. PICK r \in Path!Near(seen.robot), m \in Costmaps, l \in BOOLEAN : Path!Move(r, m, l)
    BY <1>4
  <2>2. r \in Path!Cells
    BY DEF Path!Near
  <2>3. /\ seen' = [robot |-> r, costmap |-> m, located |-> l] /\ local' = <<>>
        /\ global_plan_' = global_plan_
    BY <2>1 DEF Path!Move
  <2>4. seen'.robot \in Path!Cells /\ AllAllowed(seen, segment, local)'
    BY <2>2, <2>3 DEF AllAllowed
  <2>5. QED BY <2>3, <2>4 DEF PathInv
<1>5. QED BY <1>1, <1>2, <1>3, <1>4 DEF Path!Next

LEMMA PathIsAllowed == PathInv => ShortcutsAreFree
BY DEF PathInv, AllAllowed, Allowed, ShortcutsAreFree, Path!ShortcutsAreFree, Path!IsEdge

(* ShortcutsAreFree (LocalPath), for every plan, every costmap and every   *)
(* distance: removeCornerPts leaves a pose out only where it has looked,   *)
(* whatever the transforms, the robot and the plan before did.             *)
THEOREM ShortcutsAreSeen == Path!Init /\ [][Path!Next]_pathVars => []ShortcutsAreFree
BY PathInitially, PathStep, PathIsAllowed, PTL

-----------------------------------------------------------------------------
(* The solver (Mpc).  States are pairs of integers. *)
Pairs == Int \X Int

LEMMA PairIs ==
  ASSUME NEW x \in Pairs, NEW y \in Pairs, x[1] = y[1], x[2] = y[2]
  PROVE  x = y
  BY DEF Pairs

LEMMA PlusIs ==
  ASSUME NEW x \in Pairs, NEW y \in Pairs
  PROVE  /\ Solver!Plus(x, y) \in Pairs
         /\ Solver!Plus(x, y)[1] = x[1] + y[1] /\ Solver!Plus(x, y)[2] = x[2] + y[2]
  BY DEF Pairs, Solver!Plus

LEMMA TimesIs ==
  ASSUME NEW x \in Pairs, NEW n \in Int
  PROVE  /\ Solver!Times(x, n) \in Pairs
         /\ Solver!Times(x, n)[1] = x[1] * n /\ Solver!Times(x, n)[2] = x[2] * n
<1>1. x[1] * n \in Int /\ x[2] * n \in Int
  BY DEF Pairs
<1>2. QED BY <1>1 DEF Pairs, Solver!Times

LEMMA StepIs ==
  ASSUME NEW x \in Pairs
  PROVE  /\ x[1] \in Int /\ x[2] \in Int
         /\ Solver!APower(1, x) \in Pairs
         /\ Solver!APower(1, x)[1] = x[1] + 2 * x[2] /\ Solver!APower(1, x)[2] = x[2]
  BY DEF Pairs, Solver!APower

(* The sum that Predicted forms. *)
IsSum(f, G, U) ==
  /\ f \in [0 .. Nc_ -> Pairs]
  /\ \A j \in 1 .. Nc_ : f[j] = Solver!Plus(f[j - 1], Solver!Times(G[j], U[j]))

(* The sums f and h of two steps, one after the other: in the later one the *)
(* effects G of the controls are those of H a step on, and control e has    *)
(* come in. *)
Consecutive(f, G, h, H, U, e) ==
  /\ Nc_ \in Nat
  /\ IsSum(f, G, U) /\ IsSum(h, H, U)
  /\ G \in [1 .. Nc_ -> Pairs] /\ H \in [1 .. Nc_ -> Pairs]
  /\ e \in 1 .. Nc_ /\ U \in [1 .. Nc_ -> Int]
  /\ f[0] = Solver!APower(1, h[0])
  /\ \A j \in 1 .. Nc_ : /\ G[j][1] = H[j][1] + 2 * H[j][2] + (IF j = e THEN 1 ELSE 0)
                         /\ G[j][2] = H[j][2] + (IF j = e THEN 1 ELSE 0)

(* State x is a step with control u after state y. *)
Apart(x, y, u) == x[1] = y[1] + 2 * y[2] + u /\ x[2] = y[2] + u

(* The states are a step apart then, with that control. *)
LEMMA Advanced ==
  \A f, G, h, H, U, e :
    Consecutive(f, G, h, H, U, e) => Apart(f[Nc_], h[Nc_], U[e])
<1> SUFFICES ASSUME NEW f, NEW G, NEW h, NEW H, NEW U, NEW e, Consecutive(f, G, h, H, U, e)
             PROVE  Apart(f[Nc_], h[Nc_], U[e])
  BY Zenon
<1> DEFINE N == Nc_
<1>0. /\ N \in Nat /\ e \in 1 .. N /\ U \in [1 .. N -> Int]
      /\ G \in [1 .. N -> Pairs] /\ H \in [1 .. N -> Pairs]
      /\ f \in [0 .. N -> Pairs] /\ h \in [0 .. N -> Pairs]
      /\ f[0] = Solver!APower(1, h[0])
      /\ \A j \in 1 .. N : f[j] = Solver!Plus(f[j - 1], Solver!Times(G[j], U[j]))
      /\ \A j \in 1 .. N : h[j] = Solver!Plus(h[j - 1], Solver!Times(H[j], U[j]))
      /\ \A j \in 1 .. N : /\ G[j][1] = H[j][1] + 2 * H[j][2] + (IF j = e THEN 1 ELSE 0)
                            /\ G[j][2] = H[j][2] + (IF j = e THEN 1 ELSE 0)
  BY DEF Consecutive, IsSum
<1> HIDE DEF N
<1> USE <1>0
<1> DEFINE In == [j \in 0 .. N |-> IF j >= e THEN U[e] ELSE 0]
           Ahead(j) == f[j][1] = h[j][1] + 2 * h[j][2] + In[j] /\ f[j][2] = h[j][2] + In[j]
           S == {j \in Nat : j <= N => Ahead(j)}
<1>1. \A j \in 0 .. N : /\ f[j][1] \in Int /\ f[j][2] \in Int
                        /\ h[j][1] \in Int /\ h[j][2] \in Int /\ In[j] \in Int
  <2> TAKE j \in 0 .. N
  <2>1. f[j] \in Pairs /\ h[j] \in Pairs
    OBVIOUS
  <2>2. QED BY <2>1, StepIs
<1>2. 0 \in S
  <2>1. 0 \in 0 .. N /\ ~(0 >= e)
    OBVIOUS
  <2>2. f[0][1] = h[0][1] + 2 * h[0][2] /\ f[0][2] = h[0][2]
    BY <2>1, StepIs
  <2>3. QED BY <1>1, <2>1, <2>2
<1>3. ASSUME NEW i \in Nat, i \in S, i + 1 <= N PROVE Ahead(i + 1)
  <2> DEFINE j == i + 1
  <2>1. j \in 1 .. N /\ j - 1 = i /\ i \in 0 .. N /\ j \in 0 .. N /\ i + 1 = j
    BY <1>3
  <2>2. Ahead(i)
    BY <1>3, <2>1
  <2> HIDE DEF j
  <2>3. G[j] \in Pairs /\ H[j] \in Pairs /\ U[j] \in Int /\ f[i] \in Pairs /\ h[i] \in Pairs
    BY <2>1
  <2>4. /\ f[j][1] = f[i][1] + G[j][1] * U[j] /\ f[j][2] = f[i][2] + G[j][2] * U[j]
        /\ h[j][1] = h[i][1] + H[j][1] * U[j] /\ h[j][2] = h[i][2] + H[j][2] * U[j]
    <3>1. f[j] = Solver!Plus(f[i], Solver!Times(G[j], U[j]))
          /\ h[j] = Solver!Plus(h[i], Solver!Times(H[j], U[j]))
      BY <2>1
    <3>2. /\ Solver!Times(G[j], U[j]) \in Pairs
          /\ Solver!Times(G[j], U[j])[1] = G[j][1] * U[j]
          /\ Solver!Times(G[j], U[j])[2] = G[j][2] * U[j]
      BY <2>3, TimesIs
    <3>3. /\ Solver!Times(H[j], U[j]) \in Pairs
          /\ Solver!Times(H[j], U[j])[1] = H[j][1] * U[j]
          /\ Solver!Times(H[j], U[j])[2] = H[j][2] * U[j]
      BY <2>3, TimesIs
    <3>4. f[j][1] = f[i][1] + G[j][1] * U[j] /\ f[j][2] = f[i][2] + G[j][2] * U[j]
      BY <2>3, <3>1, <3>2, PlusIs
    <3>5. h[j][1] = h[i][1] + H[j][1] * U[j] /\ h[j][2] = h[i][2] + H[j][2] * U[j]
      BY <2>3, <3>1, <3>3, PlusIs
    <3>6. QED BY <3>4, <3>5
  <2> DEFINE p == H[j][1]
             q == H[j][2]
             u == U[j]
             d == IF j = e THEN 1 ELSE 0
  <2>5. p \in Int /\ q \in Int /\ u \in Int /\ d \in {0, 1}
    BY <2>3, StepIs
  <2>6. G[j][1] = p + 2 * q + d /\ G[j][2] = q + d
    BY <2>1
  <2> HIDE DEF p, q, u, d
  <2>7. /\ (p + 2 * q + d) * u = p * u + 2 * (q * u) + d * u
        /\ (q + d) * u = q * u + d * u
        /\ p * u \in Int /\ q * u \in Int /\ d * u \in Int
    BY <2>5
  <2>8. In[j] = In[i] + d * u
    <3>1. CASE j = e
      <4>1. d = 1 /\ In[i] = 0 /\ In[j] = u
        BY <3>1, <2>1 DEF d, u
      <4>2. QED BY <4>1, <2>5
    <3>2. CASE j # e
      <4>1. d = 0 /\ In[j] = In[i]
        BY <3>2, <2>1 DEF d
      <4>2. QED BY <4>1, <2>5, <1>1, <2>1
    <3>3. QED BY <3>1, <3>2
  <2>9. /\ f[j][1] = f[i][1] + (p * u + 2 * (q * u) + d * u) /\ f[j][2] = f[i][2] + (q * u + d * u)
        /\ h[j][1] = h[i][1] + p * u /\ h[j][2] = h[i][2] + q * u
    BY <2>4, <2>6, <2>7 DEF p, q, u
  <2> DEFINE pu == p * u
             qu == q * u
             du == d * u
  <2>10. /\ pu \in Int /\ qu \in Int /\ du \in Int /\ In[j] = In[i] + du
         /\ f[j][1] = f[i][1] + (pu + 2 * qu + du) /\ f[j][2] = f[i][2] + (qu + du)
         /\ h[j][1] = h[i][1] + pu /\ h[j][2] = h[i][2] + qu
    BY <2>5, <2>7, <2>8, <2>9
  <2> HIDE DEF In, pu, qu, du
  <2>11. /\ h[i][1] \in Int /\ h[i][2] \in Int /\ In[i] \in Int
         /\ f[i][1] = h[i][1] + 2 * h[i][2] + In[i] /\ f[i][2] = h[i][2] + In[i]
    BY <1>1, <2>1, <2>2
  <2>12. PICK a \in Int, b \in Int, c \in Int : a = h[i][1] /\ b = h[i][2] /\ c = In[i]
    BY <2>11, Zenon
  <2>13. PICK v \in Int, w \in Int, x \in Int : v = pu /\ w = qu /\ x = du
    BY <2>10, Zenon
  <2>14. f[i][1] = a + 2 * b + c /\ f[i][2] = b + c
    BY <2>11, <2>12, Zenon
  <2>15. /\ In[j] = c + x
         /\ f[j][1] = f[i][1] + (v + 2 * w + x) /\ f[j][2] = f[i][2] + (w + x)
         /\ h[j][1] = a + v /\ h[j][2] = b + w
    BY <2>10, <2>12, <2>13, Zenon
  <2>16. f[j][1] = h[j][1] + 2 * h[j][2] + In[j]
    BY ONLY <2>14, <2>15
  <2>17. f[j][2] = h[j][2] + In[j]
    BY ONLY <2>14, <2>15
  <2>18. QED BY <2>16, <2>17 DEF j
<1>4. ASSUME NEW i \in Nat, i \in S PROVE i + 1 \in S
  <2>1. i + 1 <= N => Ahead(i + 1)
    BY <1>3, <1>4, Zenon
  <2>2. QED BY <2>1
<1> HIDE DEF S
<1>5. N \in S
  BY <1>2, <1>4, SetInduction
<1>6. Ahead(N)
  BY <1>5 DEF S
<1>7. QED BY <1>6 DEF Ahead, N, Apart

(* The block of a control: what it does to a state after so many steps. *)
LEMMA BlockIs ==
  ASSUME NEW i \in Nat, NEW j \in Nat
  PROVE  LET b == Solver!Block(i, j)
         IN  /\ b \in Pairs
             /\ j > i => b[1] = 0 /\ b[2] = 0
             /\ j <= i /\ j < Nc_ - 1 => b[1] = 1 + 2 * (i - j) /\ b[2] = 1
             /\ j <= i /\ ~(j < Nc_ - 1) => b[1] = (i - j + 1) * (i - j + 1) /\ b[2] = i - j + 1
<1>1. CASE j > i
  <2>1. Solver!Block(i, j) = <<0, 0>>
    BY <1>1 DEF Solver!Block
  <2>2. QED BY <2>1, <1>1 DEF Pairs
<1>2. CASE j <= i /\ j < Nc_ - 1
  <2>1. Solver!Block(i, j) = <<1 + 2 * (i - j), 1>>
    BY <1>2 DEF Solver!Block, Solver!APowerB
  <2>2. QED BY <2>1, <1>2 DEF Pairs
<1>3. CASE j <= i /\ ~(j < Nc_ - 1)
  <2> DEFINE K == i - j
             F == [k \in Nat |-> [x \in Pairs |-> Solver!Plus(x, Solver!APowerB(k))]]
             held[k \in 0 .. K] ==
               IF k = 0 THEN Solver!APowerB(0) ELSE Solver!Plus(held[k - 1], Solver!APowerB(k))
  <2>1. Solver!Block(i, j) = held[K]
    <3>1. ~(j > i)
      BY <1>3
    <3>2. QED BY <1>3, <3>1, Zenon DEF Solver!Block
  <2>2. K \in Nat
    BY <1>3
  <2> HIDE DEF K
  <2>3. \A k \in Nat : Solver!APowerB(k) \in Pairs /\ Solver!APowerB(k)[1] = 1 + 2 * k
                       /\ Solver!APowerB(k)[2] = 1
    BY DEF Solver!APowerB, Pairs
  <2>4. ASSUME NEW k \in Nat, NEW x \in Pairs
        PROVE  F[k][x] = Solver!Plus(x, Solver!APowerB(k)) /\ F[k][x] \in Pairs
    BY <2>3, PlusIs
  <2> HIDE DEF F
  <2>5. StaysIn(F, Pairs)
    BY <2>4 DEF StaysIn
  <2>6. PICK f : Steps(f, K, Pairs, Solver!APowerB(0), F)
    BY <2>2, <2>3, <2>5, Recursion
  <2>7. f = [k \in 0 .. K |-> IF k = 0 THEN Solver!APowerB(0)
                              ELSE Solver!Plus(f[k - 1], Solver!APowerB(k))]
    <3>1. ASSUME NEW k \in 1 .. K PROVE f[k] = Solver!Plus(f[k - 1], Solver!APowerB(k))
      <4>1. k \in Nat /\ k - 1 \in 0 .. K
        BY <2>2
      <4>2. f[k - 1] \in Pairs /\ f[k] = F[k][f[k - 1]]
        BY <4>1, <2>6 DEF Steps
      <4>3. QED BY <4>1, <4>2, <2>4
    <3>2. QED BY <2>2, <2>6, <3>1 DEF Steps
  <2>8. held = [k \in 0 .. K |-> IF k = 0 THEN Solver!APowerB(0)
                                 ELSE Solver!Plus(held[k - 1], Solver!APowerB(k))]
    BY <2>7, Zenon
  <2> HIDE DEF held
  <2> DEFINE Square(k) == held[k] \in Pairs /\ held[k][1] = (k + 1) * (k + 1) /\ held[k][2] = k + 1
             S == {k \in Nat : k <= K => Square(k)}
  <2>9. 0 \in S
    <3>1. held[0] = Solver!APowerB(0)
      BY <2>2, <2>8
    <3>2. QED BY <3>1, <2>3
  <2>10. ASSUME NEW k \in Nat, k \in S PROVE k + 1 \in S
    <3> SUFFICES ASSUME k + 1 <= K PROVE Square(k + 1)
      OBVIOUS
    <3>1. held[k] \in Pairs /\ held[k][1] = (k + 1) * (k + 1) /\ held[k][2] = k + 1
      BY <2>2, <2>10
    <3>2. k + 1 \in 0 .. K /\ k + 1 # 0 /\ (k + 1) - 1 = k /\ k + 1 \in Nat
      BY <2>2
    <3>3. held[k + 1] = Solver!Plus(held[k], Solver!APowerB(k + 1))
      BY <2>8, <3>2
    <3>4. Solver!APowerB(k + 1) \in Pairs /\ Solver!APowerB(k + 1)[1] = 1 + 2 * (k + 1)
          /\ Solver!APowerB(k + 1)[2] = 1
      BY <2>3, <3>2
    <3>5. /\ held[k + 1] \in Pairs
          /\ held[k + 1][1] = (k + 1) * (k + 1) + (1 + 2 * (k + 1))
          /\ held[k + 1][2] = (k + 1) + 1
      BY <3>1, <3>3, <3>4, PlusIs
    <3>6. (k + 1) * (k + 1) + (1 + 2 * (k + 1)) = ((k + 1) + 1) * ((k + 1) + 1)
      OBVIOUS
    <3>7. QED BY <3>5, <3>6, Zenon
  <2> HIDE DEF S
  <2>11. K \in S
    BY <2>2, <2>9, <2>10, SetInduction
  <2>12. Square(K)
    BY <2>2, <2>11 DEF S
  <2>13. QED BY <2>1, <2>12, <1>3 DEF K
<1>4. CASE ~(j > i) /\ ~(j <= i)
  BY <1>4
<1>5. QED BY <1>1, <1>2, <1>3, <1>4

(* The control that is given in step i, counted from 1; the last is held. *)
Given(i) == IF i < Nc_ THEN i ELSE Nc_

(* A step later every control has been carried on by a step, and one has     *)
(* come in. *)
LEMMA BlockStep ==
  ASSUME Nc_ \in Nat \ {0}, NEW i \in Nat, NEW j \in 1 .. Nc_
  PROVE  LET b == Solver!Block(i + 1, j - 1)
             c == Solver!Block(i, j - 1)
         IN  /\ b[1] = c[1] + 2 * c[2] + (IF j = Given(i + 2) THEN 1 ELSE 0)
             /\ b[2] = c[2] + (IF j = Given(i + 2) THEN 1 ELSE 0)
<1> DEFINE b == Solver!Block(i + 1, j - 1)
           c == Solver!Block(i, j - 1)
           l == j - 1
<1>1. l \in Nat /\ i + 1 \in Nat /\ l <= Nc_ - 1
  OBVIOUS
<1>2. /\ l > i + 1 => b[1] = 0 /\ b[2] = 0
      /\ l <= i + 1 /\ l < Nc_ - 1 => b[1] = 1 + 2 * (i + 1 - l) /\ b[2] = 1
      /\ l <= i + 1 /\ ~(l < Nc_ - 1) => b[1] = (i + 1 - l + 1) * (i + 1 - l + 1) /\ b[2] = i + 1 - l + 1
  BY <1>1, BlockIs
<1>3. /\ l > i => c[1] = 0 /\ c[2] = 0
      /\ l <= i /\ l < Nc_ - 1 => c[1] = 1 + 2 * (i - l) /\ c[2] = 1
      /\ l <= i /\ ~(l < Nc_ - 1) => c[1] = (i - l + 1) * (i - l + 1) /\ c[2] = i - l + 1
  BY <1>1, BlockIs
<1>4. j = Given(i + 2) <=> (l = i + 1 \/ (l <= i + 1 /\ l = Nc_ - 1))
  BY <1>1 DEF Given
<1>5. j = l + 1
  OBVIOUS
<1> HIDE DEF b, c, l
<1>6. b[1] = c[1] + 2 * c[2] + (IF j = Given(i + 2) THEN 1 ELSE 0)
      /\ b[2] = c[2] + (IF j = Given(i + 2) THEN 1 ELSE 0)
  <2>1. CASE l > i + 1
    BY <2>1, <1>1, <1>2, <1>3, <1>4
  <2>2. CASE l = i + 1
    <3>1. b[1] = 1 /\ b[2] = 1
      BY <2>2, <1>1, <1>2
    <3>2. QED BY <2>2, <3>1, <1>1, <1>3, <1>4
  <2>3. CASE l <= i /\ l < Nc_ - 1
    BY <2>3, <1>1, <1>2, <1>3, <1>4
  <2>4. CASE l <= i /\ ~(l < Nc_ - 1)
    <3> DEFINE k == i - l + 1
    <3>1. k \in Int /\ i + 1 - l + 1 = k + 1
      BY <1>1
    <3>2. b[1] = (k + 1) * (k + 1) /\ b[2] = k + 1 /\ c[1] = k * k /\ c[2] = k
      BY <2>4, <3>1, <1>1, <1>2, <1>3
    <3>3. j = Given(i + 2)
      BY <2>4, <1>1, <1>4
    <3> HIDE DEF k
    <3>4. (k + 1) * (k + 1) = k * k + 2 * k + 1
      BY <3>1
    <3>5. QED BY <3>1, <3>2, <3>3, <3>4
  <2>5. QED BY <2>1, <2>2, <2>3, <2>4, <1>1
<1>7. QED BY <1>6 DEF b, c

Blocks(i) == [j \in 1 .. Nc_ |-> Solver!Block(i, j - 1)]

LEMMA PredictedIs ==
  ASSUME Nc_ \in Nat \ {0}, NEW x0 \in Pairs, NEW U \in [1 .. Nc_ -> Int], NEW i \in Nat
  PROVE  \E f : /\ IsSum(f, Blocks(i), U) /\ f[0] = Solver!APower(i + 1, x0)
              /\ Solver!Predicted(x0, U, i) = f[Nc_]
<1> DEFINE V == Pairs
           B == Blocks(i)
           F == [j \in Nat |-> [x \in V |->
                   IF j \in 1 .. Nc_ THEN Solver!Plus(x, Solver!Times(B[j], U[j])) ELSE x]]
           x1 == Solver!APower(i + 1, x0)
           forced[j \in 0 .. Nc_] ==
             IF j = 0 THEN x1
             ELSE Solver!Plus(forced[j - 1], Solver!Times(Solver!Block(i, j - 1), U[j]))
<1>1. Solver!Predicted(x0, U, i) = forced[Nc_]
  BY Zenon DEF Solver!Predicted
<1>2. x1 \in V
  <2>1. x0[1] \in Int /\ x0[2] \in Int
    BY DEF Pairs
  <2>2. 2 * (i + 1) * x0[2] \in Int
    BY <2>1
  <2>3. QED BY <2>1, <2>2 DEF Solver!APower, Pairs
<1>3. \A j \in 1 .. Nc_ : B[j] \in Pairs /\ B[j] = Solver!Block(i, j - 1)
  <2> TAKE j \in 1 .. Nc_
  <2>1. j - 1 \in Nat
    OBVIOUS
  <2>2. Solver!Block(i, j - 1) \in Pairs
    BY <2>1, BlockIs
  <2>3. QED BY <2>2 DEF Blocks
<1> HIDE DEF B, x1
<1>4. ASSUME NEW j \in 1 .. Nc_, NEW x \in V
      PROVE  F[j][x] = Solver!Plus(x, Solver!Times(B[j], U[j])) /\ F[j][x] \in V
  <2>1. j \in Nat
    OBVIOUS
  <2>2. Solver!Times(B[j], U[j]) \in Pairs
    BY <1>3, TimesIs
  <2>3. Solver!Plus(x, Solver!Times(B[j], U[j])) \in Pairs
    BY <2>2, PlusIs
  <2>4. F[j][x] = Solver!Plus(x, Solver!Times(B[j], U[j]))
    BY <2>1
  <2>5. QED BY <2>3, <2>4
<1>5. StaysIn(F, V)
  <2> SUFFICES ASSUME NEW j \in Nat, NEW x \in V PROVE F[j][x] \in V
    BY DEF StaysIn
  <2>1. CASE j \in 1 .. Nc_
    BY <2>1, <1>4
  <2>2. CASE j \notin 1 .. Nc_
    BY <2>2
  <2>3. QED BY <2>1, <2>2
<1> HIDE DEF F, V
<1>6. PICK f : Steps(f, Nc_, V, x1, F)
  BY <1>2, <1>5, Recursion
<1>7. \A j \in 1 .. Nc_ : f[j] = Solver!Plus(f[j - 1], Solver!Times(B[j], U[j]))
  <2> TAKE j \in 1 .. Nc_
  <2>1. j - 1 \in 0 .. Nc_
    OBVIOUS
  <2>2. f[j - 1] \in V /\ f[j] = F[j][f[j - 1]]
    BY <2>1, <1>6 DEF Steps
  <2>3. QED BY <2>2, <1>4
<1>8. f = [j \in 0 .. Nc_ |-> IF j = 0 THEN x1
             ELSE Solver!Plus(f[j - 1], Solver!Times(Solver!Block(i, j - 1), U[j]))]
  <2>1. \A j \in 1 .. Nc_ : f[j] = Solver!Plus(f[j - 1], Solver!Times(Solver!Block(i, j - 1), U[j]))
    BY <1>3, <1>7
  <2>2. QED BY <1>6, <2>1 DEF Steps
<1>9. forced = [j \in 0 .. Nc_ |-> IF j = 0 THEN x1
             ELSE Solver!Plus(forced[j - 1], Solver!Times(Solver!Block(i, j - 1), U[j]))]
  BY <1>8, Zenon
<1> HIDE DEF forced
<1>10. \A j \in 1 .. Nc_ : forced[j] = Solver!Plus(forced[j - 1], Solver!Times(B[j], U[j]))
  BY <1>3, <1>9
<1>11. forced[0] = x1
  BY <1>9
<1> DEFINE S == {j \in Nat : j <= Nc_ => forced[j] \in Pairs}
<1>12. 0 \in S
  BY <1>2, <1>11 DEF V
<1>13. ASSUME NEW j \in Nat, j \in S PROVE j + 1 \in S
  <2> SUFFICES ASSUME j + 1 <= Nc_ PROVE forced[j + 1] \in Pairs
    OBVIOUS
  <2>1. j + 1 \in 1 .. Nc_ /\ (j + 1) - 1 = j /\ forced[j] \in Pairs
    BY <1>13
  <2>2. forced[j + 1] = Solver!Plus(forced[j], Solver!Times(B[j + 1], U[j + 1]))
    BY <1>10, <2>1
  <2>3. Solver!Times(B[j + 1], U[j + 1]) \in Pairs
    BY <2>1, <1>3, TimesIs
  <2>4. QED BY <2>1, <2>2, <2>3, PlusIs
<1> HIDE DEF S
<1>14. Nat \subseteq S
  BY <1>12, <1>13, SetInduction
<1>15. \A j \in 0 .. Nc_ : forced[j] \in Pairs
  BY <1>14 DEF S
<1>16. forced \in [0 .. Nc_ -> Pairs]
  BY <1>9, <1>15
<1>17. IsSum(forced, B, U)
  BY <1>10, <1>16 DEF IsSum
<1>18. QED BY <1>1, <1>11, <1>17, Zenon DEF B, x1

LEMMA BlocksAre ==
  ASSUME Nc_ \in Nat \ {0}, NEW i \in Nat
  PROVE  Blocks(i) \in [1 .. Nc_ -> Pairs]
<1>1. \A j \in 1 .. Nc_ : Solver!Block(i, j - 1) \in Pairs
  <2> TAKE j \in 1 .. Nc_
  <2>1. j - 1 \in Nat
    OBVIOUS
  <2>2. QED BY <2>1, BlockIs
<1>2. QED BY <1>1 DEF Blocks

(* The next predicted state follows from the one before it by a step with   *)
(* the control given in it. *)
LEMMA PredictedNext ==
  ASSUME Nc_ \in Nat \ {0}, NEW x0 \in Pairs, NEW U \in [1 .. Nc_ -> Int], NEW i \in Nat
  PROVE  LET p == Solver!Predicted(x0, U, i)
             q == Solver!Predicted(x0, U, i + 1)
         IN  /\ p \in Pairs /\ q \in Pairs
             /\ q[1] = p[1] + 2 * p[2] + U[Given(i + 2)]
             /\ q[2] = p[2] + U[Given(i + 2)]
<1>1. i + 1 \in Nat
  OBVIOUS
<1>2. PICK h : /\ IsSum(h, Blocks(i), U) /\ h[0] = Solver!APower(i + 1, x0)
               /\ Solver!Predicted(x0, U, i) = h[Nc_]
  BY PredictedIs
<1>3. PICK f : /\ IsSum(f, Blocks(i + 1), U) /\ f[0] = Solver!APower((i + 1) + 1, x0)
               /\ Solver!Predicted(x0, U, i + 1) = f[Nc_]
  BY <1>1, PredictedIs
<1>4. Solver!APower((i + 1) + 1, x0) = Solver!APower(1, Solver!APower(i + 1, x0))
  <2>1. PICK a \in Int, b \in Int : x0 = <<a, b>>
    BY DEF Pairs
  <2>2. 2 * ((i + 1) + 1) * b = 2 * (i + 1) * b + 2 * b
    BY <2>1
  <2>3. a + 2 * ((i + 1) + 1) * b = (a + 2 * (i + 1) * b) + 2 * 1 * b
    BY <2>1, <2>2
  <2>4. QED BY <2>1, <2>3 DEF Solver!APower
<1> DEFINE G == Blocks(i + 1)
           H == Blocks(i)
           e == Given(i + 2)
<1>5. G \in [1 .. Nc_ -> Pairs] /\ H \in [1 .. Nc_ -> Pairs] /\ e \in 1 .. Nc_
  BY <1>1, BlocksAre DEF Given
<1>6. \A j \in 1 .. Nc_ : /\ G[j][1] = H[j][1] + 2 * H[j][2] + (IF j = e THEN 1 ELSE 0)
                          /\ G[j][2] = H[j][2] + (IF j = e THEN 1 ELSE 0)
  <2> TAKE j \in 1 .. Nc_
  <2>1. G[j] = Solver!Block(i + 1, j - 1) /\ H[j] = Solver!Block(i, j - 1)
    BY DEF Blocks
  <2>2. QED BY <2>1, BlockStep
<1> HIDE DEF G, H, e
<1>7. Consecutive(f, G, h, H, U, e)
  BY <1>2, <1>3, <1>4, <1>5, <1>6 DEF Consecutive, G, H
<1>8. Apart(f[Nc_], h[Nc_], U[e])
  BY <1>7, Advanced, Zenon
<1>9. f[Nc_] \in Pairs /\ h[Nc_] \in Pairs
  BY <1>7 DEF Consecutive, IsSum
<1>10. QED BY <1>2, <1>3, <1>8, <1>9 DEF e, Apart

(* The first predicted state is that after the first control. *)
LEMMA PredictedFirst ==
  ASSUME Nc_ \in Nat \ {0}, NEW x0 \in Pairs, NEW U \in [1 .. Nc_ -> Int]
  PROVE  LET p == Solver!Predicted(x0, U, 0)
         IN  p[1] = x0[1] + 2 * x0[2] + U[1] /\ p[2] = x0[2] + U[1]
<1>1. PICK f : /\ IsSum(f, Blocks(0), U) /\ f[0] = Solver!APower(0 + 1, x0)
               /\ Solver!Predicted(x0, U, 0) = f[Nc_]
  BY PredictedIs
<1> DEFINE G == Blocks(0)
           H == [j \in 1 .. Nc_ |-> <<0, 0>>]
           h == [j \in 0 .. Nc_ |-> x0]
<1>2. G \in [1 .. Nc_ -> Pairs] /\ 1 \in 1 .. Nc_
  BY BlocksAre
<1>3. H \in [1 .. Nc_ -> Pairs] /\ \A j \in 1 .. Nc_ : H[j] = <<0, 0>>
  BY DEF Pairs
<1>4. h \in [0 .. Nc_ -> Pairs] /\ \A j \in 0 .. Nc_ : h[j] = x0
  OBVIOUS
<1>5. \A j \in 1 .. Nc_ : /\ G[j][1] = H[j][1] + 2 * H[j][2] + (IF j = 1 THEN 1 ELSE 0)
                          /\ G[j][2] = H[j][2] + (IF j = 1 THEN 1 ELSE 0)
  <2> TAKE j \in 1 .. Nc_
  <2>1. j - 1 \in Nat /\ G[j] = Solver!Block(0, j - 1)
    BY DEF Blocks
  <2>2. H[j][1] = 0 /\ H[j][2] = 0
    OBVIOUS
  <2>3. ASSUME NEW i \in Nat, i = 0, NEW l \in Nat, l = j - 1
        PROVE  LET b == Solver!Block(i, l)
               IN  b[1] = (IF l = 0 THEN 1 ELSE 0) /\ b[2] = (IF l = 0 THEN 1 ELSE 0)
    <3>1. CASE l = 0
      <4>1. i - l = 0 /\ i - l + 1 = 1 /\ (i - l + 1) * (i - l + 1) = 1
        BY <2>3, <3>1
      <4>2. ~(l > i) /\ (l <= i /\ l < Nc_ - 1 => 1 + 2 * (i - l) = 1)
        BY <2>3, <3>1
      <4>3. /\ l <= i /\ l < Nc_ - 1 => Solver!Block(i, l)[1] = 1 /\ Solver!Block(i, l)[2] = 1
            /\ l <= i /\ ~(l < Nc_ - 1) => Solver!Block(i, l)[1] = 1 /\ Solver!Block(i, l)[2] = 1
        BY <4>1, <4>2, BlockIs
      <4>4. l <= i
        BY <2>3, <3>1
      <4>5. QED BY <3>1, <4>3, <4>4
    <3>2. CASE l # 0
      BY <2>3, <3>2, BlockIs
    <3>3. QED BY <3>1, <3>2
  <2>4. G[j][1] = (IF j = 1 THEN 1 ELSE 0) /\ G[j][2] = (IF j = 1 THEN 1 ELSE 0)
    BY <2>1, <2>3
  <2>5. QED BY <2>2, <2>4
<1> HIDE DEF G, H, h
<1>7. \A j \in 1 .. Nc_ : h[j] = Solver!Plus(h[j - 1], Solver!Times(H[j], U[j]))
  <2> TAKE j \in 1 .. Nc_
  <2>1. h[j] = x0 /\ h[j - 1] = x0 /\ H[j] = <<0, 0>> /\ U[j] \in Int /\ H[j] \in Pairs
    BY <1>3, <1>4
  <2>2. Solver!Times(H[j], U[j]) = <<0, 0>>
    BY <2>1 DEF Solver!Times
  <2>3. Solver!Plus(x0, <<0, 0>>) = x0
    BY DEF Solver!Plus, Pairs
  <2>4. QED BY <2>1, <2>2, <2>3
<1>8. Apart(f[Nc_], h[Nc_], U[1])
  <2>1. IsSum(h, H, U)
    BY <1>4, <1>7 DEF IsSum
  <2>2. f[0] = Solver!APower(1, h[0])
    BY <1>1, <1>4
  <2>3. Consecutive(f, G, h, H, U, 1)
    BY <1>1, <1>2, <1>3, <1>5, <2>1, <2>2 DEF Consecutive, G
  <2>4. QED BY <2>3, Advanced, Zenon
<1>9. QED BY <1>1, <1>4, <1>8 DEF Apart

LEMMA LeastOfTwo ==
  ASSUME NEW a \in Int, NEW b \in Int
  PROVE  /\ Solver!Min({a, b}) = IF a < b THEN a ELSE b
         /\ Solver!Max({a, b}) = IF a < b THEN b ELSE a
<1> DEFINE m == IF a < b THEN a ELSE b
           n == IF a < b THEN b ELSE a
<1>1. m \in {a, b} /\ \A y \in {a, b} : m <= y
  OBVIOUS
<1>2. n \in {a, b} /\ \A y \in {a, b} : n >= y
  OBVIOUS
<1>3. \A x \in {a, b} : (\A y \in {a, b} : x <= y) => x = m
  OBVIOUS
<1>4. \A x \in {a, b} : (\A y \in {a, b} : x >= y) => x = n
  OBVIOUS
<1> HIDE DEF m, n
<1>5. Solver!Min({a, b}) = m
  BY <1>1, <1>3, Zenon DEF Solver!Min
<1>6. Solver!Max({a, b}) = n
  BY <1>2, <1>4, Zenon DEF Solver!Max
<1>7. QED BY <1>5, <1>6 DEF m, n

(* State x after a step with the control given in step i. *)
Acted(x, U, i) == Solver!Plus(Solver!APower(1, x), Solver!Times(Solver!APowerB(0), U[Given(i)]))

LEMMA ActedIs ==
  ASSUME NEW x \in Pairs, NEW U, NEW i, U[Given(i)] \in Int
  PROVE  /\ Acted(x, U, i) \in Pairs
         /\ Acted(x, U, i)[1] = x[1] + 2 * x[2] + U[Given(i)]
         /\ Acted(x, U, i)[2] = x[2] + U[Given(i)]
<1> DEFINE u == U[Given(i)]
           y == Solver!Times(Solver!APowerB(0), u)
           z == Solver!APower(1, x)
<1>1. u \in Int
  OBVIOUS
<1> HIDE DEF u
<1>2. Solver!APowerB(0) = <<1, 1>>
  BY DEF Solver!APowerB
<1>3. y = <<u, u>>
  BY <1>1, <1>2 DEF Solver!Times
<1>4. y \in Pairs /\ y[1] = u /\ y[2] = u
  BY <1>1, <1>3 DEF Pairs
<1>5. z \in Pairs /\ z[1] = x[1] + 2 * x[2] /\ z[2] = x[2]
  BY StepIs
<1> HIDE DEF y, z
<1>6. /\ Solver!Plus(z, y) \in Pairs
      /\ Solver!Plus(z, y)[1] = z[1] + y[1] /\ Solver!Plus(z, y)[2] = z[2] + y[2]
  BY <1>4, <1>5, PlusIs
<1>7. Acted(x, U, i) = Solver!Plus(z, y)
  BY DEF Acted, u, y, z
<1>8. QED BY <1>4, <1>5, <1>6, <1>7 DEF u

(* The robot goes the way that was predicted, whatever the controls. *)
LEMMA WayIsPredicted ==
  ASSUME Nc_ \in Nat \ {0}, Np_ \in Nat, v_now \in Int, NEW U \in [1 .. Nc_ -> Int]
  PROVE  \A i \in 1 .. Np_ : Solver!Driven(U)[i] = Solver!Predicted(<<0, v_now>>, U, i - 1)
<1> DEFINE x0 == <<0, v_now>>
           d == [i \in 0 .. Np_ |-> IF i = 0 THEN x0 ELSE Solver!Predicted(x0, U, i - 1)]
           at[i \in 0 .. Np_] ==
             IF i = 0 THEN <<0, v_now>>
             ELSE LET a == U[Solver!Min({i, Nc_})]
                  IN  Solver!Plus(Solver!APower(1, at[i - 1]), Solver!Times(Solver!APowerB(0), a))
<1>1. Solver!Driven(U) = at
  BY Zenon DEF Solver!Driven
<1>2. x0 \in Pairs
  BY DEF Pairs
<1>3. \A i \in 1 .. Np_ : Solver!Min({i, Nc_}) = Given(i) /\ U[Given(i)] \in Int
  <2> TAKE i \in 1 .. Np_
  <2>1. Solver!Min({i, Nc_}) = Given(i)
    BY LeastOfTwo DEF Given
  <2>2. Given(i) \in 1 .. Nc_
    BY DEF Given
  <2>3. QED BY <2>1, <2>2
<1>4. ASSUME NEW k \in Nat
      PROVE  LET p == Solver!Predicted(x0, U, k)
                 q == Solver!Predicted(x0, U, k + 1)
             IN  /\ p \in Pairs /\ q \in Pairs
                 /\ q[1] = p[1] + 2 * p[2] + U[Given(k + 2)] /\ q[2] = p[2] + U[Given(k + 2)]
  BY <1>2, PredictedNext
<1>5. \A i \in 1 .. Np_ : d[i] \in Pairs /\ d[i - 1] \in Pairs /\ d[i] = Acted(d[i - 1], U, i)
  <2> TAKE i \in 1 .. Np_
  <2>1. CASE i = 1
    <3>1. /\ d[i] = Solver!Predicted(x0, U, 0) /\ d[i - 1] = x0
      BY <2>1
    <3>2. Given(i) = 1
      BY <2>1 DEF Given
    <3>3. d[i][1] = x0[1] + 2 * x0[2] + U[1] /\ d[i][2] = x0[2] + U[1]
      BY <1>2, <3>1, PredictedFirst
    <3>4. d[i] \in Pairs
      <4>1. 0 \in Nat /\ Solver!Predicted(x0, U, 0) \in Pairs
        BY <1>2, PredictedNext
      <4>2. QED BY <3>1, <4>1
    <3> HIDE DEF d
    <3>5. /\ Acted(x0, U, i) \in Pairs
          /\ Acted(x0, U, i)[1] = x0[1] + 2 * x0[2] + U[1] /\ Acted(x0, U, i)[2] = x0[2] + U[1]
      BY <1>2, <1>3, <3>2, ActedIs
    <3>6. d[i] = Acted(x0, U, i)
      BY <3>3, <3>4, <3>5, PairIs
    <3>7. QED BY <3>1, <3>4, <3>6, <1>2
  <2>2. CASE i # 1
    <3> DEFINE k == i - 2
    <3>1. k \in Nat /\ k + 2 = i
      BY <2>2
    <3>2. d[i] = Solver!Predicted(x0, U, k + 1) /\ d[i - 1] = Solver!Predicted(x0, U, k)
      BY <2>2
    <3> HIDE DEF k, d
    <3>3. /\ d[i] \in Pairs /\ d[i - 1] \in Pairs
          /\ d[i][1] = d[i - 1][1] + 2 * d[i - 1][2] + U[Given(i)]
          /\ d[i][2] = d[i - 1][2] + U[Given(i)]
      BY <1>4, <3>1, <3>2
    <3> DEFINE x == d[i - 1]
    <3>4. /\ Acted(x, U, i) \in Pairs
          /\ Acted(x, U, i)[1] = x[1] + 2 * x[2] + U[Given(i)] /\ Acted(x, U, i)[2] = x[2] + U[Given(i)]
      <4>1. x \in Pairs /\ U[Given(i)] \in Int
        BY <3>3, <1>3
      <4> HIDE DEF x
      <4>2. QED BY <4>1, ActedIs
    <3>5. d[i] = Acted(x, U, i)
      BY <3>3, <3>4, PairIs
    <3>6. QED BY <3>3, <3>5
  <2>3. QED BY <2>1, <2>2
<1>6. d[0] = x0 /\ \A i \in 1 .. Np_ : d[i] = Solver!Predicted(x0, U, i - 1)
  OBVIOUS
<1>7. d = [i \in 0 .. Np_ |->
             IF i = 0 THEN <<0, v_now>>
             ELSE LET a == U[Solver!Min({i, Nc_})]
                  IN  Solver!Plus(Solver!APower(1, d[i - 1]), Solver!Times(Solver!APowerB(0), a))]
  <2> DEFINE r == [i \in 0 .. Np_ |->
             IF i = 0 THEN <<0, v_now>>
             ELSE LET a == U[Solver!Min({i, Nc_})]
                  IN  Solver!Plus(Solver!APower(1, d[i - 1]), Solver!Times(Solver!APowerB(0), a))]
  <2>1. \A i \in 1 .. Np_ : r[i] = Acted(d[i - 1], U, i)
    <3> TAKE i \in 1 .. Np_
    <3> HIDE DEF d
    <3>1. r[i] = LET a == U[Solver!Min({i, Nc_})]
                 IN  Solver!Plus(Solver!APower(1, d[i - 1]), Solver!Times(Solver!APowerB(0), a))
      OBVIOUS
    <3>2. QED BY <1>3, <3>1 DEF Acted
  <2>2. r[0] = x0
    OBVIOUS
  <2>3. DOMAIN r = 0 .. Np_ /\ DOMAIN d = 0 .. Np_ /\ d = [i \in DOMAIN d |-> d[i]]
        /\ r = [i \in DOMAIN r |-> r[i]]
    OBVIOUS
  <2> HIDE DEF r, d
  <2>4. \A i \in 0 .. Np_ : d[i] = r[i]
    <3> TAKE i \in 0 .. Np_
    <3>1. i = 0 \/ i \in 1 .. Np_
      OBVIOUS
    <3>2. QED BY <3>1, <1>5, <1>6, <2>1, <2>2
  <2>5. d = r
    BY <2>3, <2>4
  <2>6. QED BY <2>5 DEF r
<1>8. at = [i \in 0 .. Np_ |->
             IF i = 0 THEN <<0, v_now>>
             ELSE LET a == U[Solver!Min({i, Nc_})]
                  IN  Solver!Plus(Solver!APower(1, at[i - 1]), Solver!Times(Solver!APowerB(0), a))]
  <2> HIDE DEF d
  <2>1. QED BY <1>7, Zenon
<1> HIDE DEF at
<1>9. at[0] = x0 /\ \A i \in 1 .. Np_ : at[i] = Acted(at[i - 1], U, i)
  <2>1. at[0] = x0
    BY <1>8
  <2>2. ASSUME NEW i \in 1 .. Np_ PROVE at[i] = Acted(at[i - 1], U, i)
    <3>1. at[i] = LET a == U[Solver!Min({i, Nc_})]
                  IN  Solver!Plus(Solver!APower(1, at[i - 1]), Solver!Times(Solver!APowerB(0), a))
      <4> DEFINE E(j) == LET a == U[Solver!Min({j, Nc_})]
                         IN  Solver!Plus(Solver!APower(1, at[j - 1]),
                                         Solver!Times(Solver!APowerB(0), a))
      <4>1. at = [j \in 0 .. Np_ |-> IF j = 0 THEN <<0, v_now>> ELSE E(j)]
        BY <1>8, Zenon
      <4> HIDE DEF E
      <4>2. i \in 0 .. Np_ /\ i # 0
        OBVIOUS
      <4>3. at[i] = E(i)
        BY <4>1, <4>2
      <4>4. QED BY <4>3 DEF E
    <3>2. QED BY <1>3, <3>1 DEF Acted
  <2>3. QED BY <2>1, <2>2
<1> HIDE DEF d, x0
<1> DEFINE S == {i \in Nat : i <= Np_ => at[i] = d[i]}
<1>10. 0 \in S
  BY <1>6, <1>9
<1>11. ASSUME NEW i \in Nat, i \in S PROVE i + 1 \in S
  <2> SUFFICES ASSUME i + 1 <= Np_ PROVE at[i + 1] = d[i + 1]
    OBVIOUS
  <2>1. i + 1 \in 1 .. Np_ /\ (i + 1) - 1 = i /\ at[i] = d[i]
    BY <1>11
  <2>2. at[i + 1] = Acted(at[i], U, i + 1) /\ d[i + 1] = Acted(d[i], U, i + 1)
    BY <1>5, <1>9, <2>1
  <2>3. QED BY <2>1, <2>2
<1> HIDE DEF S
<1>12. Nat \subseteq S
  BY <1>10, <1>11, SetInduction
<1>13. \A i \in 1 .. Np_ : at[i] = d[i]
  BY <1>12 DEF S
<1>14. QED BY <1>1, <1>6, <1>13 DEF x0

(* A solved problem keeps its solution for the cycle, and the solution is a *)
(* feasible one: the command is its first control, unclipped. *)
SolverInv ==
  /\ Np_ \in Nat /\ Nc_ \in 1 .. Np_
  /\ v_now \in Int /\ v_max_ \in Nat /\ v_cmd \in Int
  /\ solved => last_solution_ \in Solver!Feasible /\ v_cmd = v_now + last_solution_[1]

LEMMA ClipIs ==
  ASSUME NEW n \in Int, NEW lo \in Int, NEW hi \in Int
  PROVE  Solver!Clip(n, lo, hi) \in Int /\ (n \in lo .. hi => Solver!Clip(n, lo, hi) = n)
  BY DEF Solver!Clip

LEMMA FeasibleIs ==
  ASSUME Np_ \in Nat, Nc_ \in 1 .. Np_, v_now \in Int, v_max_ \in Nat, NEW U \in Solver!Feasible
  PROVE  /\ U \in [1 .. Nc_ -> Solver!Accels] /\ U \in [1 .. Nc_ -> Int]
         /\ U[1] \in -AMax .. AMax
         /\ v_now + U[1] \in -v_max_ .. v_max_
         /\ \A i \in 1 .. Np_ : /\ Solver!Driven(U)[i] = Solver!Predicted(<<0, v_now>>, U, i - 1)
                               /\ Solver!Driven(U)[i][2] \in -v_max_ .. v_max_
<1>1. AMax \in Nat
  BY MCAssumption DEF Solver!LimitAssumption
<1>2. U \in [1 .. Nc_ -> Solver!Accels] /\ U \in [1 .. Nc_ -> Int]
  BY <1>1 DEF Solver!Feasible, Solver!Accels
<1>3. U[1] \in -AMax .. AMax
  BY <1>2 DEF Solver!Accels
<1>4. \A i \in 0 .. Np_ - 1 : Solver!Predicted(<<0, v_now>>, U, i)[2] \in -v_max_ .. v_max_
  BY DEF Solver!Feasible
<1>5. Nc_ \in Nat \ {0}
  OBVIOUS
<1>6. \A i \in 1 .. Np_ : Solver!Driven(U)[i] = Solver!Predicted(<<0, v_now>>, U, i - 1)
  BY <1>2, <1>5, WayIsPredicted
<1>7. \A i \in 1 .. Np_ : Solver!Driven(U)[i][2] \in -v_max_ .. v_max_
  <2> TAKE i \in 1 .. Np_
  <2>1. i - 1 \in 0 .. Np_ - 1
    OBVIOUS
  <2>2. QED BY <1>4, <1>6, <2>1
<1>8. v_now + U[1] \in -v_max_ .. v_max_
  <2>1. <<0, v_now>> \in Pairs
    BY DEF Pairs
  <2> DEFINE x0 == <<0, v_now>>
  <2>2. x0[2] = v_now
    OBVIOUS
  <2> HIDE DEF x0
  <2>3. Solver!Predicted(x0, U, 0)[2] = x0[2] + U[1]
    BY <1>2, <1>5, <2>1, PredictedFirst DEF x0
  <2>4. 0 \in 0 .. Np_ - 1
    OBVIOUS
  <2>5. Solver!Predicted(x0, U, 0)[2] \in -v_max_ .. v_max_
    BY <1>4, <2>4 DEF x0
  <2>6. QED BY <2>2, <2>3, <2>5
<1>9. QED BY <1>2, <1>3, <1>6, <1>7, <1>8

LEMMA SolverStarts == Solver!Init => SolverInv
<1> SUFFICES ASSUME Solver!Init PROVE SolverInv
  OBVIOUS
<1>1. Horizons \subseteq Int \X Int /\ Limits \subseteq Nat
  BY MCAssumption DEF Solver!LimitAssumption
<1>2. PICK h \in Horizons : Np_ = h[1] /\ Nc_ = h[2]
  BY DEF Solver!Init
<1>3. Np_ \in Int /\ Nc_ \in Int
  BY <1>1, <1>2
<1>4. Np_ >= Nc_ /\ Nc_ >= 1 /\ v_max_ \in Limits /\ v_now = 0 /\ v_cmd = 0 /\ solved = FALSE
  BY DEF Solver!Init
<1>5. QED BY <1>1, <1>3, <1>4 DEF SolverInv

LEMMA SolverStep == SolverInv /\ [Solver!Next]_solverVars => SolverInv'
<1> SUFFICES ASSUME SolverInv, [Solver!Next]_solverVars PROVE SolverInv'
  OBVIOUS
<1>1. /\ Horizons \subseteq Int \X Int /\ Limits \subseteq Nat /\ AMax \in Nat /\ VMax \in Nat
  BY MCAssumption DEF Solver!LimitAssumption
<1>2. /\ Np_ \in Nat /\ Nc_ \in 1 .. Np_ /\ v_now \in Int /\ v_max_ \in Nat /\ v_cmd \in Int
  BY DEF SolverInv
<1>3. ASSUME NEW h \in Horizons, Solver!SetHorizon(h[1], h[2]) PROVE SolverInv'
  <2>1. h[1] \in Int /\ h[2] \in Int
    BY <1>1
  <2>2. Np_' = Solver!Max({h[1], 1}) /\ Nc_' = Solver!Min({Solver!Max({h[2], 1}), Np_'})
        /\ solved' = FALSE /\ UNCHANGED <<v_max_, v_now, v_cmd>>
    BY <1>3 DEF Solver!SetHorizon
  <2>3. Np_' \in Nat /\ Np_' >= 1
    <3> DEFINE n == h[1]
    <3>1. n \in Int /\ 1 \in Int
      BY <2>1
    <3> HIDE DEF n
    <3>2. Solver!Max({n, 1}) = IF n < 1 THEN 1 ELSE n
      BY <3>1, LeastOfTwo
    <3>3. QED BY <2>2, <3>1, <3>2 DEF n
  <2> DEFINE m == Solver!Max({h[2], 1})
  <2>4. m \in Int /\ m >= 1
    <3> DEFINE n == h[2]
    <3>1. n \in Int /\ 1 \in Int
      BY <2>1
    <3> HIDE DEF n
    <3>2. Solver!Max({n, 1}) = IF n < 1 THEN 1 ELSE n
      BY <3>1, LeastOfTwo
    <3>3. QED BY <3>1, <3>2 DEF n
  <2> HIDE DEF m
  <2>5. Nc_' = Solver!Min({m, Np_'})
    BY <2>2 DEF m
  <2>6. Nc_' \in 1 .. Np_'
    BY <2>3, <2>4, <2>5, LeastOfTwo
  <2>7. QED BY <1>2, <2>2, <2>3, <2>6 DEF SolverInv
<1>4. CASE Solver!Solve
  <2>1. UNCHANGED <<Np_, Nc_, v_max_, v_now>>
    BY <1>4 DEF Solver!Solve
  <2>2. ASSUME NEW U \in Solver!Feasible, Solver!SetControls(U, TRUE) PROVE SolverInv'
    <3>1. /\ U \in [1 .. Nc_ -> Solver!Accels] /\ U[1] \in -AMax .. AMax
          /\ v_now + U[1] \in -v_max_ .. v_max_
      BY <1>2, FeasibleIs
    <3>2. U[1] \in Int /\ v_now + U[1] \in Int /\ -v_max_ \in Int /\ -AMax \in Int
      BY <1>1, <1>2, <3>1
    <3>3. Solver!Clip(U[1], -AMax, AMax) = U[1]
      BY <1>1, <3>1, <3>2 DEF Solver!Clip
    <3>4. last_solution_' = U
      <4>1. last_solution_' = [U EXCEPT ![1] = U[1]]
        BY <2>2, <3>3 DEF Solver!SetControls
      <4>2. QED BY <3>1, <4>1
    <3>5. v_cmd' = v_now + U[1]
      <4>1. v_cmd' = Solver!Clip(v_now + U[1], -v_max_, v_max_)
        BY <2>2, <3>4 DEF Solver!SetControls
      <4> DEFINE n == v_now + U[1]
      <4>2. n \in -v_max_ .. v_max_
        BY <3>1
      <4> HIDE DEF n
      <4>3. Solver!Clip(n, -v_max_, v_max_) = n
        BY <1>2, <4>2 DEF Solver!Clip
      <4>4. QED BY <4>1, <4>3 DEF n
    <3>6. Solver!Feasible' = Solver!Feasible
      BY <2>1 DEF Solver!Feasible, Solver!Predicted, Solver!Block
    <3>7. last_solution_' \in Solver!Feasible' /\ v_cmd' = v_now' + last_solution_'[1]
      BY <2>1, <3>4, <3>5, <3>6
    <3>8. QED BY <1>2, <2>1, <3>2, <3>5, <3>7 DEF SolverInv
  <2>3. ASSUME NEW U \in [1 .. Nc_ -> {-2 * AMax, 0, 2 * AMax}], Solver!SetControls(U, FALSE)
        PROVE  SolverInv'
    <3>1. 1 \in 1 .. Nc_ /\ U[1] \in Int /\ -AMax \in Int /\ -v_max_ \in Int
      <4>1. 1 \in 1 .. Nc_
        BY <1>2
      <4>2. U[1] \in {-2 * AMax, 0, 2 * AMax}
        BY <4>1
      <4>3. QED BY <1>1, <1>2, <4>1, <4>2
    <3> DEFINE u == Solver!Clip(U[1], -AMax, AMax)
    <3>2. u \in Int
      BY <1>1, <3>1, ClipIs
    <3> HIDE DEF u
    <3>3. last_solution_' = [U EXCEPT ![1] = u] /\ solved' = FALSE
          /\ v_cmd' = Solver!Clip(v_now + last_solution_'[1], -v_max_, v_max_)
      BY <2>3 DEF Solver!SetControls, u
    <3>4. last_solution_'[1] = u
      BY <3>1, <3>3
    <3>5. v_now + u \in Int
      BY <1>2, <3>2
    <3>6. v_cmd' \in Int
      BY <1>2, <3>1, <3>3, <3>4, <3>5, ClipIs
    <3>7. QED BY <1>2, <2>1, <3>3, <3>6 DEF SolverInv
  <2>4. CASE v_cmd' = Solver!Clip(v_now, -v_max_, v_max_) /\ solved' = FALSE
    <3>1. -v_max_ \in Int /\ v_max_ \in Int
      BY <1>2
    <3>2. v_cmd' \in Int
      BY <1>2, <2>4, <3>1, ClipIs
    <3>3. QED BY <1>2, <2>1, <2>4, <3>2 DEF SolverInv
  <2>5. QED BY <1>4, <2>2, <2>3, <2>4, Zenon DEF Solver!Solve
<1>5. ASSUME NEW v \in {v_cmd, Solver!Clip(v_cmd - 1, -VMax, VMax)}, NEW limit \in Limits,
             Solver!NextCycle(v, limit)
      PROVE  SolverInv'
  <2>1. v_cmd - 1 \in Int /\ -VMax \in Int /\ VMax \in Int
    BY <1>1, <1>2
  <2>2. Solver!Clip(v_cmd - 1, -VMax, VMax) \in Int
    BY <2>1, ClipIs
  <2>3. v \in Int
    BY <1>2, <2>2
  <2>4. v_now' = v /\ v_max_' = limit /\ solved' = FALSE /\ UNCHANGED <<Np_, Nc_, v_cmd>>
    BY <1>5 DEF Solver!NextCycle
  <2>5. QED BY <1>1, <1>2, <2>3, <2>4 DEF SolverInv
<1>6. CASE Solver!Reset
  BY <1>2, <1>6 DEF Solver!Reset, SolverInv
<1>7. CASE UNCHANGED solverVars
  <2>1. UNCHANGED <<Np_, Nc_, v_max_, v_now, v_cmd, solved, last_solution_>>
    BY <1>7 DEF solverVars
  <2>2. Solver!Feasible' = Solver!Feasible
    BY <2>1 DEF Solver!Feasible, Solver!Predicted, Solver!Block
  <2>3. QED BY <2>1, <2>2 DEF SolverInv
<1>8. QED BY <1>3, <1>4, <1>5, <1>6, <1>7, Zenon DEF Solver!Next

(* The way that the solver plans with is the way the robot drives with its  *)
(* controls, and is within the limits, for every horizon, limit and speed:  *)
(* the last control is held in both, and a fallback never counts as solved. *)
THEOREM PlanIsDriven == Solver!Init /\ [][Solver!Next]_solverVars => []SolutionIsDriven
<1>1. SolverInv => SolutionIsDriven
  <2> SUFFICES ASSUME SolverInv, solved PROVE Solver!SolutionIsDriven
    BY DEF SolutionIsDriven, Solver!SolutionIsDriven
  <2>1. /\ \A i \in 1 .. Np_ :
             /\ Solver!Driven(last_solution_)[i] = Solver!Predicted(<<0, v_now>>, last_solution_, i - 1)
             /\ Solver!Driven(last_solution_)[i][2] \in -v_max_ .. v_max_
        /\ v_cmd = v_now + last_solution_[1]
    BY FeasibleIs DEF SolverInv
  <2>2. QED BY <2>1 DEF Solver!SolutionIsDriven
<1>2. QED BY SolverStarts, SolverStep, <1>1, PTL

-----------------------------------------------------------------------------
(* The way to the goal (OmniPidPursuit).  The sum of the speeds below v,   *)
(* v * (v - 1) / 2, is what a robot at speed v still drives when it brakes.*)
(* Failed cycles brake the robot but not prev_cmd_vel_, from which the     *)
(* next command starts: with speed v and fastest q of speed and command,   *)
(* and cycles failing as it is worst, the way is                           *)
(* v * (v - 1) / 2 + (q - 1) ^ 2. *)
Bigger(a, b) == IF a < b THEN b ELSE a
Onward == Bigger(vel, 0)
Fast == Bigger(Bigger(vel, prev_cmd_vel_), 1)

PidType == [exists : BOOLEAN, pre_error : Int, has : BOOLEAN]

PursuitType ==
  /\ vel \in -v_linear_max .. v_linear_max /\ prev_cmd_vel_ \in -v_linear_max .. v_linear_max
  /\ dist \in Int
  /\ following \in BOOLEAN /\ has_prev_cmd_vel_ \in BOOLEAN /\ use_mpc_control_ \in BOOLEAN
  /\ room \in {"near", "far", "failed", "direct", "both"}
  /\ move_pid_ \in PidType

(* The robot can still stop: when its cycles fail from now on, *)
CanStop == room \in {"far", "failed"} /\ following => Onward * (Onward - 1) < 2 * dist

(* when they fail now and then, *)
CanFail ==
  room \in {"far", "failed"} /\ following =>
    Onward * (Onward - 1) + 2 * (Fast - 1) * (Fast - 1) <= 2 * dist + Pursuit!Missing

(* when none fails, *)
CanSlow ==
  room \in {"far", "direct"} /\ following =>
    Fast * (Fast - 1) <= 2 * (dist + Overrun) /\ dist > 0

(* and when the server gives the goal up. *)
CanBrake ==
  room \in {"far", "failed", "direct"} => Onward * (Onward - 1) <= 2 * (dist + Overrun)

PursuitInv == PursuitType /\ CanStop /\ CanFail /\ CanSlow /\ CanBrake

-----------------------------------------------------------------------------
LEMMA PursuitConstants ==
  /\ v_linear_max \in Nat /\ v_linear_max >= 1
  /\ Kp \in Nat /\ Kd \in Nat /\ lookahead_time \in Nat /\ min_lookahead_dist \in Nat
  /\ max_lookahead_dist \in Nat /\ ExitMargin \in Nat /\ DirectStopDist \in Nat /\ MaxLinearVel \in Nat
  /\ approach_velocity_scaling_dist \in Nat /\ approach_velocity_scaling_dist >= 1
  /\ min_approach_linear_velocity \in 1 .. v_linear_max
  /\ DirectSlowdownDist \in Nat /\ DirectStopDist < DirectSlowdownDist
  /\ MpcSpeeds \subseteq 0 .. v_linear_max /\ CurveSpeed \in 0 .. v_linear_max
  /\ NewDists \subseteq Nat
  /\ Overrun = XyGoalTolerance /\ Overrun \in Nat /\ Overrun >= 4
<1>1. Pursuit!ParameterAssumption /\ Pursuit!StoppingAssumption
  BY MCAssumption
<1>2. QED BY <1>1 DEF Pursuit!ParameterAssumption, Pursuit!StoppingAssumption

LEMMA PursuitLeastOfTwo ==
  ASSUME NEW a \in Int, NEW b \in Int
  PROVE  /\ Pursuit!Min({a, b}) = IF a < b THEN a ELSE b
         /\ Pursuit!Max({a, b}) = Bigger(a, b)
<1> DEFINE m == IF a < b THEN a ELSE b
           n == IF a < b THEN b ELSE a
<1>1. m \in {a, b} /\ \A y \in {a, b} : m <= y
  OBVIOUS
<1>2. n \in {a, b} /\ \A y \in {a, b} : n >= y
  OBVIOUS
<1>3. \A x \in {a, b} : (\A y \in {a, b} : x <= y) => x = m
  OBVIOUS
<1>4. \A x \in {a, b} : (\A y \in {a, b} : x >= y) => x = n
  OBVIOUS
<1> HIDE DEF m, n
<1>5. Pursuit!Min({a, b}) = m
  BY <1>1, <1>3, Zenon DEF Pursuit!Min
<1>6. Pursuit!Max({a, b}) = n
  BY <1>2, <1>4, Zenon DEF Pursuit!Max
<1>7. QED BY <1>5, <1>6 DEF m, n, Bigger

LEMMA DivIs ==
  ASSUME NEW a \in Int, NEW b \in Nat, b > 0
  PROVE  a \div b \in Int /\ b * (a \div b) <= a /\ a < b * (a \div b) + b
  OBVIOUS

LEMMA MissingIs ==
  LET full == 3 * v_linear_max * (v_linear_max - 1) + 2
  IN  /\ Pursuit!Missing \in Nat /\ full \in Int
      /\ full <= 2 * approach_velocity_scaling_dist + Pursuit!Missing
      /\ v_linear_max * (v_linear_max + 1) <= 2 * approach_velocity_scaling_dist
      /\ v_linear_max * (v_linear_max + 1) <= 2 * (DirectSlowdownDist + Overrun)
      /\ min_approach_linear_velocity * (min_approach_linear_velocity + 1) <= 2 * (1 + Overrun)
      /\ 3 * min_approach_linear_velocity * (min_approach_linear_velocity - 1) <= Pursuit!Missing
      /\ \A v \in 1 .. v_linear_max :
           v * (v - 1) > 2 * XyGoalTolerance => Pursuit!Missing < 2 * (v - 1) * (v - 1)
<1>1. Pursuit!StoppingAssumption
  BY MCAssumption
<1>2. PICK full \in Int : full = 3 * v_linear_max * (v_linear_max - 1) + 2
  BY PursuitConstants
<1>3. PICK short \in Int : short = full - 2 * approach_velocity_scaling_dist
  BY PursuitConstants
<1>4. Pursuit!Missing = Bigger(short, 0)
  <2>1. Pursuit!Missing = Pursuit!Max({short, 0})
    <3>1. short = 3 * v_linear_max * (v_linear_max - 1) + 2 - 2 * approach_velocity_scaling_dist
      BY <1>2, <1>3, PursuitConstants
    <3>2. QED BY <3>1, Zenon DEF Pursuit!Missing
  <2>2. Pursuit!Max({short, 0}) = Bigger(short, 0)
    BY PursuitLeastOfTwo
  <2>3. QED BY <2>1, <2>2
<1>5. Pursuit!Missing \in Nat /\ full <= 2 * approach_velocity_scaling_dist + Pursuit!Missing
  BY <1>3, <1>4, PursuitConstants DEF Bigger
<1>6. QED BY <1>1, <1>2, <1>5 DEF Pursuit!StoppingAssumption

(* The commands that the approach allows at distance d. *)
Fitting(d, c) ==
  /\ c \in 1 .. v_linear_max
  /\ c = min_approach_linear_velocity \/ c * approach_velocity_scaling_dist <= v_linear_max * d

LEMMA Cancelled ==
  ASSUME NEW x \in Int, NEW y \in Int, NEW v \in Nat, v >= 1, x * v <= y * v
  PROVE  x <= y
  OBVIOUS

LEMMA ThreeHalves ==
  ASSUME NEW v \in Nat, NEW c \in Nat, NEW a \in Nat, NEW d \in Nat, NEW s \in Nat,
         1 <= c, c <= v, c * a <= v * d, 3 * v * (v - 1) + 2 <= 2 * a + s
  PROVE  3 * c * (c - 1) + 2 <= 2 * d + s
<1>1. CASE c = v
  <2>1. a * v <= d * v
    BY <1>1
  <2>2. a <= d
    BY <2>1, Cancelled
  <2>3. QED BY <1>1, <2>2
<1>2. CASE c < v
  <2> DEFINE x == 3 * c * (c - 1) + 2
             y == 2 * d + s
  <2>1. 3 * c * (c - 1) * v <= 3 * c * (v - 1) * v - 3 * c * v
    <3>1. (c * v) * (c - 1) <= (c * v) * (v - 2)
      BY <1>2
    <3>2. QED BY <3>1
  <2>2. c * (3 * v * (v - 1) + 2) <= c * (2 * a + s)
    OBVIOUS
  <2>3. c * (2 * a + s) <= v * (2 * d + s)
    OBVIOUS
  <2>4. 2 * v <= 2 * c * v
    OBVIOUS
  <2>5. x * v <= y * v
    BY <2>1, <2>2, <2>3, <2>4
  <2>6. x \in Int /\ y \in Int /\ v >= 1
    BY <1>2
  <2> HIDE DEF x, y
  <2>7. x <= y
    BY <2>5, <2>6, Cancelled
  <2>8. QED BY <2>7 DEF x, y
<1>3. QED BY <1>1, <1>2

LEMMA OneHalf ==
  ASSUME NEW v \in Nat, NEW c \in Nat, NEW a \in Nat, NEW d \in Nat,
         1 <= c, c <= v, c * a <= v * d, v * (v + 1) <= 2 * a
  PROVE  c * (c + 1) <= 2 * d
<1>1. (c * v) * (c + 1) <= (c * v) * (v + 1)
  OBVIOUS
<1>2. c * (v * (v + 1)) <= c * (2 * a)
  OBVIOUS
<1>3. (c * (c + 1)) * v <= (2 * d) * v
  BY <1>1, <1>2
<1> DEFINE x == c * (c + 1)
           y == 2 * d
<1>5. x \in Int /\ y \in Int /\ x * v <= y * v /\ v >= 1
  BY <1>3
<1> HIDE DEF x, y
<1>6. x <= y
  BY <1>5
<1>7. QED BY <1>6 DEF x, y

LEMMA FittingStops ==
  ASSUME NEW d \in Nat, d >= 1, NEW c, Fitting(d, c)
  PROVE  /\ 3 * c * (c - 1) + 2 <= 2 * d + Pursuit!Missing
         /\ c * (c + 1) <= 2 * (d + Overrun)
<1>1. c \in Nat /\ 1 <= c /\ c <= v_linear_max
  BY PursuitConstants DEF Fitting
<1>2. CASE c = min_approach_linear_velocity
  BY <1>1, <1>2, MissingIs, PursuitConstants
<1>3. CASE c * approach_velocity_scaling_dist <= v_linear_max * d
  <2> DEFINE V == v_linear_max
             a == approach_velocity_scaling_dist
             s == Pursuit!Missing
  <2>1. V \in Nat /\ a \in Nat /\ s \in Nat /\ 3 * V * (V - 1) + 2 <= 2 * a + s /\ V * (V + 1) <= 2 * a
        /\ c <= V /\ c * a <= V * d
    BY <1>1, <1>3, MissingIs, PursuitConstants
  <2> HIDE DEF V, a, s
  <2>2. c * (c + 1) <= 2 * d
    BY <2>1, <1>1, OneHalf
  <2>3. 3 * c * (c - 1) + 2 <= 2 * d + s
    BY <2>1, <1>1, ThreeHalves
  <2>4. QED BY <2>2, <2>3, <1>1, PursuitConstants DEF s
<1>4. QED BY <1>2, <1>3 DEF Fitting

-----------------------------------------------------------------------------
(* Commands. *)
LEMMA CarrotIs ==
  ASSUME PursuitType
  PROVE  Pursuit!CarrotDist \in Int
<1>1. PICK s \in Int : s = Pursuit!Size(IF has_prev_cmd_vel_ THEN prev_cmd_vel_ ELSE vel)
  BY PursuitConstants DEF PursuitType, Pursuit!Size
<1>2. lookahead_time * s \in Int
  BY PursuitConstants
<1>3. PICK w \in Int : w = (lookahead_time * s) \div 1000
  BY <1>2
<1>4. PICK a \in Int : a = Pursuit!Clamp(w, min_lookahead_dist, max_lookahead_dist)
  BY PursuitConstants DEF Pursuit!Clamp
<1>5. Pursuit!getLookAheadDistance = a
  BY <1>1, <1>3, <1>4 DEF Pursuit!getLookAheadDistance
<1>6. PICK b \in Int : b = Pursuit!Size(dist)
  BY DEF PursuitType, Pursuit!Size
<1>7. Pursuit!CarrotDist = Pursuit!Min({a, b})
  BY <1>5, <1>6, Zenon DEF Pursuit!CarrotDist
<1>8. QED BY <1>7, PursuitLeastOfTwo

LEMMA OutputIs ==
  ASSUME NEW pid \in PidType, NEW e \in Int
  PROVE  Pursuit!Output(pid, e) \in -v_linear_max .. v_linear_max
<1>1. pid.pre_error \in Int
  BY DEF PidType
<1>2. PICK p \in Int : p = Kp * e
  BY PursuitConstants
<1>3. PICK x \in Int : x = e - pid.pre_error
  BY <1>1
<1>4. PICK d \in Int : d = IF pid.has THEN Kd * x ELSE 0
  <2>1. Kd * x \in Int
    BY PursuitConstants
  <2>2. QED BY <2>1
<1>5. PICK n \in Int : n = (p + d) \div 1000
  OBVIOUS
<1>6. Pursuit!Output(pid, e) = Pursuit!Clamp(n, -v_linear_max, v_linear_max)
  BY <1>2, <1>3, <1>4, <1>5 DEF Pursuit!Output
<1>7. QED BY <1>6, PursuitConstants DEF Pursuit!Clamp

(* applyApproachVelocityScaling *)
LEMMA ApproachIs ==
  ASSUME PursuitType, NEW v \in -v_linear_max .. v_linear_max
  PROVE  /\ Pursuit!Approach(v) \in -v_linear_max .. v_linear_max
         /\ dist >= 1 => \E c \in Int : Fitting(dist, c) /\ Pursuit!Approach(v) <= c
<1> DEFINE V == v_linear_max
           A == approach_velocity_scaling_dist
           m == min_approach_linear_velocity
<1>1. PICK z \in Nat : z = Pursuit!Size(dist) /\ (dist >= 1 => z = dist)
  BY DEF PursuitType, Pursuit!Size
<1>2. v * z \in Int /\ V \in Nat /\ V >= 1 /\ A \in Nat /\ A >= 1 /\ m \in 1 .. V
  BY <1>1, PursuitConstants
<1>3. PICK w \in Int : w = (v * z) \div A
  BY <1>2, DivIs
<1>4. A * w <= v * z /\ v * z < A * w + A
  BY <1>2, <1>3, DivIs
<1>5. PICK s \in Int : s = IF z < A THEN w ELSE v
  OBVIOUS
<1>6. Pursuit!Approach(v) = Pursuit!Min({v, Pursuit!Max({s, m})})
  BY <1>1, <1>3, <1>5 DEF Pursuit!Approach
<1>7. PICK b \in Int : b = Pursuit!Max({s, m}) /\ b = Bigger(s, m)
  <2>1. m \in Int /\ Bigger(s, m) \in Int
    BY <1>2 DEF Bigger
  <2> HIDE DEF m
  <2>2. QED BY <2>1, PursuitLeastOfTwo
<1>8. Pursuit!Approach(v) = IF v < b THEN v ELSE b
  <2>1. v \in Int
    BY <1>2
  <2>2. Pursuit!Min({v, b}) = IF v < b THEN v ELSE b
    BY <2>1, PursuitLeastOfTwo
  <2>3. QED BY <2>2, <1>6, <1>7
<1>9. Pursuit!Approach(v) \in -V .. V
  BY <1>2, <1>7, <1>8 DEF Bigger
<1>10. ASSUME dist >= 1 PROVE \E c \in Int : Fitting(dist, c) /\ Pursuit!Approach(v) <= c
  <2> dist = z
    BY <1>1, <1>10
  <2>1. CASE z >= A
    <3>1. V * A <= V * z
      BY <2>1, <1>1, <1>2
    <3>2. Fitting(dist, V)
      BY <3>1, <1>2 DEF Fitting
    <3>3. QED BY <3>2, <1>2, <1>9
  <2>2. CASE z < A /\ Pursuit!Approach(v) <= m
    BY <2>2, <1>2 DEF Fitting
  <2>3. CASE z < A /\ Pursuit!Approach(v) > m
    <3>1. PICK c \in Int : c = Pursuit!Approach(v)
      BY <1>9
    <3>2. c <= v /\ c <= w /\ c > m
      BY <2>3, <3>1, <1>2, <1>5, <1>7, <1>8 DEF Bigger
    <3>3. A * c <= A * w
      BY <3>2, <1>2
    <3>4. v * z <= V * z
      BY <1>1, <1>2
    <3>5. c * A <= V * z
      BY <3>3, <3>4, <1>4, <1>2, <1>1
    <3>6. Fitting(dist, c)
      BY <3>1, <3>2, <3>5, <1>2, <1>9 DEF Fitting
    <3>7. QED BY <3>6, <3>1
  <2>4. QED BY <2>1, <2>2, <2>3, <1>1, <1>2, <1>9
<1>11. QED BY <1>9, <1>10

LEMMA PursuitCommand ==
  ASSUME PursuitType, NEW pid \in PidType, NEW v \in Pursuit!Pursuit(pid)
  PROVE  /\ v \in -v_linear_max .. v_linear_max
         /\ dist >= 1 => \E c \in Int : Fitting(dist, c) /\ v <= c
<1>1. CASE Pursuit!CarrotDist = 0
  <2>1. v = 0
    BY <1>1 DEF Pursuit!Pursuit
  <2>2. QED BY <2>1, PursuitConstants DEF Fitting
<1>2. CASE Pursuit!CarrotDist # 0
  <2>1. PICK o \in -v_linear_max .. v_linear_max : o = Pursuit!Output(pid, Pursuit!CarrotDist)
    BY CarrotIs, OutputIs
  <2>2. PICK u \in -v_linear_max .. v_linear_max : u = Pursuit!Min({o, CurveSpeed})
    <3>1. o \in Int /\ CurveSpeed \in Int
      BY PursuitConstants
    <3>2. Pursuit!Min({o, CurveSpeed}) = IF o < CurveSpeed THEN o ELSE CurveSpeed
      BY <3>1, PursuitLeastOfTwo
    <3>3. QED BY <3>2, PursuitConstants
  <2>3. v = Pursuit!Approach(o) \/ v = Pursuit!Approach(u)
    BY <1>2, <2>1, <2>2 DEF Pursuit!Pursuit
  <2>4. QED BY <2>3, ApproachIs
<1>3. QED BY <1>1, <1>2

LEMMA MpcCommand ==
  ASSUME PursuitType, ~Pursuit!NearGoal, NEW v \in Pursuit!Solved
  PROVE  /\ v \in -v_linear_max .. v_linear_max
         /\ dist >= 1 => \E c \in Int : Fitting(dist, c) /\ v <= c
<1> DEFINE V == v_linear_max
           A == approach_velocity_scaling_dist
<1>1. V \in Nat /\ V >= 1 /\ A \in Nat /\ A >= 1 /\ ExitMargin \in Nat
  BY PursuitConstants
<1>2. v \in 0 .. V
  <2>1. CASE mpc_controller_
    <3>1. PICK b \in MpcSpeeds : v \in {Pursuit!Clamp(vel + a, 0, b) : a \in {-1, 0, 1}}
      BY <2>1, Zenon DEF Pursuit!Solved
    <3>2. b \in 0 .. V
      BY PursuitConstants
    <3>3. PICK a \in {-1, 0, 1} : v = Pursuit!Clamp(vel + a, 0, b)
      BY <3>1, Zenon
    <3>4. QED BY <3>2, <3>3, PursuitConstants DEF PursuitType, Pursuit!Clamp
  <2>2. CASE ~mpc_controller_
    BY <2>2, <1>1 DEF Pursuit!Solved
  <2>3. QED BY <2>1, <2>2
<1>3. dist >= 1 => dist >= A /\ dist \in Nat
  BY <1>1 DEF PursuitType, Pursuit!NearGoal, Pursuit!Size
<1>4. dist >= 1 => V * A <= V * dist
  BY <1>1, <1>3
<1>5. dist >= 1 => Fitting(dist, V)
  BY <1>1, <1>4 DEF Fitting
<1>6. QED BY <1>1, <1>2, <1>5

LEMMA SquareScaled ==
  ASSUME NEW V \in Nat, NEW c \in Nat, NEW w \in Nat, NEW r \in Nat, NEW k \in Nat,
         w >= 1, r <= w, c <= V, c * (w * w) <= V * r * r, V * (V + 1) <= 2 * (w + k)
  PROVE  c * (c + 1) <= 2 * (r + k)
<1>1. (c + 1) * (c * (w * w)) <= (c + 1) * (V * r * r)
  BY Monotone
<1>2. (V * r * r) * (c + 1) <= (V * r * r) * (V + 1)
  <2>1. V * r * r \in Nat
    OBVIOUS
  <2>2. QED BY <2>1, Monotone
<1>3. (r * r) * (V * (V + 1)) <= (r * r) * (2 * (w + k))
  <2>1. r * r \in Nat /\ V * (V + 1) \in Int /\ 2 * (w + k) \in Int
    OBVIOUS
  <2> DEFINE a == r * r
             b == V * (V + 1)
             d == 2 * (w + k)
  <2>2. a \in Nat /\ b \in Int /\ d \in Int /\ b <= d
    BY <2>1
  <2> HIDE DEF a, b, d
  <2>3. a * b <= a * d
    BY <2>2, Monotone
  <2>4. QED BY <2>3 DEF a, b, d
<1>4. r * r * w <= r * w * w
  <2>1. (r * w) * r <= (r * w) * w
    OBVIOUS
  <2>2. QED BY <2>1
<1>5. r * r * k <= w * w * k
  <2>1. r * r <= w * w
    <3>1. r * r <= r * w /\ r * w <= w * w
      OBVIOUS
    <3>2. r * r \in Int /\ r * w \in Int /\ w * w \in Int
      OBVIOUS
    <3>3. QED BY <3>1, <3>2
  <2>2. QED BY <2>1
<1>6. (r * r) * (w + k) <= (w * w) * (r + k)
  BY <1>4, <1>5
<1>7. (c * (c + 1)) * (w * w) <= (2 * (r + k)) * (w * w)
  <2>1. (c * (c + 1)) * (w * w) <= (V * r * r) * (c + 1)
    BY <1>1
  <2>2. (V * r * r) * (V + 1) = (r * r) * (V * (V + 1))
    OBVIOUS
  <2>3. (r * r) * (2 * (w + k)) = 2 * ((r * r) * (w + k))
    OBVIOUS
  <2>4. (2 * (r + k)) * (w * w) = 2 * ((w * w) * (r + k))
    OBVIOUS
  <2> DEFINE a1 == (c * (c + 1)) * (w * w)
             a2 == (V * r * r) * (c + 1)
             a3 == (V * r * r) * (V + 1)
             a4 == (r * r) * (w + k)
             a5 == (w * w) * (r + k)
  <2>5. {a1, a2, a3, a4, a5} \subseteq Int
    OBVIOUS
  <2>6. a1 <= a2 /\ a2 <= a3 /\ a3 <= 2 * a4 /\ a4 <= a5
    BY <2>1, <2>2, <2>3, <1>2, <1>3, <1>6
  <2>7. a1 <= 2 * a5
    <3> HIDE DEF a1, a2, a3, a4, a5
    <3>1. QED BY <2>5, <2>6
  <2>8. QED BY <2>7, <2>4
<1> DEFINE x == c * (c + 1)
           y == 2 * (r + k)
           z == w * w
<1>8. x \in Int /\ y \in Int /\ z \in Nat /\ z >= 1 /\ x * z <= y * z
  BY <1>7
<1> HIDE DEF x, y, z
<1>9. x <= y
  BY <1>8, Cancelled
<1>10. QED BY <1>9 DEF x, y

LEMMA DirectCommand ==
  ASSUME PursuitType
  PROVE  /\ Pursuit!Direct \in 0 .. v_linear_max
         /\ dist >= 1 => \E c \in 1 .. v_linear_max :
              Pursuit!Direct <= c /\ c * (c + 1) <= 2 * (dist + Overrun)
<1> DEFINE V == v_linear_max
<1>1. PICK z \in Nat : z = Pursuit!Size(dist) /\ (dist >= 1 => z = dist)
  BY DEF PursuitType, Pursuit!Size
<1>2. V \in Nat /\ V >= 1 /\ Kp * z \in Int
  BY <1>1, PursuitConstants
<1>3. PICK w \in Nat : w = DirectSlowdownDist - DirectStopDist /\ w >= 1
  BY PursuitConstants
<1>4. PICK n \in Int : n = (Kp * z) \div 1000
  BY <1>2
<1>5. PICK raw \in 0 .. V : raw = Pursuit!Clamp(n, 0, V)
  BY <1>2 DEF Pursuit!Clamp
<1>6. PICK r \in 0 .. w : r = Pursuit!Clamp(z - DirectStopDist, 0, w)
  <2>1. PICK n0 \in Int : n0 = z - DirectStopDist
    BY <1>1, PursuitConstants
  <2>2. Pursuit!Clamp(n0, 0, w) \in 0 .. w
    BY DEF Pursuit!Clamp
  <2>3. QED BY <2>1, <2>2
<1>7. V * r * r \in Nat /\ w * w \in Nat /\ w * w >= 1
  BY <1>2, <1>3
<1>8. PICK u \in Int : u = (V * r * r) \div (w * w)
  BY <1>7, DivIs
<1>9. (w * w) * u <= V * r * r /\ V * r * r < (w * w) * u + w * w
  BY <1>7, <1>8, DivIs
<1>10. u >= 0
  <2> DEFINE y == w * w
             x == V * r * r
  <2>1. y \in Nat /\ y >= 1 /\ x \in Nat /\ x < y * u + y
    BY <1>7, <1>9
  <2> HIDE DEF y, x
  <2>2. CASE u <= -1
    <3>1. y * u <= y * (-1)
      BY <2>1, <2>2, Monotone
    <3>2. QED BY <3>1, <2>1
  <2>3. QED BY <2>2
<1>11. PICK cut \in Int : cut = Pursuit!Min({raw, u}) /\ cut = IF raw < u THEN raw ELSE u
  <2>1. raw \in Int
    OBVIOUS
  <2>2. Pursuit!Min({raw, u}) = IF raw < u THEN raw ELSE u
    BY <2>1, PursuitLeastOfTwo
  <2>3. QED BY <2>2, <2>1
<1>12. Pursuit!Direct = IF z <= DirectStopDist THEN 0
                        ELSE IF z < DirectSlowdownDist THEN cut ELSE raw
  BY <1>1, <1>3, <1>4, <1>5, <1>6, <1>8, <1>11 DEF Pursuit!Direct
<1>13. Pursuit!Direct \in 0 .. V
  BY <1>2, <1>5, <1>10, <1>11, <1>12
<1>14. ASSUME dist >= 1
       PROVE  \E c \in 1 .. V : Pursuit!Direct <= c /\ c * (c + 1) <= 2 * (dist + Overrun)
  <2> dist = z
    BY <1>1, <1>14
  <2>1. CASE Pursuit!Direct <= 1
    BY <2>1, <1>1, <1>2, PursuitConstants
  <2>2. CASE Pursuit!Direct > 1 /\ z >= DirectSlowdownDist
    <3>1. V * (V + 1) <= 2 * (dist + Overrun)
      BY <2>2, <1>1, MissingIs, PursuitConstants
    <3>2. QED BY <3>1, <1>2, <1>13
  <2>3. CASE Pursuit!Direct > 1 /\ z < DirectSlowdownDist
    <3>1. PICK c \in 1 .. V : c = Pursuit!Direct
      BY <2>3, <1>13
    <3>2. c <= u /\ z > DirectStopDist
      <4>1. z > DirectStopDist
        BY <2>3, <1>1, <1>12, PursuitConstants
      <4>2. c = cut
        BY <2>3, <3>1, <4>1, <1>1, <1>12, PursuitConstants
      <4>3. QED BY <4>1, <4>2, <1>2, <1>5, <1>11
    <3>3. r = z - DirectStopDist
      BY <2>3, <3>2, <1>1, <1>3, <1>6, PursuitConstants DEF Pursuit!Clamp
    <3>4. (w * w) * c <= (w * w) * u
      BY <3>2, <1>7, Monotone
    <3>5. c * (w * w) <= V * r * r
      BY <3>4, <1>9, <1>7
    <3>6. PICK k \in Nat : k = DirectStopDist + Overrun
      BY PursuitConstants
    <3>7. V * (V + 1) <= 2 * (w + k)
      BY <3>6, <1>3, MissingIs, PursuitConstants
    <3>8. c * (c + 1) <= 2 * (r + k)
      <4>1. c \in Nat /\ c <= V /\ r \in Nat /\ r <= w
        BY <1>2, <1>3
      <4> HIDE DEF V
      <4>2. QED BY <4>1, <3>5, <3>7, <1>2, <1>3, SquareScaled
    <3>9. QED BY <3>1, <3>3, <3>6, <3>8, PursuitConstants, <1>1
  <2>4. QED BY <2>1, <2>2, <2>3, <1>1, <1>2, <1>13, PursuitConstants
<1>15. QED BY <1>13, <1>14

-----------------------------------------------------------------------------
(* A cycle with a command. *)

(* The way left after a cycle that takes speed and command down by one, or *)
(* gives no more than c. *)
LEMMA NotNegative ==
  ASSUME NEW w \in Nat
  PROVE  w * (w - 1) \in Nat
<1>1. CASE w = 0
  BY <1>1
<1>2. CASE w >= 1
  BY <1>2
<1>3. QED BY <1>1, <1>2

LEMMA Rises ==
  ASSUME NEW n \in Nat, NEW m \in Nat, n <= m
  PROVE  /\ n * (n - 1) <= m * (m - 1)
         /\ n >= 1 => (n - 1) * (n - 1) <= (m - 1) * (m - 1) /\ (n - 1) * (n - 1) <= m * (m - 1)
<1>1. CASE n = 0
  BY <1>1, NotNegative
<1>2. CASE n >= 1
  <2>1. PICK x \in Nat, y \in Nat : x = n - 1 /\ y = m - 1 /\ x <= y
    BY <1>2
  <2>2. x * x <= x * y /\ x * y <= y * y
    BY <2>1
  <2>3. x * x <= y * y /\ (x + 1) * x <= (y + 1) * y /\ x * x <= (y + 1) * y
    BY <2>1, <2>2
  <2>4. n = x + 1 /\ m = y + 1
    BY <2>1
  <2>5. QED BY <2>1, <2>3, <2>4
<1>3. QED BY <1>1, <1>2

LEMMA SlowerWay ==
  ASSUME NEW v \in Nat, NEW w \in Nat, NEW q \in Nat, NEW r \in Nat, NEW k \in Int,
         q >= 1, q >= v, r >= 1, r >= w, w <= v + 1, r <= q - 1,
         v * (v - 1) + 2 * (q - 1) * (q - 1) <= k
  PROVE  w * (w - 1) + 2 * (r - 1) * (r - 1) <= k - 2 * w
  OBVIOUS

LEMMA CommandWay ==
  ASSUME NEW w \in Nat, NEW r \in Nat, NEW c \in Nat, NEW k \in Int,
         c >= 1, r >= 1, w <= c, r <= c, 3 * c * (c - 1) + 2 <= k
  PROVE  w * (w - 1) + 2 * (r - 1) * (r - 1) <= k - 2 * w
  OBVIOUS

LEMMA GiveIs ==
  ASSUME PursuitType, dist >= 1, NEW c \in 1 .. v_linear_max,
         NEW v \in -v_linear_max .. v_linear_max, v <= c, Pursuit!Give(v)
  PROVE  /\ vel' \in -v_linear_max .. v_linear_max
         /\ prev_cmd_vel_' \in -v_linear_max .. v_linear_max
         /\ has_prev_cmd_vel_' = TRUE
         /\ dist' = dist - vel' /\ dist' \in Int
         /\ following' = (Pursuit!Size(dist') > XyGoalTolerance)
         /\ vel' <= vel + 1 /\ vel' <= Bigger(vel - 1, prev_cmd_vel_')
         /\ prev_cmd_vel_' <= Bigger(prev_cmd_vel_ - 1, c)
<1>1. PICK cmd : /\ cmd = Pursuit!Limited(v)
                 /\ prev_cmd_vel_' = cmd /\ has_prev_cmd_vel_' = TRUE /\ Pursuit!Move(cmd)
                 /\ following' = (Pursuit!Size(dist') > XyGoalTolerance)
  <2>1. dist \in Int /\ ~(dist < 0)
    BY DEF PursuitType
  <2>2. QED BY <2>1, Zenon DEF Pursuit!Give
<1>2. PICK u \in Int : u = IF ~use_mpc_control_ /\ has_prev_cmd_vel_
                         THEN Pursuit!Toward(prev_cmd_vel_, v) ELSE v
  BY PursuitConstants DEF PursuitType, Pursuit!Toward, Pursuit!Clamp
<1>3. /\ u \in -v_linear_max .. v_linear_max
      /\ u <= Bigger(prev_cmd_vel_ - 1, c)
  BY <1>2, PursuitConstants DEF PursuitType, Pursuit!Toward, Pursuit!Clamp, Bigger
<1>4. cmd = Pursuit!Clamp(u, -MaxLinearVel, MaxLinearVel)
  BY <1>1, <1>2 DEF Pursuit!Limited
<1>5. cmd \in -v_linear_max .. v_linear_max
  BY <1>3, <1>4, PursuitConstants DEF Pursuit!Clamp
<1>6. cmd <= u \/ cmd <= 0
  BY <1>4, PursuitConstants DEF Pursuit!Clamp
<1>7. cmd <= Bigger(prev_cmd_vel_ - 1, c)
  BY <1>3, <1>5, <1>6, PursuitConstants DEF PursuitType, Bigger
<1>8. vel' = Pursuit!Toward(vel, cmd) /\ dist' = dist - vel'
  BY <1>1 DEF Pursuit!Move
<1>9. /\ vel' \in -v_linear_max .. v_linear_max
      /\ vel' <= vel + 1 /\ vel' <= Bigger(vel - 1, cmd)
  BY <1>5, <1>8, PursuitConstants DEF PursuitType, Pursuit!Toward, Pursuit!Clamp, Bigger
<1>10. QED BY <1>1, <1>5, <1>7, <1>8, <1>9, PursuitConstants DEF PursuitType

LEMMA SpeedsGiven ==
  ASSUME PursuitType, dist >= 1, NEW c \in 1 .. v_linear_max,
         NEW v \in -v_linear_max .. v_linear_max, v <= c, Pursuit!Give(v)
  PROVE  /\ {Onward, Onward', Fast, Fast'} \subseteq Nat
         /\ 1 <= Fast /\ Onward <= Fast /\ 1 <= Fast' /\ Onward' <= Fast'
         /\ Onward' <= Onward + 1
         /\ Fast' <= c \/ Fast' <= Fast - 1
         /\ Onward' <= v_linear_max
         /\ dist' \in Int /\ dist' >= dist - Onward' /\ (Onward' >= 1 => dist' = dist - Onward')
<1>0. /\ vel' \in -v_linear_max .. v_linear_max
      /\ prev_cmd_vel_' \in -v_linear_max .. v_linear_max
      /\ dist' = dist - vel' /\ dist' \in Int
      /\ vel' <= vel + 1 /\ vel' <= Bigger(vel - 1, prev_cmd_vel_')
      /\ prev_cmd_vel_' <= Bigger(prev_cmd_vel_ - 1, c)
  BY GiveIs, Zenon
<1>1. vel \in Int /\ prev_cmd_vel_ \in Int /\ dist \in Int
  BY PursuitConstants DEF PursuitType
<1>2. vel' \in Int /\ prev_cmd_vel_' \in Int /\ vel' <= v_linear_max
  BY <1>0, PursuitConstants
<1>3. {Onward, Onward', Fast, Fast'} \subseteq Nat
  BY <1>1, <1>2 DEF Onward, Fast, Bigger
<1>4. 1 <= Fast /\ Onward <= Fast /\ 1 <= Fast' /\ Onward' <= Fast'
  BY <1>1, <1>2 DEF Onward, Fast, Bigger
<1>5. Onward' <= Onward + 1 /\ Onward' <= v_linear_max
  BY <1>0, <1>1, <1>2, PursuitConstants DEF Onward, Bigger
<1>6. Fast' <= c \/ Fast' <= Fast - 1
  BY <1>0, <1>1, <1>2, PursuitConstants DEF Fast, Bigger
<1>7. dist' \in Int /\ dist' >= dist - Onward' /\ (Onward' >= 1 => dist' = dist - Onward')
  <2>1. dist' = dist - vel' /\ dist' \in Int
    BY <1>0
  <2>2. Onward' = Bigger(vel', 0)
    BY DEF Onward
  <2>3. \A d, e, x, y \in Int : e = d - x /\ y = Bigger(x, 0) => e >= d - y
    BY DEF Bigger
  <2>4. Onward' \in Int
    BY <1>3
  <2>5. dist \in Int /\ vel' \in Int
    BY <1>1, <1>2
  <2>6. dist' >= dist - Onward'
    BY <2>1, <2>2, <2>3, <2>4, <2>5, Zenon
  <2>7. Onward' >= 1 => dist' = dist - Onward'
    <3>1. SUFFICES ASSUME Onward' >= 1 PROVE dist' = dist - Onward'
      OBVIOUS
    <3>2. Onward' = vel'
      BY <2>2, <2>5, <3>1 DEF Bigger
    <3>3. QED BY <2>1, <3>2, Zenon
  <2>8. QED BY <2>1, <2>6, <2>7
<1>8. QED BY <1>3, <1>4, <1>5, <1>6, <1>7

LEMMA GiveCanFail ==
  ASSUME PursuitType, dist >= 1, NEW c \in Int, Fitting(dist, c),
         NEW v \in -v_linear_max .. v_linear_max, v <= c, Pursuit!Give(v),
         Onward * (Onward - 1) + 2 * (Fast - 1) * (Fast - 1) <= 2 * dist + Pursuit!Missing
  PROVE  Onward' * (Onward' - 1) + 2 * (Fast' - 1) * (Fast' - 1) <= 2 * dist' + Pursuit!Missing
<1>1. c \in 1 .. v_linear_max /\ c \in Nat /\ dist \in Nat
  BY DEF Fitting, PursuitType
<1>2. PICK k \in Int : k = 2 * dist + Pursuit!Missing
  BY <1>1, MissingIs
<1>3. PICK n \in Nat, q \in Nat, w \in Nat, r \in Nat :
        n = Onward /\ q = Fast /\ w = Onward' /\ r = Fast'
  BY <1>1, SpeedsGiven
<1>4. w * (w - 1) + 2 * (r - 1) * (r - 1) <= k - 2 * w
  <2>1. CASE r <= c
    <3>1. 3 * c * (c - 1) + 2 <= k
      BY <1>1, <1>2, FittingStops
    <3>2. c >= 1 /\ r >= 1 /\ w <= c
      BY <1>1, <1>3, <2>1, SpeedsGiven
    <3>3. QED BY <1>1, <2>1, <3>1, <3>2, CommandWay
  <2>2. CASE r <= q - 1
    <3>1. n * (n - 1) + 2 * (q - 1) * (q - 1) <= k
      BY <1>2, <1>3
    <3>2. q >= 1 /\ q >= n /\ r >= 1 /\ r >= w /\ w <= n + 1
      BY <1>1, <1>3, SpeedsGiven
    <3>3. QED BY <2>2, <3>1, <3>2, SlowerWay
  <2>3. QED BY <2>1, <2>2, <1>1, <1>3, SpeedsGiven
<1>5. k - 2 * w <= 2 * dist' + Pursuit!Missing
  BY <1>1, <1>2, <1>3, SpeedsGiven, MissingIs
<1>6. w * (w - 1) + 2 * (r - 1) * (r - 1) \in Int /\ 2 * dist' + Pursuit!Missing \in Int
  BY <1>1, SpeedsGiven, MissingIs
<1>7. w * (w - 1) + 2 * (r - 1) * (r - 1) <= 2 * dist' + Pursuit!Missing
  <2> DEFINE x == w * (w - 1) + 2 * (r - 1) * (r - 1)
             y == 2 * dist' + Pursuit!Missing
  <2>1. x \in Int /\ y \in Int /\ x <= k - 2 * w /\ k - 2 * w <= y
    BY <1>4, <1>5, <1>6
  <2> HIDE DEF x, y
  <2>2. x <= y
    BY <2>1
  <2>3. QED BY <2>2 DEF x, y
<1>8. QED BY <1>3, <1>7

LEMMA GiveCanBrake ==
  ASSUME PursuitType, dist >= 1, NEW c \in Int, Fitting(dist, c),
         NEW v \in -v_linear_max .. v_linear_max, v <= c, Pursuit!Give(v),
         Onward * (Onward - 1) < 2 * dist,
         Onward' * (Onward' - 1) + 2 * (Fast' - 1) * (Fast' - 1) <= 2 * dist' + Pursuit!Missing
  PROVE  /\ Onward' * (Onward' - 1) <= 2 * (dist' + Overrun)
         /\ following' => Onward' * (Onward' - 1) < 2 * dist'
<1>1. c \in 1 .. v_linear_max /\ c \in Nat /\ dist \in Nat
  BY DEF Fitting, PursuitType
<1>2. PICK n \in Nat, w \in Nat, r \in Nat :
        n = Onward /\ w = Onward' /\ r = Fast'
  BY <1>1, SpeedsGiven
<1>3. PICK k \in Nat, b \in Nat : k = Pursuit!Missing /\ b = Overrun /\ b = XyGoalTolerance /\ b >= 4
  BY MissingIs, PursuitConstants
<1>4. PICK d \in Int : d = dist'
  BY <1>1, SpeedsGiven
<1>5. /\ n * (n - 1) < 2 * dist /\ w * (w - 1) + 2 * (r - 1) * (r - 1) <= 2 * d + k
      /\ w <= n + 1 /\ r >= w /\ r >= 1 /\ w <= v_linear_max
      /\ d >= dist - w /\ (w >= 1 => d = dist - w)
  BY <1>1, <1>2, <1>3, <1>4, SpeedsGiven
<1>6. w * (w - 1) > 2 * b => w * (w - 1) < 2 * d
  <2>1. SUFFICES ASSUME w * (w - 1) > 2 * b PROVE w * (w - 1) < 2 * d
    OBVIOUS
  <2>2. w >= 1
    BY <2>1
  <2>3. w \in 1 .. v_linear_max
    BY <2>2, <1>5, PursuitConstants
  <2>4. k < 2 * (w - 1) * (w - 1)
    BY <2>1, <2>3, <1>3, MissingIs
  <2>5. (w - 1) * (w - 1) <= (r - 1) * (r - 1)
    <3>1. PICK x \in Nat, y \in Nat : x = w - 1 /\ y = r - 1 /\ x <= y
      BY <2>2, <1>5
    <3>2. x * x <= x * y /\ x * y <= y * y
      BY <3>1
    <3>3. QED BY <3>1, <3>2
  <2>6. QED BY <2>4, <2>5, <1>5
<1>7. w * (w - 1) <= 2 * (d + b)
  <2>1. CASE w * (w - 1) > 2 * b
    BY <2>1, <1>3, <1>6
  <2>2. CASE w * (w - 1) <= 2 * b /\ d >= 0
    BY <2>2
  <2>3. CASE w * (w - 1) <= 2 * b /\ d < 0
    <3>1. w >= 1 /\ w >= dist + 1 /\ n >= dist
      BY <2>3, <1>1, <1>5
    <3>2. n * (n - 1) < 2 * n
      BY <3>1, <1>1, <1>5
    <3>3. n < 3
      BY <3>2
    <3>4. n \in {0, 1, 2} /\ w \in {0, 1, 2, 3}
      BY <3>3, <1>5
    <3>5. QED BY <3>1, <3>4, <1>1, <1>3, <1>5
  <2>4. QED BY <2>1, <2>2, <2>3
<1>8. following' => w * (w - 1) < 2 * d
  <2>1. SUFFICES ASSUME following' PROVE w * (w - 1) < 2 * d
    OBVIOUS
  <2>2. Pursuit!Size(d) > b
    BY <2>1, <1>1, <1>3, <1>4, GiveIs
  <2>3. w * (w - 1) \in Nat
    BY <1>2, NotNegative
  <2>4. d > b
    BY <2>2, <2>3, <1>3, <1>7 DEF Pursuit!Size
  <2>5. QED BY <2>4, <1>6
<1>9. QED BY <1>2, <1>3, <1>4, <1>7, <1>8

(* Without failed cycles the speed falls with the command. *)
LEMMA GiveCanSlow ==
  ASSUME PursuitType, dist >= 1, NEW c \in 1 .. v_linear_max, c * (c + 1) <= 2 * (dist + Overrun),
         NEW v \in -v_linear_max .. v_linear_max, v <= c, Pursuit!Give(v),
         Fast * (Fast - 1) <= 2 * (dist + Overrun)
  PROVE  /\ Fast' * (Fast' - 1) <= 2 * (dist' + Overrun)
         /\ Onward' * (Onward' - 1) <= 2 * (dist' + Overrun)
         /\ following' => dist' > 0
<1>1. PICK q \in Nat, w \in Nat, r \in Nat : q = Fast /\ w = Onward' /\ r = Fast'
  BY SpeedsGiven
<1>2. PICK d \in Int, b \in Nat : d = dist' /\ b = Overrun /\ b = XyGoalTolerance
  BY SpeedsGiven, PursuitConstants
<1>3. /\ q * (q - 1) <= 2 * (dist + b)
      /\ c * (c + 1) <= 2 * (dist + b)
      /\ w <= r /\ r >= 1 /\ (r <= c \/ r <= q - 1) /\ d >= dist - w /\ dist \in Nat /\ c \in Nat
  <2>1. /\ Onward' <= Fast' /\ 1 <= Fast' /\ (Fast' <= c \/ Fast' <= Fast - 1)
        /\ dist' >= dist - Onward'
    BY SpeedsGiven, Zenon
  <2>2. c \in Nat /\ dist \in Nat
    BY PursuitConstants DEF PursuitType
  <2>3. QED BY <2>1, <2>2, <1>1, <1>2
<1>4. r * (r + 1) <= 2 * (dist + b)
  <2>1. CASE r <= c
    <3>1. r * (r + 1) <= c * (c + 1)
      BY <2>1, <1>3
    <3>2. QED BY <3>1, <1>3
  <2>2. CASE r <= q - 1
    <3>1. r * (r + 1) <= q * (q - 1)
      BY <2>2, <1>3
    <3>2. QED BY <3>1, <1>3
  <2>3. QED BY <2>1, <2>2, <1>3
<1>5. r * (r - 1) <= 2 * (d + b)
  BY <1>3, <1>4
<1>6. w * (w - 1) <= r * (r - 1) /\ w * (w - 1) >= 0
  BY <1>3
<1>7. w * (w - 1) <= 2 * (d + b) /\ d >= -b
  <2>1. w * (w - 1) \in Int /\ r * (r - 1) \in Int
    OBVIOUS
  <2>2. QED BY <2>1, <1>5, <1>6
<1>8. following' => d > 0
  <2>1. following' = (Pursuit!Size(dist') > XyGoalTolerance)
    BY GiveIs, Zenon
  <2>2. SUFFICES ASSUME following' PROVE d > 0
    OBVIOUS
  <2>3. Pursuit!Size(d) > b
    BY <2>1, <2>2, <1>2
  <2>4. d >= -b
    BY <1>7
  <2>5. QED BY <2>3, <2>4 DEF Pursuit!Size
<1>9. QED BY <1>1, <1>2, <1>5, <1>7, <1>8

(* Beside the goal and behind it a command keeps the types. *)
LEMMA GiveType ==
  ASSUME PursuitType, NEW v \in -v_linear_max .. v_linear_max, Pursuit!Give(v)
  PROVE  /\ vel' \in -v_linear_max .. v_linear_max
         /\ prev_cmd_vel_' \in -v_linear_max .. v_linear_max
         /\ has_prev_cmd_vel_' \in BOOLEAN /\ dist' \in Int /\ following' \in BOOLEAN
<1> PICK u \in -v_linear_max .. v_linear_max : u = IF dist < 0 THEN -v ELSE v
  BY PursuitConstants
<1>1. PICK cmd : /\ cmd = Pursuit!Limited(u)
                 /\ prev_cmd_vel_' = cmd /\ has_prev_cmd_vel_' = TRUE /\ Pursuit!Move(cmd)
                 /\ following' = (Pursuit!Size(dist') > XyGoalTolerance)
  BY Zenon DEF Pursuit!Give
<1>2. PICK x \in -v_linear_max .. v_linear_max :
        x = IF ~use_mpc_control_ /\ has_prev_cmd_vel_ THEN Pursuit!Toward(prev_cmd_vel_, u) ELSE u
  BY PursuitConstants DEF PursuitType, Pursuit!Toward, Pursuit!Clamp
<1>3. cmd = Pursuit!Clamp(x, -MaxLinearVel, MaxLinearVel)
  BY <1>1, <1>2 DEF Pursuit!Limited
<1>4. cmd \in -v_linear_max .. v_linear_max
  BY <1>3, PursuitConstants DEF Pursuit!Clamp
<1>5. vel' = Pursuit!Toward(vel, cmd) /\ dist' = dist - vel'
  BY <1>1 DEF Pursuit!Move
<1>6. vel' \in -v_linear_max .. v_linear_max
  BY <1>4, <1>5, PursuitConstants DEF PursuitType, Pursuit!Toward, Pursuit!Clamp
<1>7. dist' \in Int /\ dist \in Int
  BY <1>5, <1>6, PursuitConstants DEF PursuitType
<1>8. following' \in BOOLEAN
  <2>1. (Pursuit!Size(dist') > XyGoalTolerance) \in BOOLEAN
    OBVIOUS
  <2>2. QED BY <1>1, <2>1, Zenon
<1>9. QED BY <1>1, <1>4, <1>6, <1>7, <1>8

LEMMA PidIs ==
  ASSUME PursuitType
  PROVE  Pursuit!Pid \in PidType
<1>1. move_pid_ \in PidType
  BY DEF PursuitType
<1>2. [move_pid_ EXCEPT !.pre_error = 0, !.has = FALSE] \in PidType
  <2>1. [move_pid_ EXCEPT !.pre_error = 0] \in PidType
    BY <1>1 DEF PidType
  <2>2. \A p \in PidType : [p EXCEPT !.has = FALSE] \in PidType
    BY DEF PidType
  <2>3. [move_pid_ EXCEPT !.pre_error = 0, !.has = FALSE]
          = [[move_pid_ EXCEPT !.pre_error = 0] EXCEPT !.has = FALSE]
    BY <1>1 DEF PidType
  <2>4. QED BY <2>1, <2>2, <2>3
<1>3. QED BY <1>1, <1>2, Zenon DEF Pursuit!Pid, Pursuit!Reset

(* While cycles are counted on, a robot on its way is before the goal. *)
LEMMA BeforeGoal ==
  ASSUME PursuitInv, following, room \in {"far", "failed", "direct"}
  PROVE  dist >= 1
<1>1. CASE room \in {"far", "direct"}
  BY <1>1 DEF PursuitInv, PursuitType, CanSlow
<1>2. CASE room = "failed"
  <2>1. PICK n \in Nat : n = Onward
    BY PursuitConstants DEF PursuitInv, PursuitType, Onward, Bigger
  <2>2. n * (n - 1) < 2 * dist /\ dist \in Int
    BY <1>2, <2>1 DEF PursuitInv, PursuitType, CanStop
  <2>3. n * (n - 1) \in Nat
    BY NotNegative
  <2>4. QED BY <2>2, <2>3
<1>3. QED BY <1>1, <1>2

LEMMA GiveKeeps ==
  ASSUME PursuitInv, following, NEW v \in -v_linear_max .. v_linear_max, Pursuit!Give(v),
         dist >= 1 => \E c \in Int : Fitting(dist, c) /\ v <= c,
         room' = room, move_pid_' \in PidType, use_mpc_control_' \in BOOLEAN
  PROVE  PursuitInv'
<1>1. PursuitType'
  BY GiveType, Zenon DEF PursuitInv, PursuitType
<1>2. CASE room \in {"near", "both"}
  BY <1>1, <1>2 DEF PursuitInv, CanStop, CanFail, CanSlow, CanBrake
<1>3. ASSUME room \in {"far", "failed", "direct"}
      PROVE  /\ dist >= 1
             /\ \E c \in Int : Fitting(dist, c) /\ v <= c
  BY <1>3, BeforeGoal
<1>4. ASSUME room \in {"far", "direct"} PROVE CanSlow' /\ CanBrake'
  <2>1. PICK c \in Int : Fitting(dist, c) /\ v <= c
    BY <1>3, <1>4
  <2>2. c \in 1 .. v_linear_max /\ c * (c + 1) <= 2 * (dist + Overrun)
    <3>1. dist \in Nat /\ dist >= 1
      BY <1>3, <1>4 DEF PursuitInv, PursuitType
    <3>2. QED BY <2>1, <3>1, FittingStops DEF Fitting
  <2>3. Fast * (Fast - 1) <= 2 * (dist + Overrun)
    BY <1>4 DEF PursuitInv, CanSlow
  <2>4. /\ Fast' * (Fast' - 1) <= 2 * (dist' + Overrun)
        /\ Onward' * (Onward' - 1) <= 2 * (dist' + Overrun)
        /\ following' => dist' > 0
    BY <1>3, <1>4, <2>1, <2>2, <2>3, GiveCanSlow DEF PursuitInv
  <2>5. QED BY <2>4 DEF CanSlow, CanBrake
<1>5. ASSUME room \in {"far", "failed"} PROVE CanStop' /\ CanFail' /\ CanBrake'
  <2>1. PICK c \in Int : Fitting(dist, c) /\ v <= c
    BY <1>3, <1>5
  <2>2. /\ Onward * (Onward - 1) < 2 * dist
        /\ Onward * (Onward - 1) + 2 * (Fast - 1) * (Fast - 1) <= 2 * dist + Pursuit!Missing
    BY <1>5 DEF PursuitInv, CanStop, CanFail
  <2>3. Onward' * (Onward' - 1) + 2 * (Fast' - 1) * (Fast' - 1) <= 2 * dist' + Pursuit!Missing
    BY <1>3, <1>5, <2>1, <2>2, GiveCanFail DEF PursuitInv
  <2>4. /\ Onward' * (Onward' - 1) <= 2 * (dist' + Overrun)
        /\ following' => Onward' * (Onward' - 1) < 2 * dist'
    BY <1>3, <1>5, <2>1, <2>2, <2>3, GiveCanBrake DEF PursuitInv
  <2>5. QED BY <2>3, <2>4 DEF CanStop, CanFail, CanBrake
<1>6. CASE room = "far"
  BY <1>1, <1>4, <1>5, <1>6 DEF PursuitInv
<1>7. CASE room = "failed"
  <2>1. CanSlow'
    BY <1>7 DEF CanSlow
  <2>2. QED BY <1>1, <1>5, <1>7, <2>1 DEF PursuitInv
<1>8. CASE room = "direct"
  <2>1. CanStop' /\ CanFail'
    BY <1>8 DEF CanStop, CanFail
  <2>2. QED BY <1>1, <1>4, <1>8, <2>1 DEF PursuitInv
<1>9. QED BY <1>2, <1>6, <1>7, <1>8 DEF PursuitInv, PursuitType

-----------------------------------------------------------------------------
(* The steps. *)
LEMMA PursuitCycleKeeps ==
  ASSUME PursuitInv, Pursuit!PursuitCycle
  PROVE  PursuitInv'
<1>1. PursuitType
  BY DEF PursuitInv
<1>2. PICK pid \in {Pursuit!Pid} : \E u \in Pursuit!Pursuit(pid) :
        /\ Pursuit!Give(u) /\ room' = room
        /\ move_pid_' = IF Pursuit!CarrotDist > 0
                       THEN Pursuit!Calculated(pid, Pursuit!CarrotDist) ELSE pid
  BY Zenon DEF Pursuit!PursuitCycle
<1> PICK v \in Pursuit!Pursuit(pid) :
      /\ Pursuit!Give(v) /\ room' = room
      /\ move_pid_' = IF Pursuit!CarrotDist > 0
                     THEN Pursuit!Calculated(pid, Pursuit!CarrotDist) ELSE pid
  BY <1>2
<1> pid \in PidType
  BY <1>1, PidIs
<1>3. PICK e \in Int : e = Pursuit!CarrotDist
  BY <1>1, CarrotIs
<1>4. Pursuit!Calculated(pid, e) \in PidType
  <2>1. [pid EXCEPT !.pre_error = e] \in PidType
    BY DEF PidType
  <2>2. \A p \in PidType : [p EXCEPT !.has = TRUE] \in PidType
    BY DEF PidType
  <2>3. [pid EXCEPT !.pre_error = e, !.has = TRUE] = [[pid EXCEPT !.pre_error = e] EXCEPT !.has = TRUE]
    BY DEF PidType
  <2>4. [pid EXCEPT !.pre_error = e, !.has = TRUE] \in PidType
    BY <2>1, <2>2, <2>3
  <2>5. QED BY <2>4 DEF Pursuit!Calculated
<1>5. move_pid_' \in PidType
  BY <1>2, <1>3, <1>4
<1>6. use_mpc_control_' \in BOOLEAN
  BY <1>1, Zenon DEF PursuitType, Pursuit!PursuitCycle, Pursuit!Done
<1>7. following
  BY DEF Pursuit!PursuitCycle, Pursuit!Working
<1>8. v \in -v_linear_max .. v_linear_max /\ (dist >= 1 => \E c \in Int : Fitting(dist, c) /\ v <= c)
  BY <1>1, PursuitCommand
<1>9. QED BY <1>2, <1>5, <1>6, <1>7, <1>8, GiveKeeps

LEMMA MpcCycleKeeps ==
  ASSUME PursuitInv, Pursuit!MpcCycle
  PROVE  PursuitInv'
<1>1. PursuitType
  BY DEF PursuitInv
<1>2. PICK v \in Pursuit!Solved : Pursuit!Give(v)
  BY DEF Pursuit!MpcCycle
<1>3. ~Pursuit!NearGoal /\ following /\ room' = room /\ move_pid_' = Pursuit!Pid
      /\ use_mpc_control_' = use_mpc_control_
  BY DEF Pursuit!MpcCycle, Pursuit!Working, Pursuit!Done
<1>4. move_pid_' \in PidType /\ use_mpc_control_' \in BOOLEAN
  BY <1>1, <1>3, PidIs DEF PursuitType
<1>5. v \in -v_linear_max .. v_linear_max /\ (dist >= 1 => \E c \in Int : Fitting(dist, c) /\ v <= c)
  BY <1>1, <1>3, MpcCommand
<1>6. QED BY <1>2, <1>3, <1>4, <1>5, GiveKeeps

LEMMA DirectCycleKeeps ==
  ASSUME PursuitInv, Pursuit!DirectCycle
  PROVE  PursuitInv'
<1>1. PursuitType
  BY DEF PursuitInv
<1>2. /\ Pursuit!Give(Pursuit!Direct) /\ following /\ room' = Pursuit!Seen("direct")
      /\ move_pid_' = Pursuit!Pid /\ use_mpc_control_' = use_mpc_control_
  BY DEF Pursuit!DirectCycle, Pursuit!Working, Pursuit!Done
<1>3. PICK v \in -v_linear_max .. v_linear_max : v = Pursuit!Direct /\ v \in 0 .. v_linear_max
  BY <1>1, DirectCommand, PursuitConstants
<1>4. room' = IF room \in {"far", "direct"} THEN "direct"
              ELSE IF room = "near" THEN room ELSE "both"
  BY <1>2 DEF Pursuit!Seen
<1>5. PursuitType'
  <2>1. room' \in {"near", "far", "failed", "direct", "both"}
    BY <1>4
  <2>2. move_pid_' \in PidType /\ use_mpc_control_' \in BOOLEAN
    BY <1>1, <1>2, PidIs DEF PursuitType
  <2>3. QED BY <1>1, <1>2, <1>3, <2>1, <2>2, GiveType, Zenon DEF PursuitType
<1>6. CASE room \in {"far", "direct"}
  <2>1. dist >= 1
    BY <1>2, <1>6, BeforeGoal
  <2>2. PICK c \in 1 .. v_linear_max : v <= c /\ c * (c + 1) <= 2 * (dist + Overrun)
    BY <1>1, <1>3, <2>1, DirectCommand
  <2>3. Fast * (Fast - 1) <= 2 * (dist + Overrun)
    BY <1>2, <1>6 DEF PursuitInv, CanSlow
  <2>4. /\ Fast' * (Fast' - 1) <= 2 * (dist' + Overrun)
        /\ Onward' * (Onward' - 1) <= 2 * (dist' + Overrun)
        /\ following' => dist' > 0
    BY <1>1, <1>2, <1>3, <2>1, <2>2, <2>3, GiveCanSlow
  <2>5. CanStop' /\ CanFail'
    BY <1>4, <1>6 DEF CanStop, CanFail
  <2>6. QED BY <1>5, <2>4, <2>5 DEF PursuitInv, CanSlow, CanBrake
<1>7. CASE ~(room \in {"far", "direct"})
  <2>1. room' \in {"near", "both"}
    BY <1>4, <1>7
  <2>2. QED BY <1>5, <2>1 DEF PursuitInv, CanStop, CanFail, CanSlow, CanBrake
<1>8. QED BY <1>6, <1>7

(* The robot brakes for a cycle. *)
LEMMA Braked ==
  ASSUME PursuitType, Pursuit!Move(0)
  PROVE  /\ vel' \in -v_linear_max .. v_linear_max /\ dist' \in Int
         /\ Onward \in Nat /\ Onward' = IF Onward = 0 THEN 0 ELSE Onward - 1
         /\ dist' >= dist - Onward'
<1>1. PICK x \in Int, d \in Int : x = vel /\ d = dist /\ x \in -v_linear_max .. v_linear_max
  BY PursuitConstants DEF PursuitType
<1>2. PICK y \in Int : y = Pursuit!Toward(x, 0) /\ y \in -v_linear_max .. v_linear_max
                     /\ y = IF x < 0 THEN x + 1 ELSE IF x > 0 THEN x - 1 ELSE 0
  BY <1>1, PursuitConstants DEF Pursuit!Toward, Pursuit!Clamp
<1>3. vel' = y /\ dist' = d - y
  BY <1>1, <1>2 DEF Pursuit!Move
<1>4. PICK n \in Nat : n = Bigger(x, 0) /\ n = Onward
  BY <1>1 DEF Bigger, Onward
<1>5. PICK w \in Nat : w = Bigger(y, 0) /\ w = Onward'
  BY <1>3 DEF Bigger, Onward
<1>6. w = (IF n = 0 THEN 0 ELSE n - 1) /\ d - y >= d - w
  BY <1>2, <1>4, <1>5 DEF Bigger
<1>7. QED BY <1>1, <1>2, <1>3, <1>4, <1>5, <1>6

LEMMA BrakedWay ==
  ASSUME NEW n \in Nat, NEW w \in Nat, w = IF n = 0 THEN 0 ELSE n - 1
  PROVE  w * (w - 1) = n * (n - 1) - 2 * w
<1>1. CASE n = 0
  BY <1>1
<1>2. CASE n >= 1
  BY <1>2
<1>3. QED BY <1>1, <1>2

LEMMA FailedCycleKeeps ==
  ASSUME PursuitInv, Pursuit!FailedCycle
  PROVE  PursuitInv'
<1>1. PursuitType
  BY DEF PursuitInv
<1>2. /\ Pursuit!Move(0) /\ following /\ room' = Pursuit!Seen("failed") /\ following' \in BOOLEAN
      /\ move_pid_' = Pursuit!Pid /\ prev_cmd_vel_' = prev_cmd_vel_
      /\ has_prev_cmd_vel_' = has_prev_cmd_vel_ /\ use_mpc_control_' = use_mpc_control_
  BY DEF Pursuit!FailedCycle, Pursuit!Working, Pursuit!Done, Pursuit!memory
<1>3. room' = IF room \in {"far", "failed"} THEN "failed"
              ELSE IF room = "near" THEN room ELSE "both"
  BY <1>2 DEF Pursuit!Seen
<1>4. PursuitType'
  <2>1. room' \in {"near", "far", "failed", "direct", "both"}
    BY <1>3
  <2>2. move_pid_' \in PidType
    BY <1>1, <1>2, PidIs
  <2>3. vel' \in -v_linear_max .. v_linear_max /\ dist' \in Int
    BY <1>1, <1>2, Braked
  <2>4. QED BY <1>1, <1>2, <2>1, <2>2, <2>3, Zenon DEF PursuitType
<1>5. CanSlow'
  BY <1>3 DEF CanSlow
<1>6. CASE room \in {"far", "failed"}
  <2>1. PICK n \in Nat, w \in Nat : n = Onward /\ w = Onward' /\ w = IF n = 0 THEN 0 ELSE n - 1
    BY <1>1, <1>2, Braked
  <2>2. PICK d \in Int, e \in Int : d = dist /\ e = dist' /\ e >= d - w
    BY <1>1, <1>2, <2>1, Braked DEF PursuitType
  <2>3. w * (w - 1) = n * (n - 1) - 2 * w /\ n * (n - 1) \in Nat
    BY <2>1, BrakedWay, NotNegative
  <2>4. n * (n - 1) < 2 * d
    BY <1>2, <1>6, <2>1, <2>2 DEF PursuitInv, CanStop
  <2>5. w * (w - 1) < 2 * e
    <3>1. PICK a \in Int, b \in Nat : a = w * (w - 1) /\ b = n * (n - 1)
      BY <2>3
    <3>2. a = b - 2 * w /\ b < 2 * d
      BY <2>3, <2>4, <3>1
    <3>3. e >= d - w
      BY <2>2
    <3>4. a < 2 * e
      BY <3>2, <3>3
    <3>5. QED BY <3>1, <3>4
  <2>6. PICK q \in Nat, r \in Nat : q = Fast /\ r = Fast' /\ 1 <= r /\ r <= q
    <3>1. PICK p \in Int, x \in Int, y \in Int :
            p = prev_cmd_vel_ /\ x = vel /\ y = vel'
      BY <1>1, <1>4, PursuitConstants DEF PursuitType
    <3>2. w = Bigger(y, 0) /\ n = Bigger(x, 0)
      BY <2>1, <3>1 DEF Onward
    <3>3. Fast = Bigger(Bigger(x, p), 1) /\ Fast' = Bigger(Bigger(y, p), 1)
      BY <1>2, <3>1 DEF Fast
    <3>4. QED BY <2>1, <3>2, <3>3 DEF Bigger
  <2>7. PICK k \in Nat : k = Pursuit!Missing
    BY MissingIs
  <2>8. n * (n - 1) + 2 * (q - 1) * (q - 1) <= 2 * d + k
    BY <1>2, <1>6, <2>1, <2>2, <2>6, <2>7 DEF PursuitInv, CanFail
  <2>9. (r - 1) * (r - 1) <= (q - 1) * (q - 1)
    BY <2>6, Rises
  <2>10. w * (w - 1) + 2 * (r - 1) * (r - 1) <= 2 * e + k
    <3>1. PICK a \in Int, b \in Int, f \in Int, g \in Int :
            a = w * (w - 1) /\ b = n * (n - 1) /\ f = (r - 1) * (r - 1) /\ g = (q - 1) * (q - 1)
      OBVIOUS
    <3>2. a = b - 2 * w /\ b + 2 * g <= 2 * d + k /\ f <= g
      BY <2>3, <2>8, <2>9, <3>1
    <3>3. e >= d - w
      BY <2>2
    <3>4. a + 2 * f <= 2 * e + k
      BY <3>2, <3>3
    <3>5. QED BY <3>1, <3>4
  <2>11. w * (w - 1) <= 2 * (e + Overrun)
    BY <2>5, PursuitConstants
  <2>12. CanStop' /\ CanFail' /\ CanBrake'
    BY <2>1, <2>2, <2>5, <2>6, <2>7, <2>10, <2>11 DEF CanStop, CanFail, CanBrake
  <2>13. QED BY <1>4, <1>5, <2>12 DEF PursuitInv
<1>7. CASE ~(room \in {"far", "failed"})
  <2>1. room' \in {"near", "both"}
    BY <1>3, <1>7
  <2>2. QED BY <1>4, <1>5, <2>1 DEF PursuitInv, CanStop, CanFail, CanBrake
<1>8. QED BY <1>6, <1>7

LEMMA BrakeKeeps ==
  ASSUME PursuitInv, Pursuit!Brake
  PROVE  PursuitInv'
<1>1. PursuitType
  BY DEF PursuitInv
<1>2. /\ Pursuit!Move(0) /\ ~following /\ following' = following /\ room' = room
      /\ move_pid_' = move_pid_ /\ prev_cmd_vel_' = prev_cmd_vel_
      /\ has_prev_cmd_vel_' = has_prev_cmd_vel_ /\ use_mpc_control_' = use_mpc_control_
  BY DEF Pursuit!Brake, Pursuit!memory, Pursuit!plugin
<1>3. PursuitType'
  <2>1. vel' \in -v_linear_max .. v_linear_max /\ dist' \in Int
    BY <1>1, <1>2, Braked
  <2>2. QED BY <1>1, <1>2, <2>1, Zenon DEF PursuitType
<1>4. CanStop' /\ CanFail' /\ CanSlow'
  BY <1>2 DEF CanStop, CanFail, CanSlow
<1>5. CanBrake'
  <2>1. SUFFICES ASSUME room \in {"far", "failed", "direct"}
                 PROVE  Onward' * (Onward' - 1) <= 2 * (dist' + Overrun)
    BY <1>2 DEF CanBrake
  <2>2. PICK n \in Nat, w \in Nat : n = Onward /\ w = Onward' /\ w = IF n = 0 THEN 0 ELSE n - 1
    BY <1>1, <1>2, Braked
  <2>3. PICK d \in Int, e \in Int : d = dist /\ e = dist' /\ e >= d - w
    BY <1>1, <1>2, <2>2, Braked DEF PursuitType
  <2>4. w * (w - 1) = n * (n - 1) - 2 * w /\ n * (n - 1) \in Nat
    BY <2>2, BrakedWay, NotNegative
  <2>5. n * (n - 1) <= 2 * (d + Overrun)
    BY <2>1, <2>2, <2>3 DEF PursuitInv, CanBrake
  <2>6. w * (w - 1) <= 2 * (e + Overrun)
    <3>1. PICK a \in Int, b \in Nat : a = w * (w - 1) /\ b = n * (n - 1)
      BY <2>4
    <3>2. a = b - 2 * w /\ b <= 2 * (d + Overrun)
      BY <2>4, <2>5, <3>1
    <3>3. e >= d - w
      BY <2>3
    <3>4. a <= 2 * (e + Overrun)
      BY <3>2, <3>3, PursuitConstants
    <3>5. QED BY <3>1, <3>4
  <2>7. QED BY <2>2, <2>3, <2>6
<1>6. QED BY <1>3, <1>4, <1>5 DEF PursuitInv

LEMMA NewGoalKeeps ==
  ASSUME PursuitInv, NEW d \in NewDists, NEW way \in {1, -1}, NEW changed \in BOOLEAN,
         Pursuit!NewGoal(d, way, changed)
  PROVE  PursuitInv'
<1>1. PursuitType
  BY DEF PursuitInv
<1>2. /\ dist' = d /\ vel' = way * vel /\ prev_cmd_vel_' = way * prev_cmd_vel_
      /\ room' = (IF d >= approach_velocity_scaling_dist THEN "far" ELSE "near")
      /\ following' = TRUE /\ move_pid_' = move_pid_
      /\ has_prev_cmd_vel_' = has_prev_cmd_vel_ /\ use_mpc_control_' = use_mpc_control_
  BY DEF Pursuit!NewGoal, Pursuit!plugin
<1>3. PICK V \in Nat, A \in Nat, b \in Nat, k \in Nat :
        V = v_linear_max /\ A = approach_velocity_scaling_dist /\ b = Overrun
        /\ k = Pursuit!Missing /\ V >= 1
  BY PursuitConstants, MissingIs
<1>4. d \in Nat
  BY PursuitConstants
<1>5. PICK x \in -V .. V, y \in -V .. V : x = vel' /\ y = prev_cmd_vel_'
  BY <1>1, <1>2, <1>3 DEF PursuitType
<1>6. PursuitType'
  <2>1. room' \in {"near", "far", "failed", "direct", "both"}
    BY <1>2
  <2>2. dist' \in Int /\ following' \in BOOLEAN
    BY <1>2, <1>4
  <2>3. QED BY <1>1, <1>2, <1>3, <1>5, <2>1, <2>2, Zenon DEF PursuitType
<1>7. CASE d >= A
  <2>1. PICK w \in Nat, r \in Nat : w = Onward' /\ r = Fast' /\ w <= V /\ 1 <= r /\ r <= V
    BY <1>3, <1>5 DEF Onward, Fast, Bigger
  <2>2. 3 * V * (V - 1) + 2 <= 2 * A + k /\ V * (V + 1) <= 2 * A
    BY <1>3, MissingIs
  <2>3. w * (w - 1) <= V * (V - 1) /\ r * (r - 1) <= V * (V - 1) /\ (r - 1) * (r - 1) <= V * (V - 1)
    BY <2>1, <1>3, Rises
  <2>4. V * (V - 1) < V * (V + 1)
    BY <1>3
  <2>5. w * (w - 1) < 2 * d /\ r * (r - 1) <= 2 * (d + b) /\ w * (w - 1) <= 2 * (d + b)
    BY <1>4, <1>7, <2>2, <2>3, <2>4
  <2>6. w * (w - 1) + 2 * (r - 1) * (r - 1) <= 2 * d + k
    BY <1>4, <1>7, <2>2, <2>3
  <2>7. d > 0
    BY <1>3, <1>4, <1>7, PursuitConstants
  <2>8. QED BY <1>2, <1>3, <1>6, <2>1, <2>5, <2>6, <2>7
            DEF PursuitInv, CanStop, CanFail, CanSlow, CanBrake
<1>8. CASE ~(d >= A)
  <2>1. room' = "near"
    BY <1>2, <1>3, <1>8
  <2>2. QED BY <1>6, <2>1 DEF PursuitInv, CanStop, CanFail, CanSlow, CanBrake
<1>9. QED BY <1>7, <1>8

(* Steps that leave the robot where it is. *)
LEMMA StandingKeeps ==
  ASSUME PursuitInv, UNCHANGED <<vel, prev_cmd_vel_, dist, room, has_prev_cmd_vel_>>,
         following' \in BOOLEAN, following' => following, use_mpc_control_' \in BOOLEAN,
         move_pid_' \in PidType
  PROVE  PursuitInv'
<1>1. Onward' = Onward /\ Fast' = Fast
  BY DEF Onward, Fast
<1>2. PursuitType'
  BY Zenon DEF PursuitInv, PursuitType
<1>3. CanStop' /\ CanFail' /\ CanSlow' /\ CanBrake'
  BY <1>1, Zenon DEF PursuitInv, CanStop, CanFail, CanSlow, CanBrake
<1>4. QED BY <1>2, <1>3 DEF PursuitInv

LEMMA ServerKeeps ==
  ASSUME PursuitInv,
         Pursuit!Cancel \/ Pursuit!Crash \/ Pursuit!Activate \/ Pursuit!Configure
         \/ Pursuit!Cleanup \/ Pursuit!SwitchToMpc \/ Pursuit!SwitchToPid \/ UNCHANGED pursuitVars
  PROVE  PursuitInv'
<1>1. UNCHANGED <<vel, prev_cmd_vel_, dist, room, has_prev_cmd_vel_>>
  BY DEF Pursuit!Cancel, Pursuit!Crash, Pursuit!Activate, Pursuit!Configure, Pursuit!Cleanup,
         Pursuit!SwitchToMpc, Pursuit!SwitchToPid, Pursuit!memory, Pursuit!robot, pursuitVars
<1>2. following' \in BOOLEAN /\ (following' => following)
  <2>1. following' = FALSE \/ following' = following
    BY Zenon DEF Pursuit!Cancel, Pursuit!Crash, Pursuit!Activate, Pursuit!Configure, Pursuit!Cleanup,
         Pursuit!SwitchToMpc, Pursuit!SwitchToPid, pursuitVars
  <2>2. following \in BOOLEAN
    BY DEF PursuitInv, PursuitType
  <2>3. CASE following' = FALSE
    BY <2>3
  <2>4. CASE following' = following
    BY <2>2, <2>4, Zenon
  <2>5. QED BY <2>1, <2>3, <2>4
<1>3. use_mpc_control_' \in BOOLEAN
  <2>1. use_mpc_control_' \in BOOLEAN \/ use_mpc_control_' = use_mpc_control_
    BY Zenon DEF Pursuit!Cancel, Pursuit!Crash, Pursuit!Activate, Pursuit!Configure, Pursuit!Cleanup,
         Pursuit!SwitchToMpc, Pursuit!SwitchToPid, Pursuit!plugin, pursuitVars
  <2>2. QED BY <2>1, Zenon DEF PursuitInv, PursuitType
<1>4. Pursuit!NoPid \in PidType /\ Pursuit!NewPids \subseteq PidType
  <2>1. Pursuit!NoPid \in PidType
    BY DEF Pursuit!NoPid, PidType
  <2>2. \A h \in BOOLEAN : [exists |-> TRUE, pre_error |-> 0, has |-> h] \in PidType
    BY DEF PidType
  <2>3. QED BY <2>1, <2>2, Zenon DEF Pursuit!NewPids
<1>5. move_pid_' \in PidType
  <2>1. \/ move_pid_' = move_pid_ \/ move_pid_' = Pursuit!NoPid \/ move_pid_' \in Pursuit!NewPids
    BY Zenon DEF Pursuit!Cancel, Pursuit!Crash, Pursuit!Activate, Pursuit!Configure, Pursuit!Cleanup,
         Pursuit!SwitchToMpc, Pursuit!SwitchToPid, Pursuit!plugin, pursuitVars
  <2>2. QED BY <1>4, <2>1 DEF PursuitInv, PursuitType
<1>6. QED BY <1>1, <1>2, <1>3, <1>5, StandingKeeps

LEMMA DeactivateKeeps ==
  ASSUME PursuitInv, Pursuit!Deactivate
  PROVE  PursuitInv'
<1>1. /\ UNCHANGED <<vel, prev_cmd_vel_, has_prev_cmd_vel_, use_mpc_control_, move_pid_>>
      /\ dist' = 0 /\ room' = "near" /\ following' = FALSE
  BY DEF Pursuit!Deactivate, Pursuit!NoGoal, Pursuit!plugin, Pursuit!memory
<1>2. PursuitType'
  <2>1. dist' = 0 /\ room' = "near" /\ following' = FALSE
    BY <1>1
  <2>2. dist' \in Int /\ room' \in {"near", "far", "failed", "direct", "both"} /\ following' \in BOOLEAN
    <3>1. dist' \in Int
      BY <2>1
    <3>2. room' \in {"near", "far", "failed", "direct", "both"}
      BY <2>1
    <3>3. following' \in BOOLEAN
      BY <2>1, Zenon
    <3>4. QED BY <3>1, <3>2, <3>3
  <2>3. QED BY <1>1, <2>2, Zenon DEF PursuitInv, PursuitType
<1>3. QED BY <1>1, <1>2 DEF PursuitInv, CanStop, CanFail, CanSlow, CanBrake

LEMMA PursuitStarts == Pursuit!Init => PursuitInv
<1>1. SUFFICES ASSUME Pursuit!Init PROVE PursuitInv
  OBVIOUS
<1>2. PursuitType
  <2>1. 0 \in -v_linear_max .. v_linear_max /\ 0 \in Int
    BY PursuitConstants
  <2>2. Pursuit!NoPid \in PidType
    BY DEF Pursuit!NoPid, PidType
  <2>3. QED BY <1>1, <2>1, <2>2 DEF Pursuit!Init, PursuitType
<1>3. room = "near"
  BY <1>1 DEF Pursuit!Init
<1>4. QED BY <1>2, <1>3 DEF PursuitInv, CanStop, CanFail, CanSlow, CanBrake

LEMMA PursuitStep == PursuitInv /\ [Pursuit!Next]_pursuitVars => PursuitInv'
<1>1. SUFFICES ASSUME PursuitInv, [Pursuit!Next]_pursuitVars PROVE PursuitInv'
  OBVIOUS
<1>2. ASSUME NEW d \in NewDists, NEW way \in {1, -1}, NEW changed \in BOOLEAN,
             Pursuit!NewGoal(d, way, changed)
      PROVE  PursuitInv'
  BY <1>1, <1>2, NewGoalKeeps
<1>3. CASE Pursuit!DirectCycle BY <1>1, <1>3, DirectCycleKeeps
<1>4. CASE Pursuit!PursuitCycle BY <1>1, <1>4, PursuitCycleKeeps
<1>5. CASE Pursuit!MpcCycle BY <1>1, <1>5, MpcCycleKeeps
<1>6. CASE Pursuit!FailedCycle BY <1>1, <1>6, FailedCycleKeeps
<1>7. CASE Pursuit!Brake BY <1>1, <1>7, BrakeKeeps
<1>8. CASE Pursuit!Deactivate BY <1>1, <1>8, DeactivateKeeps
<1>9. QED BY <1>1, <1>2, <1>3, <1>4, <1>5, <1>6, <1>7, <1>8, ServerKeeps, Zenon DEF Pursuit!Next

(* A goal that came with the approach distance to go is not overrun by     *)
(* more than its tolerance, with failed cycles or with direct driving: for *)
(* all speeds, gains and distances of StoppingAssumption. *)
THEOREM GoalIsKept == Pursuit!Init /\ [][Pursuit!Next]_pursuitVars => []StaysAtGoal
<1>1. PursuitInv => StaysAtGoal
  <2>1. SUFFICES ASSUME PursuitInv, room \in {"far", "failed", "direct"} PROVE dist >= -Overrun
    BY DEF StaysAtGoal, Pursuit!StaysAtGoal
  <2>2. PICK n \in Nat : n = Onward
    BY <2>1, PursuitConstants DEF PursuitInv, PursuitType, Onward, Bigger
  <2>3. PICK d \in Int, b \in Nat : d = dist /\ b = Overrun
    BY <2>1, PursuitConstants DEF PursuitInv, PursuitType
  <2>4. n * (n - 1) <= 2 * (d + b) /\ n * (n - 1) \in Nat
    BY <2>1, <2>2, <2>3, NotNegative DEF PursuitInv, CanBrake
  <2>5. d >= -b
    BY <2>4
  <2>6. QED BY <2>3, <2>5
<1>2. QED BY PursuitStarts, PursuitStep, <1>1, PTL

-----------------------------------------------------------------------------
(* The speed limit for curves (CurvatureLimit). *)

LEMMA CurveConstants ==
  /\ KappaMin \in Nat /\ KappaMin > 0 /\ KappaMax \in Nat /\ KappaMin < KappaMax
  /\ Hysteresis \in Nat /\ Hysteresis > 0 /\ Np \in Nat /\ Np > 0
  /\ Back \in Nat /\ Fwd \in Nat /\ SlowdownPercent \in Nat /\ RecoverStep \in Nat
  /\ FullSpeed \in Nat
  /\ CurvatureMin \in Nat /\ CurvatureMax \in Nat /\ CurvatureMin < CurvatureMax
  /\ KappaOne \in Nat /\ ReductionPercent \in Nat
  /\ ScaleStep \in Nat /\ LowerSpeed \in Nat /\ LastVel \in Nat /\ LeastScaled \in Nat
  /\ Scale \in Nat /\ PlaceLength \in Nat /\ PlaceLength > 0 /\ Carrots \subseteq Nat
  BY MCAssumption DEF Curve!ProfileAssumption, Curve!CourseAssumption

LEMMA ProfileIs ==
  ASSUME NEW m \in {"pid", "mpc"}
  PROVE  /\ Profile[m].ahead \in Nat /\ Profile[m].ds \in Nat /\ Profile[m].ds > 0
         /\ Profile[m].rise \in Nat /\ Profile[m].rise > 0 /\ Profile[m].fall \in Nat
         /\ Profile[m].min_speed \in Nat
  BY MCAssumption DEF Curve!ProfileAssumption, Curve!Modes

LEMMA CurveLeastOfTwo ==
  ASSUME NEW a \in Int, NEW b \in Int
  PROVE  /\ Curve!Min({a, b}) = IF a < b THEN a ELSE b
         /\ Curve!Max({a, b}) = Bigger(a, b)
<1> DEFINE m == IF a < b THEN a ELSE b
           n == IF a < b THEN b ELSE a
<1>1. m \in {a, b} /\ \A y \in {a, b} : m <= y
  OBVIOUS
<1>2. n \in {a, b} /\ \A y \in {a, b} : n >= y
  OBVIOUS
<1>3. \A x \in {a, b} : (\A y \in {a, b} : x <= y) => x = m
  OBVIOUS
<1>4. \A x \in {a, b} : (\A y \in {a, b} : x >= y) => x = n
  OBVIOUS
<1> HIDE DEF m, n
<1>5. Curve!Min({a, b}) = m
  BY <1>1, <1>3, Zenon DEF Curve!Min
<1>6. Curve!Max({a, b}) = n
  BY <1>2, <1>4, Zenon DEF Curve!Max
<1>7. QED BY <1>5, <1>6 DEF m, n, Bigger

LEMMA GreatestIs ==
  ASSUME NEW B \in Nat, NEW S, S \subseteq 0 .. B, S # {}
  PROVE  Curve!Max(S) \in S /\ \A y \in S : y <= Curve!Max(S)
<1> DEFINE T == {B - y : y \in S}
<1>1. T \subseteq Nat /\ T # {}
  <2>1. ASSUME NEW y \in S PROVE B - y \in Nat
    BY y \in 0 .. B
  <2>2. QED BY <2>1
<1>2. \E t \in T : \A y \in T : ~(y < t)
  <2> HIDE DEF T
  <2> QED BY <1>1, LeastMember
<1>3. PICK t \in T : \A y \in T : ~(y < t)
  BY <1>2
<1>4. PICK x \in S : t = B - x
  OBVIOUS
<1>5. ASSUME NEW y \in S PROVE x >= y
  <2>1. ~(B - y < B - x)
    BY <1>3, <1>4
  <2>2. x \in 0 .. B /\ y \in 0 .. B
    OBVIOUS
  <2>3. QED BY <2>1, <2>2
<1>6. Curve!Max(S) \in S /\ \A y \in S : Curve!Max(S) >= y
  BY <1>5, Zenon DEF Curve!Max
<1>7. ASSUME NEW y \in S PROVE y <= Curve!Max(S)
  BY <1>6
<1>8. QED BY <1>6, <1>7

LEMMA CurveCounts ==
  \A S : Curve!Cardinality(S) = Cardinality(S)
  BY Zenon DEF Curve!Cardinality, Cardinality

(* The filter takes so many cycles to rise from nothing to the sharpest *)
(* curvature. *)
LEMMA SettledIs ==
  /\ Curve!Settled \in Nat /\ Curve!Settled > 0
  /\ \A m \in {"pid", "mpc"} : KappaMax <= Profile[m].rise * Curve!Settled
<1> DEFINE Of(m) == (KappaMax + Profile[m].rise - 1) \div Profile[m].rise
<1>1. ASSUME NEW m \in {"pid", "mpc"}
      PROVE  Of(m) \in Nat /\ Of(m) > 0 /\ KappaMax <= Profile[m].rise * Of(m)
  <2>1. PICK r \in Nat : r = Profile[m].rise /\ r > 0
    BY ProfileIs
  <2>2. PICK a \in Int : a = KappaMax + r - 1
    BY CurveConstants, <2>1
  <2>3. PICK q \in Int : q = Of(m) /\ r * q <= a /\ a < r * q + r
    BY <2>1, <2>2, DivIs, CurveConstants
  <2>4. KappaMax \in Nat /\ KappaMax > 0 /\ a = KappaMax + r - 1
    BY CurveConstants, <2>2
  <2>5. KappaMax <= r * q
    BY <2>1, <2>2, <2>3, <2>4
  <2>6. q > 0
    BY <2>1, <2>3, <2>4, <2>5
  <2>7. QED BY <2>1, <2>3, <2>5, <2>6
<1> HIDE DEF Of
<1>2. {Of(m) : m \in {"pid", "mpc"}} = {Of("pid"), Of("mpc")}
  OBVIOUS
<1>3. Curve!Settled = Curve!Max({Of("pid"), Of("mpc")})
  BY <1>2 DEF Of, Curve!Settled, Curve!Modes
<1>4. Of("pid") \in Nat /\ Of("mpc") \in Nat
  BY <1>1
<1>5. Curve!Settled = Bigger(Of("pid"), Of("mpc"))
  BY <1>3, <1>4, CurveLeastOfTwo
<1>6. Curve!Settled \in Nat /\ Curve!Settled > 0
  BY <1>1, <1>5 DEF Bigger
<1>7. ASSUME NEW m \in {"pid", "mpc"} PROVE KappaMax <= Profile[m].rise * Curve!Settled
  <2>1. Of(m) <= Curve!Settled /\ Of(m) \in Nat
    BY <1>1, <1>5 DEF Bigger
  <2>2. PICK r \in Nat : r = Profile[m].rise
    BY ProfileIs
  <2>3. PICK o \in Nat : o = Of(m)
    BY <2>1
  <2>4. PICK t \in Nat : t = Curve!Settled
    BY <1>6
  <2>5. r * o <= r * t
    BY <2>1, <2>3, <2>4
  <2>6. QED BY <1>1, <2>2, <2>3, <2>4, <2>5, CurveConstants
<1>8. QED BY <1>6, <1>7

(* How far is looked, and at which distances. *)
LEMMA ReachIs ==
  ASSUME NEW m \in {"pid", "mpc"}, NEW l \in Nat, l >= 1
  PROVE  LET far == Bigger(Profile[m].ahead, 2)
         IN  Curve!Reach(Profile[m], l) = IF far < l THEN far ELSE l
<1>1. PICK a \in Nat : a = Profile[m].ahead
  BY ProfileIs
<1>2. Curve!Max({2, l}) = Bigger(2, l)
  BY CurveLeastOfTwo
<1>3. PICK c \in Nat : c = Curve!Clamp(a, 2, Curve!Max({2, l}))
                       /\ c = IF a < 2 THEN 2 ELSE IF a > Bigger(2, l) THEN Bigger(2, l) ELSE a
  BY <1>1, <1>2 DEF Curve!Clamp, Bigger
<1>4. Curve!Reach(Profile[m], l) = IF l < c THEN l ELSE c
  <2>1. Curve!Reach(Profile[m], l) = Curve!Min({l, c})
    BY <1>1, <1>3 DEF Curve!Reach
  <2>2. Curve!Min({l, c}) = IF l < c THEN l ELSE c
    BY CurveLeastOfTwo
  <2>3. QED BY <2>1, <2>2
<1>5. QED BY <1>1, <1>3, <1>4 DEF Bigger

LEMMA SpotsAre ==
  ASSUME NEW m \in {"pid", "mpc"}, NEW l \in Nat, l >= 1
  PROVE  LET spots == Curve!Spots(Profile[m], l)
         IN  /\ spots \subseteq 0 .. l /\ IsFiniteSet(spots)
             /\ \E n \in Nat, ds \in Nat : spots = {k * ds : k \in 0 .. n}
<1>1. PICK r \in Nat : r = Curve!Reach(Profile[m], l) /\ r <= l
  BY ReachIs, ProfileIs DEF Bigger
<1>2. PICK ds \in Nat : ds = Profile[m].ds /\ ds > 0
  BY ProfileIs
<1>3. PICK n \in Nat : n = r \div ds /\ ds * n <= r
  <2>1. r \in Int /\ r \div ds >= 0
    BY <1>2
  <2>2. QED BY <1>2, <2>1, DivIs
<1> DEFINE spots == {k * ds : k \in 0 .. n}
<1>4. Curve!Spots(Profile[m], l) = spots
  BY <1>1, <1>2, <1>3 DEF Curve!Spots
<1>5. spots \subseteq 0 .. l
  <2>1. ASSUME NEW k \in 0 .. n PROVE k * ds \in 0 .. l
    <3>1. PICK e \in Nat : n = k + e
      BY n - k \in Nat
    <3>2. ds * n = k * ds + ds * e /\ ds * e \in Nat /\ k * ds \in Nat
      BY <3>1
    <3>3. QED BY <1>1, <1>3, <3>2
  <2>2. QED BY <2>1
<1>6. IsFiniteSet(spots)
  <2> DEFINE f == [k \in 0 .. n |-> k * ds]
  <2>1. f \in Surjection(0 .. n, spots)
    BY DEF Surjection
  <2>2. IsFiniteSet(0 .. n)
    BY FS_Interval
  <2> HIDE DEF f, spots
  <2>3. QED BY <2>1, <2>2, FS_Surjection
<1>7. QED BY <1>4, <1>5, <1>6

(* Finitely many numbers have a bound. *)
LEMMA BoundIs ==
  ASSUME NEW n \in Nat, NEW f \in [0 .. n -> Nat]
  PROVE  \E B \in Nat : \A k \in 0 .. n : f[k] <= B
<1> DEFINE S == {m \in Nat : \A g \in [0 .. m -> Nat] : \E B \in Nat : \A k \in 0 .. m : g[k] <= B}
<1>1. 0 \in S
  <2>1. ASSUME NEW g \in [0 .. 0 -> Nat] PROVE \E B \in Nat : \A k \in 0 .. 0 : g[k] <= B
    <3>1. g[0] \in Nat /\ \A k \in 0 .. 0 : g[k] <= g[0]
      OBVIOUS
    <3>2. QED BY <3>1
  <2>2. QED BY <2>1
<1>2. ASSUME NEW m \in Nat, m \in S PROVE m + 1 \in S
  <2>1. ASSUME NEW g \in [0 .. m + 1 -> Nat]
        PROVE  \E B \in Nat : \A k \in 0 .. m + 1 : g[k] <= B
    <3> DEFINE h == [k \in 0 .. m |-> g[k]]
    <3>1. h \in [0 .. m -> Nat]
      OBVIOUS
    <3>2. PICK B \in Nat : \A k \in 0 .. m : h[k] <= B
      BY <1>2, <3>1
    <3>3. PICK last_of \in Nat : last_of = g[m + 1]
      OBVIOUS
    <3>4. ASSUME NEW k \in 0 .. m + 1 PROVE g[k] <= B + last_of
      <4>1. CASE k = m + 1
        BY <3>3, <4>1
      <4>2. CASE k # m + 1
        <5>1. k \in 0 .. m
          BY <4>2
        <5>2. h[k] <= B /\ h[k] = g[k] /\ g[k] \in Nat
          BY <3>2, <5>1
        <5>3. QED BY <5>2
      <4>3. QED BY <4>1, <4>2
    <3>5. B + last_of \in Nat
      OBVIOUS
    <3>6. QED BY <3>4, <3>5
  <2>2. m + 1 \in Nat
    OBVIOUS
  <2>3. QED BY <2>1, <2>2, Zenon
<1> HIDE DEF S
<1>3. n \in S
  BY <1>1, <1>2, SetInduction
<1>4. QED BY <1>3 DEF S

LEMMA CourseIs ==
  ASSUME NEW w \in DOMAIN Courses
  PROVE  /\ Courses[w].end \in Nat
         /\ \A i \in 0 .. Courses[w].end : Courses[w].at[i] \in Int \X Int
         /\ \A c \in Curve!Corners(w) : c \in Nat /\ c >= 1 /\ c < Courses[w].end
<1>1. Courses[w].end \in Nat /\ Courses[w].at \in [0 .. Courses[w].end -> Int \X Int]
  BY MCAssumption DEF Curve!CourseAssumption
<1>2. ASSUME NEW c \in Curve!Corners(w) PROVE c \in 1 .. Courses[w].end - 1
  BY Zenon DEF Curve!Corners
<1>3. QED BY <1>1, <1>2

(* The distance of two different places of a course. *)
LEMMA LengthIs ==
  ASSUME NEW w \in DOMAIN Courses, NEW i \in 0 .. Courses[w].end, NEW j \in 0 .. Courses[w].end,
         Courses[w].at[i] # Courses[w].at[j]
  PROVE  Length[Curve!Offset(Courses[w].at[i], Courses[w].at[j])] \in Nat \ {0}
  BY MCAssumption, Zenon DEF Curve!CourseAssumption

LEMMA CurvatureIs ==
  ASSUME NEW w \in DOMAIN Courses, NEW i \in 0 .. Courses[w].end, NEW j \in 0 .. Courses[w].end,
         NEW k \in 0 .. Courses[w].end
  PROVE  Curve!Curvature(Courses[w].at[i], Courses[w].at[j], Courses[w].at[k]) \in Nat
<1> DEFINE a == Courses[w].at[i]
           b == Courses[w].at[j]
           c == Courses[w].at[k]
           ab == Curve!Offset(a, b)
           ac == Curve!Offset(a, c)
           cross == ab[1] * ac[2] - ab[2] * ac[1]
<1>1. a \in Int \X Int /\ b \in Int \X Int /\ c \in Int \X Int
  BY CourseIs
<1>2. ab \in Int \X Int /\ ac \in Int \X Int
  <2> HIDE DEF a, b, c
  <2>1. QED BY <1>1 DEF Curve!Offset
<1>3. PICK x \in Int : x = cross
  <2> HIDE DEF ab, ac
  <2>1. PICK p \in Int, q \in Int, r \in Int, t \in Int : p = ab[1] /\ q = ac[2] /\ r = ab[2] /\ t = ac[1]
    BY <1>2
  <2>2. p * q - r * t \in Int
    OBVIOUS
  <2>3. QED BY <2>1, <2>2
<1>4. PICK y \in Nat : y = Curve!Abs(x)
  BY DEF Curve!Abs
<1>5. CASE ~Curve!Apart(a, b, c)
  <2>1. Curve!Curvature(a, b, c) = 0
    BY <1>5, Zenon DEF Curve!Curvature
  <2>2. QED BY <2>1
<1>6. CASE Curve!Apart(a, b, c)
  <2>1. a # b /\ b # c /\ a # c
    BY <1>6 DEF Curve!Apart
  <2>2. /\ Length[Curve!Offset(a, b)] \in Nat \ {0} /\ Length[Curve!Offset(b, c)] \in Nat \ {0}
        /\ Length[Curve!Offset(a, c)] \in Nat \ {0}
    BY <2>1, LengthIs
  <2>3. PICK l \in Nat, m \in Nat, n \in Nat :
          /\ l > 0 /\ m > 0 /\ n > 0
          /\ l = Length[ab] /\ m = Length[Curve!Offset(b, c)] /\ n = Length[ac]
    <3> HIDE DEF a, b, c
    <3>1. QED BY <2>2
  <2>4. Curve!Curvature(a, b, c) = (Scale * y) \div (l * m * n)
    <3>1. Curve!Curvature(a, b, c)
            = (Scale * Curve!Abs(cross)) \div (Length[ab] * Length[Curve!Offset(b, c)] * Length[ac])
      BY <1>6, Zenon DEF Curve!Curvature
    <3> HIDE DEF a, b, c, ab, ac, cross
    <3>2. QED BY <1>3, <1>4, <2>3, <3>1
  <2>5. PICK d \in Nat : d = l * m * n /\ d > 0
    <3>1. PICK e \in Nat : e = l * m /\ e > 0
      BY <2>3
    <3>2. e * n \in Nat /\ e * n > 0
      BY <2>3, <3>1
    <3>3. QED BY <3>1, <3>2
  <2>6. PICK u \in Nat : u = Scale * y
    BY CurveConstants
  <2>7. u \div d \in Nat
    BY <2>5
  <2>8. QED BY <2>4, <2>5, <2>6, <2>7
<1>7. QED BY <1>5, <1>6

LEMMA KappaAtIs ==
  ASSUME NEW w \in DOMAIN Courses, NEW b \in Nat, NEW s \in Nat, b <= s, s <= Courses[w].end
  PROVE  Curve!KappaAt(w, b, s) \in Nat
<1>1. PICK e \in Nat : e = Courses[w].end
  BY CourseIs
<1>2. PICK i \in 0 .. e : i = Curve!Max({b, s - Back})
  <2>1. PICK lo \in Int : lo = s - Back /\ lo <= s
    BY CurveConstants
  <2>2. Curve!Max({b, lo}) = Bigger(b, lo)
    BY CurveLeastOfTwo
  <2>3. QED BY <1>1, <2>1, <2>2 DEF Bigger
<1>3. PICK k \in 0 .. e : k = Curve!Min({e, s + Fwd})
  <2>1. PICK hi \in Nat : hi = s + Fwd
    BY CurveConstants
  <2>2. Curve!Min({e, hi}) = IF e < hi THEN e ELSE hi
    BY CurveLeastOfTwo
  <2>3. QED BY <2>1, <2>2
<1>4. s \in 0 .. e
  BY <1>1
<1>5. Curve!KappaAt(w, b, s) = Curve!Curvature(Courses[w].at[i], Courses[w].at[s], Courses[w].at[k])
  BY <1>1, <1>2, <1>3, Zenon DEF Curve!KappaAt, Curve!Behind, Curve!Ahead
<1>6. QED BY <1>1, <1>2, <1>3, <1>4, <1>5, CurvatureIs

(* What sampling takes of a corner, and how long the filter needs for it. *)
LEMMA NotedIs ==
  ASSUME NEW w \in DOMAIN Courses, NEW m \in {"pid", "mpc"}, NEW c \in Curve!Corners(w)
  PROVE  /\ Curve!Noted(w, m, c) \in 0 .. KappaMax
         /\ Curve!Needed(w, m, c) \in Nat
         /\ Curve!Noted(w, m, c) <= Profile[m].rise * Curve!Needed(w, m, c)
<1>1. PICK share \in 0 .. 100 : share = Share[w][m]
  BY MCAssumption DEF Curve!SightAssumption, Curve!Modes
<1>2. PICK k \in Nat : k = Curve!KappaAt(w, 0, c)
  <2>1. c \in Nat /\ 0 <= c /\ c <= Courses[w].end
    BY CourseIs
  <2>2. QED BY <2>1, KappaAtIs
<1>3. PICK least \in 0 .. KappaMax : least = Curve!Min({KappaMax, k})
  <2>1. KappaMax \in Nat /\ k \in Int /\ KappaMax \in Int
    BY CurveConstants
  <2>2. Curve!Min({KappaMax, k}) = IF KappaMax < k THEN KappaMax ELSE k
    BY <2>1, CurveLeastOfTwo
  <2>3. QED BY <2>1, <2>2
<1>4. PICK noted \in 0 .. KappaMax : noted = (share * least) \div 100
  <2>1. PICK p \in Nat : p = share * least /\ p <= 100 * least
    <3>1. PICK rest \in Nat : 100 = share + rest
      BY 100 - share \in Nat
    <3>2. 100 * least = share * least + rest * least /\ rest * least \in Nat /\ share * least \in Nat
      BY <3>1
    <3>3. QED BY <3>2
  <2>2. p \div 100 \in 0 .. KappaMax
    BY <2>1, CurveConstants
  <2>3. QED BY <2>1, <2>2
<1>5. Curve!Noted(w, m, c) = noted
  BY <1>1, <1>2, <1>3, <1>4 DEF Curve!Noted
<1>6. PICK r \in Nat : r = Profile[m].rise /\ r > 0
  BY ProfileIs
<1>7. PICK a \in Nat : a = noted + r - 1
  BY <1>6
<1>8. PICK q \in Int : q = a \div r /\ r * q <= a /\ a < r * q + r
  BY <1>6, DivIs
<1>9. q \in Nat /\ noted <= r * q
  BY <1>6, <1>7, <1>8
<1>10. Curve!Needed(w, m, c) = q
  BY <1>5, <1>6, <1>7, <1>8 DEF Curve!Needed
<1>11. QED BY <1>5, <1>6, <1>9, <1>10

(* What i samples reach, the i-th largest of them reaches. *)
Reaching(D, f, v) == {x \in D : f[x] >= v}
Ranked(D, f, i) == Curve!Max({v \in Curve!Range(f) : Cardinality(Reaching(D, f, v)) >= i})

LEMMA RankedIs ==
  ASSUME NEW D, IsFiniteSet(D), NEW B \in Nat, NEW f \in [D -> 0 .. B], NEW kappa \in Nat,
         NEW i \in Nat, i >= 1, i <= Cardinality(Reaching(D, f, kappa))
  PROVE  Ranked(D, f, i) \in 0 .. B /\ kappa <= Ranked(D, f, i)
<1> DEFINE R == Reaching(D, f, kappa)
           V == {v \in Curve!Range(f) : Cardinality(Reaching(D, f, v)) >= i}
           T == {f[x] : x \in R}
<1>1. R # {}
  BY FS_EmptySet
<1>2. T \subseteq Nat /\ T # {}
  BY <1>1 DEF Reaching
<1>3. PICK v \in T : \A y \in T : ~(y < v)
  <2> HIDE DEF T
  <2> QED BY <1>2, LeastMember
<1>4. v \in Nat /\ v >= kappa /\ v \in Curve!Range(f)
  BY <1>2, <1>3 DEF Curve!Range, Reaching
<1>5. Reaching(D, f, v) = R
  <2>1. ASSUME NEW x \in D PROVE f[x] >= v <=> f[x] >= kappa
    <3>1. f[x] \in Nat
      OBVIOUS
    <3>2. f[x] >= kappa => ~(f[x] < v)
      BY <1>3 DEF Reaching
    <3>3. QED BY <1>4, <3>1, <3>2
  <2>2. QED BY <2>1 DEF Reaching
<1>6. v \in V
  BY <1>4, <1>5
<1>7. V \subseteq 0 .. B
  BY DEF Curve!Range
<1> HIDE DEF V
<1>8. Curve!Max(V) \in V /\ v <= Curve!Max(V)
  BY <1>6, <1>7, GreatestIs
<1>9. Curve!Max(V) \in 0 .. B /\ kappa <= Curve!Max(V)
  <2>1. PICK k \in 0 .. B : k = Curve!Max(V)
    BY <1>7, <1>8
  <2>2. QED BY <1>4, <1>8, <2>1
<1>10. QED BY <1>9 DEF V, Ranked

LEMMA TopIs ==
  ASSUME NEW n \in Nat, n >= 1
  PROVE  LET t == Curve!Top(n) IN t \in 1 .. 5 /\ t <= n /\ (n >= 2 => t >= 2)
<1> n \in Int /\ 2 \in Int /\ 5 \in Int
  OBVIOUS
<1>1. Curve!Min({2, n}) = IF 2 < n THEN 2 ELSE n
  BY CurveLeastOfTwo, Zenon
<1>2. Curve!Min({5, n}) = IF 5 < n THEN 5 ELSE n
  BY CurveLeastOfTwo, Zenon
<1>3. PICK q \in Int : q = (n + 3) \div 4 /\ 4 * q <= n + 3 /\ q >= 1
  OBVIOUS
<1>4. PICK t \in Int : t = Curve!Top(n) /\ t = Curve!Clamp(q, IF 2 < n THEN 2 ELSE n, IF 5 < n THEN 5 ELSE n)
  BY <1>1, <1>2, <1>3 DEF Curve!Top, Curve!Clamp
<1>5. QED BY <1>3, <1>4 DEF Curve!Clamp

LEMMA SamplesAre ==
  ASSUME NEW w \in DOMAIN Courses, NEW m \in {"pid", "mpc"}, NEW b \in Nat, NEW s \in Nat, b <= s,
         s < Courses[w].end
  PROVE  \E n \in Nat, B \in Nat : Curve!Samples(w, m, b, s) \in [1 .. n -> 0 .. B]
<1>1. PICK l \in Nat : l = Courses[w].end - s /\ l >= 1 /\ s + l = Courses[w].end
  BY CourseIs
<1> DEFINE spots == Curve!Spots(Profile[m], l)
           D == Curve!Sampled(w, m, b, s)
           f == [x \in D |-> Curve!KappaAt(w, b, s + x)]
           n == Cardinality(D)
<1>2. /\ spots \subseteq 0 .. l /\ IsFiniteSet(spots)
      /\ \E k \in Nat, ds \in Nat : spots = {j * ds : j \in 0 .. k}
  BY <1>1, SpotsAre
<1>3. D \subseteq spots
  BY <1>1 DEF Curve!Sampled
<1>4. IsFiniteSet(D)
  <2> HIDE DEF spots, D
  <2>1. QED BY <1>2, <1>3, FS_Subset
<1>5. Curve!Samples(w, m, b, s) = [i \in 1 .. n |-> Ranked(D, f, i)]
  BY CurveCounts DEF Curve!Samples, Ranked, Reaching
<1> HIDE DEF D, spots
<1>6. ASSUME NEW x \in D PROVE Curve!KappaAt(w, b, s + x) \in Nat
  <2>1. PICK y \in 0 .. l : y = x
    BY <1>2, <1>3
  <2>2. s + y \in Nat /\ b <= s + y /\ s + y <= Courses[w].end
    BY <1>1, CourseIs
  <2>3. QED BY <2>1, <2>2, KappaAtIs
<1>7. PICK B \in Nat : \A x \in D : f[x] <= B
  <2>1. PICK k \in Nat, ds \in Nat : spots = {j * ds : j \in 0 .. k}
    BY <1>2
  <2> DEFINE g == [j \in 0 .. k |-> IF j * ds \in D THEN f[j * ds] ELSE 0]
  <2>2. g \in [0 .. k -> Nat]
    BY <1>6
  <2>3. PICK B \in Nat : \A j \in 0 .. k : g[j] <= B
    <3> HIDE DEF g
    <3>1. QED BY <2>2, BoundIs
  <2>4. ASSUME NEW x \in D PROVE f[x] <= B
    <3>1. PICK j \in 0 .. k : x = j * ds
      BY <1>3, <2>1
    <3>2. g[j] = f[x]
      BY <3>1
    <3> HIDE DEF g
    <3>3. QED BY <2>3, <3>2
  <2>5. QED BY <2>4
<1>8. f \in [D -> 0 .. B]
  BY <1>6, <1>7
<1> HIDE DEF f
<1>9. n \in Nat
  BY <1>4, FS_CardinalityType
<1>10. ASSUME NEW i \in 1 .. n PROVE Ranked(D, f, i) \in 0 .. B
  <2>1. Reaching(D, f, 0) = D
    BY <1>8 DEF Reaching
  <2>2. 0 \in Nat /\ i \in Nat /\ i >= 1 /\ i <= Cardinality(Reaching(D, f, 0))
    <3>1. i \in Nat /\ i >= 1 /\ i <= n
      <4> HIDE DEF n
      <4>1. QED BY <1>9
    <3>2. QED BY <2>1, <3>1
  <2>3. QED BY <1>4, <1>8, <2>2, RankedIs
<1> HIDE DEF n
<1>11. Curve!Samples(w, m, b, s) \in [1 .. n -> 0 .. B]
  BY <1>5, <1>10
<1>12. QED BY <1>9, <1>11

(* The weighted sum, step by step. *)
LEMMA RestIs ==
  ASSUME NEW n \in Nat, NEW t \in 2 .. 5, t <= n, NEW S \in [1 .. n -> Nat]
  PROVE  LET rest[i \in 0 .. t - 1] == IF i = 0 THEN 0 ELSE rest[i - 1] + (t - i) * S[i + 1]
         IN  rest[0] = 0 /\ \A i \in 1 .. t - 1 : rest[i] = rest[i - 1] + (t - i) * S[i + 1]
<1> DEFINE rest[i \in 0 .. t - 1] == IF i = 0 THEN 0 ELSE rest[i - 1] + (t - i) * S[i + 1]
           w == [i \in Nat |-> IF i \in 1 .. t - 1 THEN (t - i) * S[i + 1] ELSE 0]
           F == [i \in Nat |-> [v \in Int |-> v + w[i]]]
<1>1. ASSUME NEW i \in Nat PROVE w[i] \in Int
  <2>1. ASSUME i \in 1 .. t - 1 PROVE (t - i) * S[i + 1] \in Int
    <3>1. i + 1 \in 1 .. n
      BY <2>1
    <3>2. S[i + 1] \in Int
      BY <3>1
    <3>3. QED BY <3>2
  <2>2. QED BY <2>1
<1> HIDE DEF w
<1>2. ASSUME NEW i \in Nat, NEW v \in Int PROVE F[i][v] = v + w[i] /\ F[i][v] \in Int
  BY <1>1
<1> HIDE DEF F
<1>3. StaysIn(F, Int)
  BY <1>2 DEF StaysIn
<1>4. t - 1 \in Nat /\ 0 \in Int
  OBVIOUS
<1>5. PICK f : Steps(f, t - 1, Int, 0, F)
  BY <1>3, <1>4, Recursion
<1>6. f = [i \in 0 .. t - 1 |-> IF i = 0 THEN 0 ELSE f[i - 1] + (t - i) * S[i + 1]]
  <2>1. ASSUME NEW i \in 1 .. t - 1 PROVE f[i] = f[i - 1] + (t - i) * S[i + 1]
    <3>1. i \in Nat /\ i - 1 \in 0 .. t - 1
      OBVIOUS
    <3>2. f[i - 1] \in Int /\ f[i] = F[i][f[i - 1]]
      BY <3>1, <1>5 DEF Steps
    <3>3. f[i] = f[i - 1] + w[i]
      BY <3>1, <3>2, <1>2
    <3>4. w[i] = (t - i) * S[i + 1]
      BY <3>1 DEF w
    <3>5. QED BY <3>3, <3>4
  <2>2. QED BY <1>5, <2>1 DEF Steps
<1>7. rest = [i \in 0 .. t - 1 |-> IF i = 0 THEN 0 ELSE rest[i - 1] + (t - i) * S[i + 1]]
  BY <1>6, Zenon
<1> HIDE DEF rest
<1>8. rest[0] = 0
  BY <1>7
<1>9. ASSUME NEW i \in 1 .. t - 1 PROVE rest[i] = rest[i - 1] + (t - i) * S[i + 1]
  <2>1. i \in 0 .. t - 1 /\ i # 0
    OBVIOUS
  <2>2. rest[i] = IF i = 0 THEN 0 ELSE rest[i - 1] + (t - i) * S[i + 1]
    BY <1>7, <2>1, Zenon
  <2>3. QED BY <2>1, <2>2
<1>10. QED BY <1>8, <1>9 DEF rest

LEMMA RobustIs ==
  ASSUME NEW n \in Nat, NEW S \in [1 .. n -> Nat]
  PROVE  Curve!Robust(S) \in Nat
<1>1. Len(S) = n
  OBVIOUS
<1>2. CASE n = 0
  <2>1. Curve!Robust(S) = 0
    BY <1>1, <1>2 DEF Curve!Robust
  <2>2. QED BY <2>1
<1>3. CASE n >= 1
  <2>1. PICK t \in 1 .. 5 : t = Curve!Top(n) /\ t <= n
    BY <1>3, TopIs
  <2>2. ASSUME NEW i \in 1 .. t PROVE S[i] \in Nat
    BY <2>1
  <2>3. CASE t = 1
    <3>1. Curve!Robust(S) = S[1]
      BY <1>1, <1>3, <2>1, <2>3 DEF Curve!Robust
    <3>2. QED BY <3>1, <2>2, <2>3
  <2>4. CASE t # 1
    <3> DEFINE rest[i \in 0 .. t - 1] == IF i = 0 THEN 0 ELSE rest[i - 1] + (t - i) * S[i + 1]
               whole == (t * (t - 1)) \div 2
    <3>1. t \in 2 .. 5
      BY <2>1, <2>4
    <3>2. Curve!Robust(S) = (S[1] + rest[t - 1] \div whole) \div 2
      BY <1>1, <1>3, <2>1, <2>4 DEF Curve!Robust
    <3>3. rest[0] = 0 /\ \A i \in 1 .. t - 1 : rest[i] = rest[i - 1] + (t - i) * S[i + 1]
      BY <3>1, <2>1, RestIs
    <3> HIDE DEF rest
    <3>4. ASSUME NEW i \in 1 .. t - 1, rest[i - 1] \in Nat PROVE rest[i] \in Nat
      <4>1. i + 1 \in 1 .. t
        OBVIOUS
      <4>2. PICK v \in Nat : v = S[i + 1]
        BY <2>2, <4>1
      <4>3. (t - i) * v \in Nat
        BY t - i \in Nat
      <4>4. rest[i] = rest[i - 1] + (t - i) * v
        BY <3>3, <4>2
      <4>5. QED BY <3>4, <4>3, <4>4
    <3>5. rest[1] \in Nat
      <4>1. 1 \in 1 .. t - 1 /\ rest[1 - 1] \in Nat
        BY <3>1, <3>3
      <4>2. QED BY <3>4, <4>1
    <3>6. t >= 3 => rest[2] \in Nat
      BY <3>1, <3>4, <3>5
    <3>7. t >= 4 => rest[3] \in Nat
      BY <3>1, <3>4, <3>6
    <3>8. t >= 5 => rest[4] \in Nat
      BY <3>1, <3>4, <3>7
    <3>9. rest[t - 1] \in Nat
      BY <3>1, <3>5, <3>6, <3>7, <3>8
    <3>10. PICK r \in Nat : r = rest[t - 1]
      BY <3>9
    <3>11. PICK w \in Nat : w = whole /\ w > 0
      BY <3>1
    <3>12. PICK q \in Nat : q = r \div w
      BY <3>11
    <3>13. PICK v \in Nat : v = S[1]
      BY <2>2
    <3>14. Curve!Robust(S) = (v + q) \div 2
      BY <3>2, <3>10, <3>11, <3>12, <3>13
    <3>15. QED BY <3>14
  <2>5. QED BY <2>3, <2>4
<1>4. QED BY <1>2, <1>3

(* A cycle lets the filter rise towards what is seen. *)
LEMMA FilterIs ==
  ASSUME mode \in BOOLEAN, filtered \in Int, filtered >= -1,
         NEW raw \in Nat, NEW max \in Nat, NEW kappa \in Nat, kappa <= raw, kappa <= max
  PROVE  /\ Curve!Filter(raw, max) \in Nat
         /\ \/ kappa <= Curve!Filter(raw, max)
            \/ filtered >= 0 /\ filtered + Curve!Mode.rise <= Curve!Filter(raw, max)
<1>1. PICK m \in {"pid", "mpc"} : Curve!Mode = Profile[m]
  BY DEF Curve!Mode, Curve!InUse
<1>2. PICK r \in Nat : r = Curve!Mode.rise
  BY <1>1, ProfileIs
<1>3. PICK a \in Nat : a = Curve!Mode.fall
  BY <1>1, ProfileIs
<1>4. CASE filtered = -1
  BY <1>4 DEF Curve!Filter
<1>5. CASE filtered # -1
  <2>1. PICK by \in Int : by = Curve!Clamp(raw - filtered, -a, r)
    <3>1. raw - filtered \in Int /\ -a \in Int /\ r \in Int
      OBVIOUS
    <3>2. Curve!Clamp(raw - filtered, -a, r) \in Int
      BY <3>1, Zenon DEF Curve!Clamp
    <3>3. QED BY <3>2, Zenon
  <2>2. /\ raw - filtered <= r => raw <= filtered + by
        /\ raw - filtered > r => by = r
    BY <2>1 DEF Curve!Clamp
  <2>3. PICK f \in Int : f = Curve!Filter(raw, max) /\ f = Curve!Clamp(filtered + by, 0, max)
    BY <1>2, <1>3, <1>5, <2>1 DEF Curve!Filter, Curve!Clamp
  <2>4. f \in Nat /\ (kappa <= f \/ filtered + r <= f)
    BY <2>2, <2>3 DEF Curve!Clamp
  <2>5. QED BY <1>2, <1>5, <2>3, <2>4
<1>6. QED BY <1>4, <1>5

(* In a cycle at a place from which a corner is seen in time. *)
LEMMA FilteredIs ==
  ASSUME course \in DOMAIN Courses, mode \in BOOLEAN, filtered \in Int, filtered >= -1, place \in Nat,
         NEW b \in Curve!Begins(place), NEW s \in {b, place}, b \in Nat, b <= s, s < Courses[course].end,
         NEW max,
         LET S == Curve!Samples(course, Curve!InUse, b, s)
         IN  \/ max = Curve!Max({KappaMax, Curve!Robust(S)})
             \/ max = Curve!Max({Curve!Robust(S)} \cup Curve!Range(S))
  PROVE  LET f == Curve!Filter(Curve!Robust(Curve!Samples(course, Curve!InUse, b, s)), max)
         IN  /\ f \in Nat
             /\ \A c \in Curve!Corners(course) :
                  place < c /\ c - place <= Curve!Needed(course, Curve!InUse, c) =>
                    \/ Curve!Noted(course, Curve!InUse, c) <= f
                    \/ filtered >= 0 /\ filtered + Curve!Mode.rise <= f
<1>1. PICK m \in {"pid", "mpc"} : m = Curve!InUse
  BY DEF Curve!InUse
<1> DEFINE S == Curve!Samples(course, m, b, s)
<1>2. PICK n \in Nat, B \in Nat : S \in [1 .. n -> 0 .. B]
  <2>1. b \in Nat /\ s \in Nat
    OBVIOUS
  <2>2. QED BY <2>1, SamplesAre
<1>3. \/ max = Curve!Max({KappaMax, Curve!Robust(S)})
      \/ max = Curve!Max({Curve!Robust(S)} \cup Curve!Range(S))
  BY <1>1
<1>4. PICK raw \in Nat : raw = Curve!Robust(S)
  <2> HIDE DEF S
  <2>1. S \in [1 .. n -> Nat]
    BY <1>2
  <2>2. QED BY <2>1, RobustIs
<1> HIDE DEF S
<1>5. max \in Nat /\ raw <= max
  <2>1. CASE max = Curve!Max({KappaMax, Curve!Robust(S)})
    <3>1. max = Bigger(KappaMax, raw)
      BY <2>1, <1>4, CurveLeastOfTwo, CurveConstants
    <3>2. QED BY <3>1, CurveConstants DEF Bigger
  <2>2. CASE max = Curve!Max({Curve!Robust(S)} \cup Curve!Range(S))
    <3> DEFINE K == {raw} \cup Curve!Range(S)
    <3>1. K \subseteq 0 .. B + raw /\ raw \in K
      BY <1>2 DEF Curve!Range
    <3>2. max = Curve!Max(K)
      BY <2>2, <1>4
    <3> HIDE DEF K
    <3>3. K # {} /\ B + raw \in Nat
      BY <3>1
    <3>4. max \in K /\ \A y \in K : y <= max
      BY <3>1, <3>2, <3>3, GreatestIs
    <3>5. QED BY <3>1, <3>4
  <2>3. QED BY <1>3, <2>1, <2>2
<1> DEFINE f == Curve!Filter(raw, max)
<1>6. f \in Nat
  <2>1. 0 \in Nat /\ 0 <= raw /\ 0 <= max
    BY <1>5
  <2>2. QED BY <1>5, <2>1, FilterIs
<1>7. ASSUME NEW c \in Curve!Corners(course), place < c, c - place <= Curve!Needed(course, m, c)
      PROVE  Curve!Noted(course, m, c) <= f \/ (filtered >= 0 /\ filtered + Curve!Mode.rise <= f)
  <2>1. PICK kappa \in Nat : kappa = Curve!Noted(course, m, c)
    BY NotedIs
  <2>2. place \in Curve!Max({0, c - Curve!Needed(course, m, c)}) .. c - 1
    <3>1. PICK n1 \in Nat : n1 = Curve!Needed(course, m, c)
      BY NotedIs
    <3>2. c \in Nat
      BY CourseIs
    <3>3. PICK low \in Int : low = c - n1
      BY <3>2
    <3>4. Curve!Max({0, low}) = Bigger(0, low)
      BY CurveLeastOfTwo
    <3>5. QED BY <1>7, <3>1, <3>2, <3>3, <3>4 DEF Bigger
  <2>3. kappa <= raw
    <3>1. Curve!SightAssumption
      BY MCAssumption
    <3>2. Curve!Noted(course, m, c) <= Curve!Robust(Curve!Samples(course, m, b, s))
      BY <3>1, <2>2, Zenon DEF Curve!SightAssumption, Curve!Modes
    <3>3. QED BY <2>1, <1>4, <3>2 DEF S
  <2>4. kappa <= max
    BY <1>5, <2>3
  <2>5. \/ kappa <= Curve!Filter(raw, max)
        \/ filtered >= 0 /\ filtered + Curve!Mode.rise <= Curve!Filter(raw, max)
    BY <1>5, <2>3, <2>4, FilterIs
  <2>6. QED BY <2>1, <2>5
<1>8. f = Curve!Filter(Curve!Robust(Curve!Samples(course, Curve!InUse, b, s)), max)
  BY <1>1, <1>4 DEF S
<1> HIDE DEF f
<1>9. QED BY <1>1, <1>6, <1>7, <1>8

(* The limits are not above what the curvature allows. *)
LEMMA SpeedsAre ==
  ASSUME NEW raw \in RawSpeeds
  PROVE  /\ raw \in Nat /\ FormulaVel \in [1 .. KappaMax -> Nat]
         /\ (SlowdownPercent * raw) \div 100 \in Int
         /\ (SlowdownPercent * raw) \div 100 <= Profile["pid"].min_speed
         /\ \A k \in 1 .. KappaMax : \A j \in 1 .. k : FormulaVel[k] <= FormulaVel[j]
<1>1. Curve!SpeedAssumption
  BY MCAssumption
<1>2. PICK r \in Nat : r = raw
  BY <1>1 DEF Curve!SpeedAssumption
<1>3. SlowdownPercent * r \in Int
  BY CurveConstants
<1>4. (SlowdownPercent * raw) \div 100 \in Int
  BY <1>2, <1>3
<1>5. QED BY <1>1, <1>4 DEF Curve!SpeedAssumption

LEMMA LimitOfIs ==
  ASSUME NEW raw \in RawSpeeds, NEW k \in Nat
  PROVE  /\ Curve!LimitOf(k, raw) \in Int
         /\ \A kappa \in KappaMin .. KappaMax :
              kappa <= k =>
                Curve!LimitOf(k, raw) <= Bigger(FormulaVel[kappa], Profile["pid"].min_speed)
<1>1. PICK r \in Nat : r = raw
  BY SpeedsAre
<1>2. PICK least \in Nat : least = Profile["pid"].min_speed
  BY ProfileIs
<1>3. PICK p \in Int : p = (SlowdownPercent * raw) \div 100 /\ p <= least
  BY <1>2, SpeedsAre
<1>4. PICK q \in KappaMin .. KappaMax : q = Curve!Clamp(k, KappaMin, KappaMax)
  BY CurveConstants DEF Curve!Clamp
<1>5. q \in 1 .. KappaMax
  BY CurveConstants
<1>6. PICK v \in Nat : v = FormulaVel[q]
  BY <1>5, SpeedsAre
<1> least \in Int /\ r \in Int /\ v \in Int
  OBVIOUS
<1>7. Curve!Max({least, p}) = Bigger(least, p) /\ Bigger(least, p) = least
  <2>1. Curve!Max({least, p}) = Bigger(least, p)
    BY CurveLeastOfTwo, Zenon
  <2>2. QED BY <2>1, <1>3 DEF Bigger
<1>8. PICK a \in Int : a = Curve!Allowed(raw) /\ a <= least /\ a <= r
  <2>1. Curve!Allowed(raw) = Curve!Min({r, least})
    BY <1>1, <1>2, <1>3, <1>7 DEF Curve!Allowed
  <2>2. Curve!Min({r, least}) = IF r < least THEN r ELSE least
    BY CurveLeastOfTwo, Zenon
  <2>3. QED BY <2>1, <2>2
<1>9. PICK w \in Int : w = Curve!Min({r, v}) /\ w <= v
  <2>1. Curve!Min({r, v}) = IF r < v THEN r ELSE v
    BY CurveLeastOfTwo, Zenon
  <2>2. QED BY <2>1
<1>10. PICK l \in Int : l = Curve!LimitOf(k, raw) /\ l <= Bigger(v, least)
  <2>1. Curve!LimitOf(k, raw) = Curve!Clamp(w, a, r)
    BY <1>1, <1>4, <1>6, <1>8, <1>9 DEF Curve!LimitOf
  <2>2. Curve!Clamp(w, a, r) \in Int /\ Curve!Clamp(w, a, r) <= Bigger(v, least)
    BY <1>8, <1>9 DEF Curve!Clamp, Bigger
  <2>3. QED BY <2>1, <2>2
<1>11. ASSUME NEW kappa \in KappaMin .. KappaMax, kappa <= k
       PROVE  l <= Bigger(FormulaVel[kappa], least)
  <2>1. kappa \in 1 .. q /\ kappa \in 1 .. KappaMax
    BY <1>4, <1>5, <1>11, CurveConstants DEF Curve!Clamp
  <2>2. PICK u \in Nat : u = FormulaVel[kappa] /\ v <= u
    BY <1>5, <1>6, <2>1, SpeedsAre
  <2>3. QED BY <1>10, <2>2 DEF Bigger
<1>12. QED BY <1>2, <1>10, <1>11

LEMMA CurveLimitIs ==
  ASSUME NEW raw \in RawSpeeds, NEW k \in Nat
  PROVE  /\ Curve!CurveLimit(k, raw) \in Int
         /\ \A kappa \in 1 .. KappaMax :
              kappa <= k =>
                Curve!CurveLimit(k, raw) <= Bigger(FormulaVel[kappa], Profile["mpc"].min_speed)
<1>1. PICK r \in Nat : r = raw
  BY SpeedsAre
<1>2. PICK least \in Nat : least = Profile["mpc"].min_speed
  BY ProfileIs
<1>3. CASE k = 0
  <2>1. Curve!CurveLimit(k, raw) = Curve!Clamp(r, least, r)
    BY <1>1, <1>2, <1>3 DEF Curve!CurveLimit
  <2>2. QED BY <2>1, <1>3 DEF Curve!Clamp
<1>4. CASE k > 0
  <2>1. PICK q \in 1 .. KappaMax : q = Curve!Min({k, KappaMax}) /\ \A j \in Nat : j <= k /\ j <= KappaMax => j <= q
    <3>1. Curve!Min({k, KappaMax}) = IF k < KappaMax THEN k ELSE KappaMax
      BY CurveLeastOfTwo, CurveConstants
    <3>2. QED BY <3>1, <1>4, CurveConstants
  <2>2. PICK v \in Nat : v = FormulaVel[q]
    BY SpeedsAre
  <2>3. PICK l \in Int : l = Curve!CurveLimit(k, raw) /\ l <= Bigger(v, least)
    <3>1. Curve!CurveLimit(k, raw) = Curve!Clamp(v, least, r)
      BY <1>1, <1>2, <1>4, <2>1, <2>2 DEF Curve!CurveLimit
    <3>2. Curve!Clamp(v, least, r) \in Int /\ Curve!Clamp(v, least, r) <= Bigger(v, least)
      BY DEF Curve!Clamp, Bigger
    <3>3. QED BY <3>1, <3>2
  <2>4. ASSUME NEW kappa \in 1 .. KappaMax, kappa <= k
        PROVE  l <= Bigger(FormulaVel[kappa], least)
    <3>1. kappa \in 1 .. q
      BY <2>1, <2>4, CurveConstants
    <3>2. PICK u \in Nat : u = FormulaVel[kappa] /\ v <= u
      BY <2>2, <3>1, SpeedsAre
    <3>3. QED BY <2>3, <3>2 DEF Bigger
  <2>5. QED BY <1>2, <2>3, <2>4
<1>5. QED BY <1>3, <1>4

LEMMA RecoveredIs ==
  ASSUME last \in Int, NEW v \in Int
  PROVE  Curve!Recovered(v) \in Int /\ Curve!Recovered(v) <= v
<1>1. PICK w \in Int : w = last + RecoverStep
  BY CurveConstants
<1>2. Curve!Min({v, w}) = IF v < w THEN v ELSE w
  BY CurveLeastOfTwo
<1>3. QED BY <1>1, <1>2 DEF Curve!Recovered

LEMMA LookaheadIs ==
  ASSUME course \in DOMAIN Courses, place \in 0 .. Courses[course].end,
         NEW b \in Nat, b <= place, NEW d \in Carrots
  PROVE  Curve!CarrotKappa(b, Curve!Min({Courses[course].end, place + d})) \in Nat
<1> DEFINE at == Courses[course].at
<1>1. PICK e \in Nat : e = Courses[course].end
  BY CourseIs
<1>2. PICK carrot_at \in 0 .. e : carrot_at = Curve!Min({e, place + d})
  <2>1. PICK hi \in Nat : hi = place + d
    BY <1>1, CurveConstants
  <2>2. Curve!Min({e, hi}) = IF e < hi THEN e ELSE hi
    BY CurveLeastOfTwo
  <2>3. QED BY <2>1, <2>2
<1>3. PICK l \in Int : l = IF at[carrot_at] = at[place] THEN 0
                          ELSE (Length[Curve!Offset(at[place], at[carrot_at])] + PlaceLength \div 2)
                                 \div PlaceLength
  <2>1. CASE at[carrot_at] = at[place]
    BY <2>1
  <2>2. CASE at[carrot_at] # at[place]
    <3>1. Length[Curve!Offset(at[place], at[carrot_at])] \in Nat \ {0}
      BY <1>1, <2>2, LengthIs
    <3>2. PICK v \in Nat : v = Length[Curve!Offset(at[place], at[carrot_at])]
      BY <3>1
    <3>3. PICK u \in Nat : u = v + PlaceLength \div 2
      BY CurveConstants
    <3>4. u \div PlaceLength \in Int
      BY CurveConstants
    <3>5. QED BY <2>2, <3>2, <3>3, <3>4
  <2>3. QED BY <2>1, <2>2
<1>4. ASSUME NEW x \in Int PROVE Curve!Clamp(b + x, b, e) \in 0 .. e
  BY <1>1 DEF Curve!Clamp
<1>5. PICK i \in 0 .. e : i = Curve!Clamp(b + (l - Back), b, e)
  <2>1. l - Back \in Int
    BY CurveConstants
  <2>2. QED BY <1>4, <2>1
<1>6. PICK k \in 0 .. e : k = Curve!Clamp(b + (l + Fwd), b, e)
  <2>1. l + Fwd \in Int
    BY CurveConstants
  <2>2. QED BY <1>4, <2>1
<1>7. Curve!CarrotKappa(b, carrot_at) = Curve!Curvature(at[i], at[carrot_at], at[k])
  BY <1>1, <1>3, <1>5, <1>6, Zenon DEF Curve!CarrotKappa
<1>8. Curve!CarrotKappa(b, carrot_at) \in Nat
  BY <1>1, <1>5, <1>6, <1>7, CurvatureIs
<1>9. QED BY <1>1, <1>2, <1>8

LEMMA ScaledIs ==
  ASSUME last \in Int, NEW v \in Int, NEW k \in Nat
  PROVE  Curve!ScaledByMpc(v, k) \in Int /\ Curve!ScaledByMpc(v, k) <= v
<1>1. PICK target \in Int : target = Curve!Reduced(v, k)
  <2>1. PICK a \in Int : a = ReductionPercent * v
    BY CurveConstants
  <2>2. PICK b \in Int : b = v * (k - CurvatureMin)
    BY CurveConstants
  <2>3. PICK c \in Int : c = b * (100 - ReductionPercent)
    BY CurveConstants
  <2>4. PICK d \in Nat : d = 100 * (CurvatureMax - CurvatureMin) /\ d > 0
    BY CurveConstants
  <2>5. a \div 100 \in Int
    OBVIOUS
  <2>6. c \div d \in Int
    BY <2>4
  <2>7. Curve!Reduced(v, k) = IF k > CurvatureMax THEN a \div 100 ELSE v - (c \div d)
    BY <2>1, <2>2, <2>3, <2>4 DEF Curve!Reduced
  <2>8. QED BY <2>5, <2>6, <2>7
<1>2. ASSUME NEW step \in Nat PROVE last + Curve!Clamp(target - last, -step, step) \in Int
  BY DEF Curve!Clamp
<1>3. PICK led \in Int : led = Curve!Led(v, k)
  <2>1. PICK x \in Int : x = last + Curve!Clamp(target - last, -LowerSpeed, LowerSpeed)
    BY <1>2, CurveConstants
  <2>2. PICK y \in Int : y = last + Curve!Clamp(target - last, -ScaleStep, ScaleStep)
    BY <1>2, CurveConstants
  <2>3. Curve!Led(v, k) \in {v, x, y}
    BY <1>1, <2>1, <2>2, Zenon DEF Curve!Led
  <2>4. QED BY <2>3
<1>4. PICK m \in Int : m = Curve!Max({led, LeastScaled})
  <2>1. LeastScaled \in Int
    BY CurveConstants
  <2>2. Curve!Max({led, LeastScaled}) = Bigger(led, LeastScaled)
    BY <2>1, CurveLeastOfTwo
  <2>3. QED BY <2>1, <2>2 DEF Bigger
<1>5. Curve!Min({v, m}) = IF v < m THEN v ELSE m
  BY CurveLeastOfTwo
<1>6. Curve!ScaledByMpc(v, k) = Curve!Min({v, m})
  BY <1>3, <1>4 DEF Curve!ScaledByMpc
<1>7. QED BY <1>5, <1>6

(* The speed after the solver is not above the one asked for. *)
LEMMA LimitMpcIs ==
  ASSUME course \in DOMAIN Courses, place \in 0 .. Courses[course].end, last \in Int,
         NEW b \in Nat, b <= place, NEW v \in Int, Curve!LimitMpc(v, b)
  PROVE  speed' \in Int /\ last' \in Int /\ speed' <= v
<1>1. CASE v = 0 /\ speed' = 0 /\ UNCHANGED last
  BY <1>1
<1>2. CASE /\ v > 0
           /\ \E d \in Carrots :
                speed' = Curve!ScaledByMpc(v, Curve!CarrotKappa(b, Curve!Min({Courses[course].end, place + d})))
           /\ last' = speed'
  <2>1. PICK d \in Carrots :
          speed' = Curve!ScaledByMpc(v, Curve!CarrotKappa(b, Curve!Min({Courses[course].end, place + d})))
    BY <1>2
  <2>2. PICK k \in Nat : k = Curve!CarrotKappa(b, Curve!Min({Courses[course].end, place + d}))
    BY LookaheadIs
  <2>3. speed' = Curve!ScaledByMpc(v, k)
    BY <2>1, <2>2
  <2>4. QED BY <1>2, <2>3, ScaledIs
<1>3. QED BY <1>1, <1>2, Zenon DEF Curve!LimitMpc

LEMMA EffectiveIs ==
  ASSUME course \in DOMAIN Courses, NEW raw \in RawSpeeds, NEW s \in Nat
  PROVE  Curve!EffectiveSpeed(raw, s) \in Int
<1>1. PICK a \in Int : a = (Courses[course].end - s) * FullSpeed
  BY CourseIs, CurveConstants
<1>2. PICK b \in Int : b = a \div Np
  BY CurveConstants
<1>3. PICK r \in Nat : r = raw
  BY SpeedsAre
<1>4. Curve!EffectiveSpeed(raw, s) = Curve!Min({r, b})
  BY <1>1, <1>2, <1>3 DEF Curve!EffectiveSpeed
<1>5. Curve!Min({r, b}) = IF r < b THEN r ELSE b
  <2>1. r \in Int /\ b \in Int
    OBVIOUS
  <2>2. QED BY <2>1, CurveLeastOfTwo
<1>6. QED BY <1>4, <1>5

(* The cycles that the filter had since the robot is near enough to a      *)
(* corner: one at every place, the one of this cycle included.             *)
Cycles(c) == Curve!Needed(course, Curve!InUse, c) - (c - place) + (IF speed > 0 THEN 1 ELSE 0)

(* In each of them the filter has risen towards the corner. *)
Rising ==
  \A c \in Curve!Corners(course) : place < c =>
    \/ age = 0
    \/ Cycles(c) <= 0
    \/ Curve!Noted(course, Curve!InUse, c) <= filtered
    \/ Curve!Mode.rise * age <= filtered
    \/ Curve!Mode.rise * Cycles(c) <= filtered

CurveType ==
  /\ mode \in BOOLEAN /\ course \in DOMAIN Courses /\ place \in 0 .. Courses[course].end
  /\ filtered \in Int /\ filtered >= -1
  /\ slow \in BOOLEAN /\ last \in Int /\ speed \in Int
  /\ age \in Nat

CurveInv == CurveType /\ Rising /\ LimitedAtCorner

LEMMA PlaceIs ==
  ASSUME CurveType
  PROVE  place \in Nat /\ Courses[course].end \in Nat /\ place <= Courses[course].end
<1>1. PICK e \in Nat : e = Courses[course].end
  BY CourseIs DEF CurveType
<1>2. QED BY <1>1 DEF CurveType

LEMMA InUseIs ==
  ASSUME mode \in BOOLEAN
  PROVE  Curve!InUse \in {"pid", "mpc"} /\ Curve!Mode = Profile[Curve!InUse]
  BY DEF Curve!InUse, Curve!Mode

(* One cycle of the filter. *)
LEMMA RisingStep ==
  ASSUME CurveType, Rising, speed = 0,
         NEW b \in Curve!Begins(place), NEW s \in {b, place}, b \in Nat, b <= s, s < Courses[course].end,
         NEW max,
         LET S == Curve!Samples(course, Curve!InUse, b, s)
         IN  \/ max = Curve!Max({KappaMax, Curve!Robust(S)})
             \/ max = Curve!Max({Curve!Robust(S)} \cup Curve!Range(S)),
         filtered' = Curve!Filter(Curve!Robust(Curve!Samples(course, Curve!InUse, b, s)), max),
         UNCHANGED <<mode, course, place>>, age' = Curve!Min({age + 1, Curve!Settled}),
         speed' \in Int
  PROVE  filtered' \in Nat /\ age' \in Nat /\ Rising'
<1> DEFINE noted(c) == Curve!Noted(course, Curve!InUse, c)
           needed(c) == Curve!Needed(course, Curve!InUse, c)
<1>1. /\ filtered' \in Nat
      /\ \A c \in Curve!Corners(course) :
           place < c /\ c - place <= needed(c) =>
             \/ noted(c) <= filtered'
             \/ filtered >= 0 /\ filtered + Curve!Mode.rise <= filtered'
  BY FilteredIs, PlaceIs DEF CurveType
<1>2. PICK w \in Nat : w = Curve!Settled /\ w > 0
  BY SettledIs
<1>3. PICK r \in Nat : r = Curve!Mode.rise
  BY ProfileIs, InUseIs DEF CurveType
<1>4. PICK a \in Nat : a = age
  BY DEF CurveType
<1>5. PICK n \in Nat : n = age' /\ n <= a + 1
  <2>1. a + 1 \in Int /\ w \in Int
    OBVIOUS
  <2>2. Curve!Min({a + 1, w}) = IF a + 1 < w THEN a + 1 ELSE w
    BY <2>1, CurveLeastOfTwo, Zenon
  <2>3. age' = IF a + 1 < w THEN a + 1 ELSE w
    BY <1>2, <1>4, <2>2
  <2>4. QED BY <2>3
<1>6. ASSUME NEW c \in Curve!Corners(course), place < c
      PROVE  \/ age' = 0
             \/ Cycles(c)' <= 0
             \/ noted(c) <= filtered'
             \/ Curve!Mode.rise * age' <= filtered'
             \/ Curve!Mode.rise * Cycles(c)' <= filtered'
  <2>1. c \in Nat /\ place \in Nat
    BY CourseIs, PlaceIs DEF CurveType
  <2>2. PICK kappa \in Nat, need \in Nat : kappa = noted(c) /\ need = needed(c)
    BY NotedIs, InUseIs DEF CurveType
  <2>3. PICK y \in Int : y = need - (c - place)
    BY <2>1
  <2>4. Cycles(c) = y
    BY <2>1, <2>2, <2>3 DEF Cycles
  <2>5. PICK z \in Int : z = Cycles(c)' /\ z <= y + 1
    <3>1. Curve!Needed(course, Curve!InUse, c)' = needed(c)
      BY DEF Curve!InUse, Curve!Needed, Curve!Noted, Curve!KappaAt, Curve!Behind, Curve!Ahead
    <3>2. Cycles(c)' = y + (IF speed' > 0 THEN 1 ELSE 0)
      BY <2>1, <2>2, <2>3, <3>1 DEF Cycles
    <3>3. QED BY <3>2
  <2>6. CASE z <= 0
    BY <2>5, <2>6
  <2>7. CASE z > 0
    <3>1. y >= 0
      BY <2>5, <2>7
    <3>2. c - place <= need
      BY <2>1, <2>3, <3>1
    <3>3. CASE kappa <= filtered'
      BY <2>2, <3>3
    <3>4. CASE filtered >= 0 /\ filtered + r <= filtered'
      <4>1. PICK f \in Nat : f = filtered /\ f + r <= filtered'
        BY <3>4 DEF CurveType
      <4>2. r * n <= r * a + r /\ r * z <= r * y + r
        BY <1>5, <2>5
      <4>3. CASE age = 0
        BY <1>1, <1>3, <1>4, <1>5, <4>1, <4>2, <4>3
      <4>4. CASE Cycles(c) <= 0
        <5>1. y = 0
          BY <2>4, <3>1, <4>4
        <5>2. QED BY <1>1, <1>3, <2>5, <4>1, <4>2, <5>1
      <4>5. CASE kappa <= filtered
        BY <1>1, <2>2, <4>1, <4>5
      <4>6. CASE r * a <= f
        BY <1>1, <1>3, <1>5, <4>1, <4>2, <4>6
      <4>7. CASE r * y <= f
        BY <1>1, <1>3, <2>5, <4>1, <4>2, <4>7
      <4>8. QED
        BY <1>3, <1>4, <1>6, <2>2, <2>4, <4>1, <4>3, <4>4, <4>5, <4>6, <4>7 DEF Rising
    <3>5. kappa <= filtered' \/ (filtered >= 0 /\ filtered + r <= filtered')
      BY <1>1, <1>3, <1>6, <2>2, <3>2
    <3>6. QED BY <3>3, <3>4, <3>5
  <2>8. QED BY <2>6, <2>7
<1>7. Rising'
  <2>1. Curve!Mode' = Curve!Mode
    BY DEF Curve!Mode, Curve!InUse
  <2>2. Curve!Corners(course)' = Curve!Corners(course)
    BY DEF Curve!Corners
  <2>3. ASSUME NEW c PROVE Curve!Noted(course, Curve!InUse, c)' = noted(c)
    BY DEF Curve!InUse, Curve!Noted, Curve!KappaAt, Curve!Behind, Curve!Ahead
  <2> HIDE DEF noted, needed
  <2>4. QED BY <1>6, <2>1, <2>2, <2>3 DEF Rising
<1>8. QED BY <1>1, <1>5, <1>7

(* When the robot gets to a corner, the filter has risen to its curvature. *)
LEMMA RisenIs ==
  ASSUME NEW r \in Nat, NEW w \in Nat, w > 0, NEW kappa \in Nat, kappa > 0, kappa <= r * w,
         NEW need \in Nat, kappa <= r * need, NEW f \in Int, NEW a \in Nat, a >= w,
         a = 0 \/ need <= 0 \/ kappa <= f \/ r * a <= f \/ r * need <= f
  PROVE  kappa <= f
<1>1. r * w <= r * a
  <2>1. PICK e \in Nat : a = w + e
    BY a - w \in Nat
  <2>2. r * a = r * w + r * e /\ r * e \in Nat
    BY <2>1
  <2>3. QED BY <2>2
<1>2. ~(need <= 0)
  <2>1. ASSUME need = 0 PROVE FALSE
    <3>1. r * need = 0
      BY <2>1
    <3>2. QED BY <3>1
  <2>2. QED BY <2>1
<1>3. QED BY <1>1, <1>2

LEMMA Arrived ==
  ASSUME CurveType, Rising, speed > 0, age >= Curve!Settled,
         NEW c \in Curve!Corners(course), c = place + 1,
         Curve!Noted(course, Curve!InUse, c) > 0
  PROVE  Curve!Noted(course, Curve!InUse, c) <= filtered
<1>1. c \in Nat /\ place \in Nat
  BY CourseIs, PlaceIs DEF CurveType
<1>2. PICK m \in {"pid", "mpc"} : m = Curve!InUse /\ Curve!Mode = Profile[m]
  BY InUseIs DEF CurveType
<1>3. PICK r \in Nat : r = Profile[m].rise
  BY ProfileIs
<1>4. PICK need \in Nat, kappa \in 0 .. KappaMax :
        /\ need = Curve!Needed(course, m, c) /\ kappa = Curve!Noted(course, m, c)
        /\ kappa <= r * need
  BY <1>3, NotedIs DEF CurveType
<1>5. PICK w \in Nat : w = Curve!Settled /\ w > 0 /\ KappaMax <= r * w
  BY <1>3, SettledIs
<1>6. place < c /\ Cycles(c) = need
  BY <1>1, <1>2, <1>4 DEF Cycles
<1>7. PICK a \in Nat, f \in Int : a = age /\ f = filtered /\ a >= w
  BY <1>5 DEF CurveType
<1>8. a = 0 \/ need <= 0 \/ kappa <= f \/ r * a <= f \/ r * need <= f
  BY <1>2, <1>3, <1>4, <1>6, <1>7 DEF Rising
<1>9. kappa \in Nat /\ kappa > 0 /\ kappa <= r * w
  <2>1. r * w \in Nat
    OBVIOUS
  <2>2. QED BY <1>2, <1>4, <1>5, <2>1, CurveConstants
<1>10. kappa <= f
  BY <1>4, <1>5, <1>7, <1>8, <1>9, RisenIs
<1>11. QED BY <1>2, <1>4, <1>7, <1>10

CurveLeast == IF mode THEN Profile["mpc"].min_speed ELSE Profile["pid"].min_speed

LEMMA LimitedIs ==
  LimitedAtCorner <=>
    (speed > 0 /\ age >= Curve!Settled =>
       \A c \in Curve!Corners(course) \cap {place + 1} :
         Curve!Noted(course, Curve!InUse, c) >= KappaMin =>
           speed <= Curve!Max({FormulaVel[Curve!Noted(course, Curve!InUse, c)], CurveLeast}))
<1>1. Curve!Mode.min_speed = CurveLeast
  BY DEF CurveLeast, Curve!Mode, Curve!InUse
<1>2. QED BY <1>1 DEF LimitedAtCorner, Curve!LimitedAtCorner

(* A speed that fits the filtered curvature fits the corner that is next. *)
Fits ==
  speed > 0 /\ age >= Curve!Settled =>
    \A kappa \in KappaMin .. KappaMax :
      kappa <= filtered => speed <= Bigger(FormulaVel[kappa], CurveLeast)

LEMMA SpeedFits == CurveType /\ Rising /\ Fits => LimitedAtCorner
<1>1. SUFFICES ASSUME CurveType, Rising, Fits, speed > 0, age >= Curve!Settled,
                      NEW c \in Curve!Corners(course), c = place + 1,
                      Curve!Noted(course, Curve!InUse, c) >= KappaMin
               PROVE  speed <= Curve!Max({FormulaVel[Curve!Noted(course, Curve!InUse, c)], CurveLeast})
  BY LimitedIs
<1>2. PICK kappa \in 0 .. KappaMax : kappa = Curve!Noted(course, Curve!InUse, c)
  BY <1>1, NotedIs, InUseIs DEF CurveType
<1>3. kappa \in KappaMin .. KappaMax /\ kappa \in 1 .. KappaMax
  BY <1>1, <1>2, CurveConstants
<1>4. kappa <= filtered
  <2>1. Curve!Noted(course, Curve!InUse, c) > 0
    BY <1>2, <1>3
  <2>2. QED BY <1>1, <1>2, <2>1, Arrived
<1>5. PICK v \in Nat : v = FormulaVel[kappa]
  BY <1>3, MCAssumption DEF Curve!SpeedAssumption
<1>6. PICK l \in Nat : l = CurveLeast
  BY <1>1, ProfileIs DEF CurveType, CurveLeast
<1>7. v \in Int /\ l \in Int
  OBVIOUS
<1>8. Curve!Max({v, l}) = Bigger(v, l)
  BY <1>7, CurveLeastOfTwo, Zenon
<1>9. speed <= Bigger(v, l)
  BY <1>1, <1>3, <1>4, <1>5, <1>6 DEF Fits
<1>10. QED BY <1>2, <1>5, <1>6, <1>8, <1>9

(* Where there is no corner ahead, there is nothing to say. *)
NoneAhead ==
  course \in DOMAIN Courses /\ place \in Nat /\ \A c \in Curve!Corners(course) : c <= place

LEMMA NoCorner == NoneAhead => Rising /\ LimitedAtCorner
<1> SUFFICES ASSUME NoneAhead PROVE Rising /\ LimitedAtCorner
  OBVIOUS
<1>1. ASSUME NEW c \in Curve!Corners(course) PROVE c \in Nat /\ ~(place < c) /\ c # place + 1
  BY CourseIs DEF NoneAhead
<1>2. Rising
  BY <1>1 DEF Rising
<1>3. LimitedAtCorner
  BY <1>1, LimitedIs
<1>4. QED BY <1>2, <1>3

LEMMA BeginIs ==
  ASSUME CurveType, NEW b \in Curve!Begins(place)
  PROVE  b \in Nat /\ b <= place /\ place <= b + 1
<1>1. PICK p \in Nat : p = place
  BY PlaceIs
<1>2. 0 \in Int /\ p - 1 \in Int
  OBVIOUS
<1>3. Curve!Max({0, p - 1}) = Bigger(0, p - 1)
  BY <1>2, CurveLeastOfTwo, Zenon
<1>4. b = p \/ b = Bigger(0, p - 1)
  BY <1>1, <1>3 DEF Curve!Begins
<1>5. QED BY <1>1, <1>4 DEF Bigger

LEMMA PidKeeps ==
  ASSUME CurveInv, NEW raw \in RawSpeeds, NEW b \in Curve!Begins(place), NEW s \in {b, place},
         speed = 0, Curve!LimitPid(raw, b, s)
  PROVE  CurveInv'
<1>1. /\ b \in Nat /\ b <= place /\ s \in Nat /\ b <= s /\ s <= place /\ place <= s + 1
      /\ place \in Nat
  BY BeginIs, PlaceIs DEF CurveInv
<1>2. ~mode /\ mode' = mode /\ course' = course /\ place' = place /\ course \in DOMAIN Courses
  BY DEF Curve!LimitPid, CurveInv, CurveType
<1>3. CASE Curve!Straight(b) /\ speed' = raw /\ last' = raw /\ UNCHANGED <<filtered, slow, age>>
  <2>1. \A c \in Curve!Corners(course) : c <= place
    <3>1. ASSUME NEW c \in Curve!Corners(course) PROVE c <= place
      <4>1. c \in Nat /\ c <= b
        BY <1>2, <1>3, CourseIs DEF Curve!Straight
      <4>2. QED BY <4>1, <1>1
    <3>2. QED BY <3>1
  <2>2. CurveType'
    BY <1>2, <1>3, SpeedsAre DEF CurveInv, CurveType
  <2>3. NoneAhead'
    <3>1. Curve!Corners(course)' = Curve!Corners(course)
      BY <1>2 DEF Curve!Corners
    <3>2. QED BY <1>1, <1>2, <2>1, <3>1 DEF NoneAhead
  <2>4. Rising' /\ LimitedAtCorner'
    BY <2>3, NoCorner, PTL
  <2>5. QED BY <2>2, <2>4 DEF CurveInv
<1>4. CASE /\ s < Courses[course].end
           /\ Curve!FilterPid(b, s)
           /\ slow' = Curve!SlowActive(filtered')
           /\ speed' = Curve!Recovered(IF slow' THEN Curve!LimitOf(filtered', raw) ELSE raw)
           /\ last' = speed'
           /\ age' = Curve!Min({age + 1, Curve!Settled})
  <2> DEFINE S == Curve!Samples(course, Curve!InUse, b, s)
             max == Curve!Max({KappaMax, Curve!Robust(S)})
             v == IF slow' THEN Curve!LimitOf(filtered', raw) ELSE raw
  <2>1. filtered' = Curve!Filter(Curve!Robust(S), max)
    <3>1. Curve!InUse = "pid"
      BY <1>2 DEF Curve!InUse
    <3>2. filtered' = Curve!Filter(Curve!Robust(Curve!Samples(course, "pid", b, s)),
                                   Curve!Max({KappaMax, Curve!Robust(Curve!Samples(course, "pid", b, s))}))
      BY <1>4, Zenon DEF Curve!FilterPid
    <3>3. QED BY <3>1, <3>2
  <2> HIDE DEF max
  <2>2. filtered' \in Nat
    <3>1. \/ max = Curve!Max({KappaMax, Curve!Robust(S)})
          \/ max = Curve!Max({Curve!Robust(S)} \cup Curve!Range(S))
      BY DEF max
    <3>2. QED BY <1>1, <1>2, <1>4, <2>1, <3>1, FilteredIs DEF CurveInv, CurveType
  <2>3. v \in Int
    BY <2>2, LimitOfIs, SpeedsAre
  <2> HIDE DEF v
  <2>4. speed' \in Int /\ speed' <= v
    <3>1. last \in Int
      BY DEF CurveInv, CurveType
    <3>2. speed' = Curve!Recovered(v)
      BY <1>4 DEF v
    <3>3. QED BY <2>3, <3>1, <3>2, RecoveredIs
  <2>5. age' \in Nat /\ Rising'
    <3>1. CurveType /\ Rising
      BY DEF CurveInv
    <3>2. \/ max = Curve!Max({KappaMax, Curve!Robust(S)})
          \/ max = Curve!Max({Curve!Robust(S)} \cup Curve!Range(S))
      BY DEF max
    <3>3. UNCHANGED <<mode, course, place>>
      BY <1>2
    <3>4. QED BY <1>1, <1>4, <2>1, <2>4, <3>1, <3>2, <3>3, RisingStep
  <2>6. slow' \in BOOLEAN
    <3>1. CASE slow
      BY <1>4, <3>1 DEF Curve!SlowActive
    <3>2. CASE ~slow
      BY <1>4, <3>2 DEF Curve!SlowActive
    <3>3. QED BY <3>1, <3>2
  <2>7. CurveType'
    BY <1>2, <1>4, <2>2, <2>4, <2>5, <2>6 DEF CurveInv, CurveType
  <2>8. ASSUME NEW kappa \in KappaMin .. KappaMax, kappa <= filtered'
        PROVE  speed' <= Bigger(FormulaVel[kappa], CurveLeast')
    <3>1. slow'
      <4>1. PICK low \in Int : low = KappaMin - Hysteresis /\ low < KappaMin
        BY CurveConstants
      <4>2. 0 \in Int
        OBVIOUS
      <4>3. Curve!Max({0, low}) = Bigger(0, low)
        BY <4>1, <4>2, CurveLeastOfTwo, Zenon
      <4>4. filtered' >= KappaMin /\ filtered' > Bigger(0, low)
        BY <2>2, <2>8, <4>1, CurveConstants DEF Bigger
      <4>5. filtered' > Curve!Max({0, KappaMin - Hysteresis})
        BY <4>1, <4>3, <4>4
      <4>6. QED BY <1>4, <4>4, <4>5 DEF Curve!SlowActive
    <3>2. v = Curve!LimitOf(filtered', raw)
      BY <3>1 DEF v
    <3>3. v <= Bigger(FormulaVel[kappa], Profile["pid"].min_speed)
      BY <2>2, <2>8, <3>2, LimitOfIs
    <3>4. CurveLeast' = Profile["pid"].min_speed
      BY <1>2 DEF CurveLeast
    <3>5. Bigger(FormulaVel[kappa], Profile["pid"].min_speed) \in Int
      <4>1. kappa \in 1 .. KappaMax
        BY CurveConstants
      <4>2. FormulaVel[kappa] \in Nat /\ Profile["pid"].min_speed \in Nat
        BY <4>1, SpeedsAre, ProfileIs
      <4>3. QED BY <4>2 DEF Bigger
    <3>6. QED BY <2>3, <2>4, <3>3, <3>4, <3>5
  <2>9. Fits'
    BY <2>8 DEF Fits
  <2>10. LimitedAtCorner'
    BY <2>5, <2>7, <2>9, SpeedFits, PTL
  <2>11. QED BY <2>5, <2>7, <2>10 DEF CurveInv
<1>5. QED BY <1>3, <1>4, Zenon DEF Curve!LimitPid

LEMMA MpcKeeps ==
  ASSUME CurveInv, NEW raw \in RawSpeeds, NEW b \in Curve!Begins(place), NEW s \in {b, place},
         speed = 0, Curve!TimedRefs(raw, b, s)
  PROVE  CurveInv'
<1>1. /\ b \in Nat /\ b <= place /\ s \in Nat /\ b <= s /\ s <= place /\ place <= s + 1
      /\ place \in Nat
  BY BeginIs, PlaceIs DEF CurveInv
<1>2. /\ mode /\ mode' = mode /\ course' = course /\ place' = place /\ slow' = slow
      /\ course \in DOMAIN Courses
  BY DEF Curve!TimedRefs, CurveInv, CurveType
<1>3. CASE /\ Courses[course].end <= s
           /\ \E v \in {0, raw} : Curve!LimitMpc(v, b)
           /\ UNCHANGED <<filtered, age>>
  <2>1. \A c \in Curve!Corners(course) : c <= place
    <3>1. ASSUME NEW c \in Curve!Corners(course) PROVE c <= place
      <4>1. c \in Nat /\ c < Courses[course].end /\ Courses[course].end \in Nat
        BY <1>2, CourseIs
      <4>2. QED BY <4>1, <1>1, <1>3
    <3>2. QED BY <3>1
  <2>2. CurveType'
    <3>1. PICK v \in {0, raw} : Curve!LimitMpc(v, b)
      BY <1>3
    <3>2. v \in Int
      BY SpeedsAre
    <3>3. speed' \in Int /\ last' \in Int
      BY <1>1, <1>2, <3>1, <3>2, LimitMpcIs DEF CurveInv, CurveType
    <3>4. QED BY <1>2, <1>3, <3>3 DEF CurveInv, CurveType
  <2>3. NoneAhead'
    <3>1. Curve!Corners(course)' = Curve!Corners(course)
      BY <1>2 DEF Curve!Corners
    <3>2. QED BY <1>1, <1>2, <2>1, <3>1 DEF NoneAhead
  <2>4. Rising' /\ LimitedAtCorner'
    BY <2>3, NoCorner, PTL
  <2>5. QED BY <2>2, <2>4 DEF CurveInv
<1>4. CASE /\ Courses[course].end > s
           /\ Curve!FilterMpc(b, s)
           /\ \E v \in {Curve!Min({Curve!EffectiveSpeed(raw, s), Curve!CurveLimit(filtered', raw)})} :
                Curve!LimitMpc(v, b)
           /\ age' = Curve!Min({age + 1, Curve!Settled})
  <2> DEFINE S == Curve!Samples(course, Curve!InUse, b, s)
             max == Curve!Max({Curve!Robust(S)} \cup Curve!Range(S))
             v == Curve!Min({Curve!EffectiveSpeed(raw, s), Curve!CurveLimit(filtered', raw)})
  <2>1. filtered' = Curve!Filter(Curve!Robust(S), max)
    <3>1. Curve!InUse = "mpc"
      BY <1>2 DEF Curve!InUse
    <3>2. PICK samples \in {Curve!Samples(course, "mpc", b, s)} :
            filtered' = Curve!Filter(Curve!Robust(samples),
                                     Curve!Max({Curve!Robust(samples)} \cup Curve!Range(samples)))
      BY <1>4, Zenon DEF Curve!FilterMpc
    <3>3. samples = S
      BY <3>1
    <3> HIDE DEF S
    <3>4. QED BY <3>2, <3>3
  <2> HIDE DEF max
  <2>2. s < Courses[course].end
    BY <1>1, <1>2, <1>4, CourseIs
  <2>3. \/ max = Curve!Max({KappaMax, Curve!Robust(S)})
        \/ max = Curve!Max({Curve!Robust(S)} \cup Curve!Range(S))
    BY DEF max
  <2>4. filtered' \in Nat
    BY <1>1, <1>2, <2>1, <2>2, <2>3, FilteredIs DEF CurveInv, CurveType
  <2>5. PICK l \in Int : l = Curve!CurveLimit(filtered', raw)
    BY <2>4, CurveLimitIs
  <2>6. v \in Int /\ v <= l
    <3>1. PICK e \in Int : e = Curve!EffectiveSpeed(raw, s)
      BY <1>1, <1>2, EffectiveIs
    <3>2. Curve!Min({e, l}) = IF e < l THEN e ELSE l
      BY CurveLeastOfTwo, Zenon
    <3>3. v = IF e < l THEN e ELSE l
      BY <2>5, <3>1, <3>2
    <3>4. QED BY <3>3
  <2>7. Curve!LimitMpc(v, b)
    BY <1>4, Zenon
  <2> HIDE DEF v
  <2>8. speed' \in Int /\ last' \in Int /\ speed' <= l
    <3>1. speed' \in Int /\ last' \in Int /\ speed' <= v
      BY <1>1, <1>2, <2>6, <2>7, LimitMpcIs DEF CurveInv, CurveType
    <3>2. QED BY <2>6, <3>1
  <2>9. age' \in Nat /\ Rising'
    <3>1. CurveType /\ Rising
      BY DEF CurveInv
    <3>2. UNCHANGED <<mode, course, place>>
      BY <1>2
    <3>3. QED BY <1>1, <1>4, <2>1, <2>2, <2>3, <2>8, <3>1, <3>2, RisingStep
  <2>10. CurveType'
    BY <1>2, <1>4, <2>4, <2>8, <2>9 DEF CurveInv, CurveType
  <2>11. ASSUME NEW kappa \in KappaMin .. KappaMax, kappa <= filtered'
         PROVE  speed' <= Bigger(FormulaVel[kappa], CurveLeast')
    <3>1. kappa \in 1 .. KappaMax
      BY CurveConstants
    <3>2. l <= Bigger(FormulaVel[kappa], Profile["mpc"].min_speed)
      BY <2>4, <2>5, <2>11, <3>1, CurveLimitIs
    <3>3. CurveLeast' = Profile["mpc"].min_speed
      BY <1>2 DEF CurveLeast
    <3>4. Bigger(FormulaVel[kappa], Profile["mpc"].min_speed) \in Int
      <4>1. FormulaVel[kappa] \in Nat /\ Profile["mpc"].min_speed \in Nat
        BY <3>1, SpeedsAre, ProfileIs
      <4>2. QED BY <4>1 DEF Bigger
    <3>5. QED BY <2>8, <3>2, <3>3, <3>4
  <2>12. Fits'
    BY <2>11 DEF Fits
  <2>13. LimitedAtCorner'
    BY <2>9, <2>10, <2>12, SpeedFits, PTL
  <2>14. QED BY <2>9, <2>10, <2>13 DEF CurveInv
<1>5. QED BY <1>3, <1>4, Zenon DEF Curve!TimedRefs

(* The robot drives on only after a cycle, so that the filter has had one *)
(* at every place. *)
LEMMA DriveKeeps == CurveInv /\ Curve!Drive => CurveInv'
<1> SUFFICES ASSUME CurveInv, Curve!Drive PROVE CurveInv'
  OBVIOUS
<1>1. /\ speed > 0 /\ speed' = 0
      /\ UNCHANGED <<mode, course, filtered, slow, last, age>>
  BY DEF Curve!Drive
<1> DEFINE noted(c) == Curve!Noted(course, Curve!InUse, c)
<1>2. /\ place' \in 0 .. Courses[course].end /\ place' \in Nat
      /\ place' >= place /\ place' <= place + 1 /\ place \in Nat
  <2>1. place \in Nat /\ Courses[course].end \in Nat
    BY PlaceIs DEF CurveInv
  <2>2. QED BY <2>1 DEF Curve!Drive
<1>3. CurveType'
  BY <1>1, <1>2 DEF CurveInv, CurveType
<1>4. ASSUME NEW c PROVE /\ Curve!Noted(course, Curve!InUse, c)' = noted(c)
                         /\ Curve!Needed(course, Curve!InUse, c)' = Curve!Needed(course, Curve!InUse, c)
  BY <1>1 DEF Curve!InUse, Curve!Needed, Curve!Noted, Curve!KappaAt, Curve!Behind, Curve!Ahead
<1>5. ASSUME NEW c \in Curve!Corners(course), place' < c
      PROVE  \/ age = 0
             \/ Cycles(c)' <= 0
             \/ noted(c) <= filtered
             \/ Curve!Mode.rise * age <= filtered
             \/ Curve!Mode.rise * Cycles(c)' <= filtered
  <2>1. c \in Nat /\ place < c
    BY <1>2, <1>5, CourseIs DEF CurveInv, CurveType
  <2>0. PICK w \in Nat, kappa \in Nat : w = Curve!Needed(course, Curve!InUse, c) /\ kappa = noted(c)
    BY NotedIs, InUseIs DEF CurveInv, CurveType
  <2>2. PICK y \in Int : y = Cycles(c) /\ y = w - (c - place) + 1
    BY <1>1, <1>2, <2>0, <2>1 DEF Cycles
  <2>3. PICK z \in Int : z = Cycles(c)' /\ z = w - (c - place')
    BY <1>1, <1>2, <1>4, <2>0, <2>1 DEF Cycles
  <2>4. z <= y
    <3>1. PICK n \in Nat, p \in Nat : n = place /\ p = place' /\ p <= n + 1
      BY <1>2
    <3>2. y = w - (c - n) + 1 /\ z = w - (c - p) /\ c \in Nat
      BY <2>1, <2>2, <2>3, <3>1
    <3>3. w - (c - p) <= w - (c - n) + 1
      <4>1. w \in Nat /\ c \in Nat /\ n \in Nat /\ p \in Nat /\ p <= n + 1
        BY <3>1, <3>2
      <4>2. QED BY <4>1
    <3>4. QED BY <3>2, <3>3
  <2>5. PICK r \in Nat : r = Curve!Mode.rise
    BY ProfileIs, InUseIs DEF CurveInv, CurveType
  <2>6. PICK f \in Int : f = filtered
    BY DEF CurveInv, CurveType
  <2>7. r * z <= r * y
    BY <2>4
  <2>8. r * y <= f => r * z <= f
    BY <2>7
  <2>9. \/ age = 0 \/ y <= 0 \/ kappa <= f \/ r * age <= f \/ r * y <= f
    BY <2>0, <2>1, <2>2, <2>5, <2>6 DEF CurveInv, Rising
  <2>10. y <= 0 => z <= 0
    BY <2>4
  <2>11. QED BY <2>0, <2>3, <2>5, <2>6, <2>8, <2>9, <2>10
<1>6. Rising'
  <2>1. Curve!Mode' = Curve!Mode
    BY <1>1 DEF Curve!Mode, Curve!InUse
  <2>2. Curve!Corners(course)' = Curve!Corners(course)
    BY <1>1 DEF Curve!Corners
  <2> HIDE DEF noted
  <2>3. QED BY <1>1, <1>4, <1>5, <2>1, <2>2 DEF Rising
<1>7. Fits'
  BY <1>1 DEF Fits
<1>8. LimitedAtCorner'
  BY <1>3, <1>6, <1>7, SpeedFits, PTL
<1>9. QED BY <1>3, <1>6, <1>8 DEF CurveInv

(* A new plan starts the count. *)
LEMMA SetPlanKeeps == CurveInv /\ (\E c \in DOMAIN Courses : Curve!SetPlan(c)) => CurveInv'
<1> SUFFICES ASSUME CurveInv, NEW c \in DOMAIN Courses, Curve!SetPlan(c) PROVE CurveInv'
  OBVIOUS
<1>1. /\ course' = c /\ place' = 0 /\ age' = 0
      /\ UNCHANGED <<mode, filtered, slow, last, speed>>
  BY DEF Curve!SetPlan
<1>2. CurveType'
  <2>1. Courses[c].end \in Nat
    BY CourseIs
  <2>2. QED BY <1>1, <2>1 DEF CurveInv, CurveType
<1>3. Rising'
  BY <1>1 DEF Rising
<1>4. Fits'
  <2>1. Curve!Settled' = Curve!Settled
    BY DEF Curve!Settled
  <2>2. ~(age' >= Curve!Settled')
    BY <1>1, <2>1, SettledIs
  <2>3. QED BY <2>2 DEF Fits
<1>5. LimitedAtCorner'
  BY <1>2, <1>3, <1>4, SpeedFits, PTL
<1>6. QED BY <1>2, <1>3, <1>5 DEF CurveInv

LEMMA CurveStarts == Curve!Init => CurveInv
<1> SUFFICES ASSUME Curve!Init PROVE CurveInv
  OBVIOUS
<1>1. CurveType
  <2>1. mode \in BOOLEAN /\ slow \in BOOLEAN
    BY Zenon DEF Curve!Init
  <2>2. place = 0 /\ filtered = -1 /\ last = 0 /\ speed = 0 /\ age = 0 /\ course \in DOMAIN Courses
    BY DEF Curve!Init
  <2>3. Courses[course].end \in Nat
    BY <2>2, CourseIs
  <2>4. QED BY <2>1, <2>2, <2>3 DEF CurveType
<1>2. Rising
  BY DEF Curve!Init, Rising
<1>3. Fits
  BY DEF Curve!Init, Fits
<1>4. QED BY <1>1, <1>2, <1>3, SpeedFits DEF CurveInv

LEMMA CurveStep == CurveInv /\ [Curve!Next]_curveVars => CurveInv'
<1>1. CurveInv /\ Curve!Next => CurveInv'
  <2>1. SUFFICES ASSUME CurveInv, Curve!Next PROVE CurveInv'
    OBVIOUS
  <2>2. CASE Curve!Drive
    BY <2>1, <2>2, DriveKeeps
  <2>3. CASE \E c \in DOMAIN Courses : Curve!SetPlan(c)
    BY <2>1, <2>3, SetPlanKeeps
  <2>4. ASSUME NEW raw \in RawSpeeds, NEW b \in Curve!Begins(place), NEW s \in {b, place}, speed = 0,
               Curve!LimitPid(raw, b, s) \/ Curve!TimedRefs(raw, b, s)
        PROVE  CurveInv'
    BY <2>1, <2>4, PidKeeps, MpcKeeps
  <2>5. QED BY <2>1, <2>2, <2>3, <2>4, Zenon DEF Curve!Next
<1>2. CurveInv /\ UNCHANGED curveVars => CurveInv'
  <2>1. SUFFICES ASSUME CurveInv, UNCHANGED curveVars PROVE CurveInv'
    OBVIOUS
  <2>2. UNCHANGED <<mode, course, place, filtered, slow, last, speed, age>>
    BY <2>1 DEF curveVars
  <2>3. CurveType'
    BY <2>1, <2>2 DEF CurveInv, CurveType
  <2>0. ASSUME NEW c
        PROVE  /\ Curve!Noted(course, Curve!InUse, c)' = Curve!Noted(course, Curve!InUse, c)
               /\ Curve!Needed(course, Curve!InUse, c)' = Curve!Needed(course, Curve!InUse, c)
    BY <2>2 DEF Curve!InUse, Curve!Needed, Curve!Noted, Curve!KappaAt, Curve!Behind, Curve!Ahead
  <2>a. Curve!Corners(course)' = Curve!Corners(course)
    BY <2>2 DEF Curve!Corners
  <2>4. Rising'
    BY <2>0, <2>1, <2>2, <2>a DEF CurveInv, Rising, Cycles, Curve!Mode, Curve!InUse
  <2>5. LimitedAtCorner'
    BY <2>0, <2>1, <2>2, <2>a DEF CurveInv, LimitedAtCorner, Curve!LimitedAtCorner, Curve!Settled, Curve!Mode,
                                  Curve!InUse
  <2>6. QED BY <2>3, <2>4, <2>5 DEF CurveInv
<1>3. QED BY <1>1, <1>2

(* A robot that has followed a plan for as long as the filter needs is not *)
(* given more speed before a corner than fits what sampling takes of it,   *)
(* whatever the course: samplePathToTimedMpcRefSeq and both                *)
(* applyCurvatureLimitation, under SightAssumption.                        *)
THEOREM CornersAreLimited == Curve!Init /\ [][Curve!Next]_curveVars => []LimitedAtCorner
<1>1. CurveInv => LimitedAtCorner
  BY DEF CurveInv
<1>2. QED BY CurveStarts, CurveStep, <1>1, PTL

-----------------------------------------------------------------------------
(* The modules share no variable: each goes its way within the run. *)
LEMMA Composed ==
  MCSpec => /\ Init /\ [][Next]_vars
            /\ Path!Init /\ [][Path!Next]_pathVars
            /\ Smoothing!Init /\ [][Smoothing!Next]_smoothingVars
            /\ Curve!Init /\ [][Curve!Next]_curveVars
            /\ Task!Init /\ [][Task!Next]_taskVars
            /\ Solver!Init /\ [][Solver!Next]_solverVars
            /\ Pursuit!Init /\ [][Pursuit!Next]_pursuitVars
<1>1. MCInit => Init /\ Path!Init /\ Smoothing!Init /\ Curve!Init /\ Task!Init /\ Solver!Init /\ Pursuit!Init
  BY DEF MCInit
<1>2. [MCNext]_allVars =>
        /\ [Next]_vars /\ [Path!Next]_pathVars /\ [Smoothing!Next]_smoothingVars
        /\ [Curve!Next]_curveVars /\ [Task!Next]_taskVars
        /\ [Solver!Next]_solverVars /\ [Pursuit!Next]_pursuitVars
  BY Zenon DEF MCNext, allVars
<1>3. QED BY <1>1, <1>2, PTL DEF MCSpec

(* What holds of the modules holds of the run's specification, for any     *)
(* constants. *)
THEOREM AllHold ==
  MCSpec => /\ []StopsWhenSilent /\ []ShortcutsAreFree /\ ChoiceIsSteady /\ []LimitedAtCorner
            /\ []TaskIsCurrent /\ []SolutionIsDriven /\ []StaysAtGoal
<1>1. Init /\ [][Next]_vars => []StopsWhenSilent
  BY SilenceStops DEF Spec
<1>2. QED BY Composed, <1>1, ShortcutsAreSeen, ChoicesAreKept, CornersAreLimited, TaskIsNotOver, PlanIsDriven,
             GoalIsKept, PTL
=============================================================================
