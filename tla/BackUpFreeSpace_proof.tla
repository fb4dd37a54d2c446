------------------------ MODULE BackUpFreeSpace_proof ------------------------
(***************************************************************************)
(* The recovery run goes no further than stated, for every size of the     *)
(* costmap, distance, time allowance and time the chassis holds a          *)
(* velocity, however long a cycle waits for the service.                   *)
(***************************************************************************)
EXTENDS MCCostmap, Sequences, FiniteSetTheorems, WellFoundedInduction, TLAPS

-----------------------------------------------------------------------------
(* The chosen direction. *)

LEMMA LeastMember ==
  ASSUME NEW T, T \subseteq Nat, T # {}
  PROVE  \E x \in T : \A y \in T : ~(y < x)
<1> DEFINE R == OpToRel(<, Nat)
<1>1. IsWellFoundedOn(R, Nat)
  BY NatLessThanWellFounded
<1>2. \E x \in T : \A y \in T : ~(<<y, x>> \in R)
  <2> HIDE DEF R
  <2> QED BY <1>1, WFMin, Zenon
<1>3. PICK x \in T : \A y \in T : ~(<<y, x>> \in R)
  BY <1>2
<1>4. ASSUME NEW y \in T, y < x PROVE FALSE
  <2>1. <<y, x>> \in Nat \X Nat
    OBVIOUS
  <2>2. <<y, x>> \in R
    BY <2>1, <1>4 DEF OpToRel
  <2>3. QED BY <1>3, <2>2
<1>5. QED BY <1>4

LEMMA DirectionsAre ==
  /\ DOMAIN Recovery!Directions = 1 .. 4
  /\ Recovery!DirectionSet = {<<1, 0>>, <<0, 1>>, <<-1, 0>>, <<0, -1>>}
<1>1. /\ DOMAIN Recovery!Directions = 1 .. 4 /\ 1 .. 4 = {1, 2, 3, 4}
      /\ Recovery!Directions[1] = <<1, 0>> /\ Recovery!Directions[2] = <<0, 1>>
      /\ Recovery!Directions[3] = <<-1, 0>> /\ Recovery!Directions[4] = <<0, -1>>
  BY DEF Recovery!Directions
<1>2. QED BY <1>1 DEF Recovery!DirectionSet

LEMMA CountIs ==
  ASSUME Recovery!BackUpAssumption, NEW S, S \subseteq 1 .. SampleSteps
  PROVE  Recovery!Cardinality(S) \in Nat
<1>1. IsFiniteSet(1 .. SampleSteps)
  BY FS_Interval DEF Recovery!BackUpAssumption
<1>2. IsFiniteSet(S)
  BY <1>1, FS_Subset
<1>3. Recovery!Cardinality(S) = Cardinality(S)
  BY Zenon DEF Recovery!Cardinality, Cardinality
<1>4. QED BY <1>2, <1>3, FS_CardinalityType

LEMMA CostsAre ==
  ASSUME Recovery!BackUpAssumption, NEW map, NEW p, NEW d
  PROVE  Recovery!LeadingObstacles(map, p, d) \in Nat /\ Recovery!Cost(map, p, d) \in Nat
<1>1. {i \in 1 .. SampleSteps : \A j \in 1 .. i : ~Recovery!IsFree(map, Recovery!Ray(p, d)[j])}
        \subseteq 1 .. SampleSteps
  OBVIOUS
<1>2. {i \in 1 .. SampleSteps : ~Recovery!IsFree(map, Recovery!Ray(p, d)[i])} \subseteq 1 .. SampleSteps
  OBVIOUS
<1>3. QED BY <1>1, <1>2, CountIs DEF Recovery!LeadingObstacles, Recovery!Cost

(* No other direction is better than the chosen one, which is one of those *)
(* sampled. *)
LEMMA BestIs ==
  ASSUME Recovery!BackUpAssumption, NEW map, NEW p
  PROVE  Recovery!BestDirection(map, p) \in Recovery!DirectionSet
<1> DEFINE N == DOMAIN Recovery!Directions
           lead == [i \in N |-> Recovery!LeadingObstacles(map, p, Recovery!Directions[i])]
           cost == [i \in N |-> Recovery!Cost(map, p, Recovery!Directions[i])]
<1>1. N = 1 .. 4 /\ lead \in [N -> Nat] /\ cost \in [N -> Nat]
  BY DirectionsAre, CostsAre
<1>2. \A i, j \in N : Recovery!Better(map, p, Recovery!Directions[j], Recovery!Directions[i])
                        <=> lead[j] < lead[i] \/ (lead[j] = lead[i] /\ cost[j] < cost[i])
  <2>1. TAKE i, j \in N
  <2>2. /\ lead[i] = Recovery!LeadingObstacles(map, p, Recovery!Directions[i])
        /\ lead[j] = Recovery!LeadingObstacles(map, p, Recovery!Directions[j])
        /\ cost[i] = Recovery!Cost(map, p, Recovery!Directions[i])
        /\ cost[j] = Recovery!Cost(map, p, Recovery!Directions[j])
    BY Zenon
  <2>3. Recovery!Better(map, p, Recovery!Directions[j], Recovery!Directions[i])
          <=> \/ Recovery!LeadingObstacles(map, p, Recovery!Directions[j])
                   < Recovery!LeadingObstacles(map, p, Recovery!Directions[i])
              \/ /\ Recovery!LeadingObstacles(map, p, Recovery!Directions[j])
                      = Recovery!LeadingObstacles(map, p, Recovery!Directions[i])
                 /\ Recovery!Cost(map, p, Recovery!Directions[j])
                      < Recovery!Cost(map, p, Recovery!Directions[i])
    BY ONLY Zenon DEF Recovery!Better
  <2> HIDE DEF N, lead, cost
  <2>4. QED BY ONLY <2>2, <2>3
<1> HIDE DEF N, lead, cost
<1> DEFINE L == {lead[i] : i \in N}
<1>3. L \subseteq Nat /\ L # {}
  BY <1>1
<1>4. PICK l \in L : \A y \in L : ~(y < l)
  <2> HIDE DEF L
  <2>1. QED BY <1>3, LeastMember
<1> DEFINE C == {cost[i] : i \in {k \in N : lead[k] = l}}
<1>5. C \subseteq Nat /\ C # {}
  BY <1>1
<1>6. PICK c \in C : \A y \in C : ~(y < c)
  <2> HIDE DEF C
  <2>1. QED BY <1>5, LeastMember
<1> DEFINE best == {i \in N : \A j \in N :
                     ~Recovery!Better(map, p, Recovery!Directions[j], Recovery!Directions[i])}
<1>7. best \subseteq Nat /\ best # {}
  <2>1. PICK k \in N : lead[k] = l /\ cost[k] = c
    BY <1>6
  <2>2. ASSUME NEW j \in N PROVE ~(lead[j] < lead[k] \/ (lead[j] = lead[k] /\ cost[j] < cost[k]))
    <3>1. lead[j] \in L /\ (lead[j] = l => cost[j] \in C)
      OBVIOUS
    <3>2. QED BY <1>4, <1>6, <2>1, <3>1
  <2>3. k \in best
    BY <1>2, <2>2
  <2>4. QED BY <1>1, <2>3
<1>8. PICK i \in best : \A j \in best : ~(j < i)
  <2> HIDE DEF best
  <2>1. QED BY <1>7, LeastMember
<1>9. \A j \in best : i <= j
  BY <1>7, <1>8
<1>10. (CHOOSE k \in best : \A j \in best : k <= j) \in best
  <2> HIDE DEF best
  <2>1. QED BY <1>9, Zenon
<1>11. best \subseteq N
  OBVIOUS
<1> DEFINE chosenOne == CHOOSE k \in best : \A j \in best : k <= j
<1>12. Recovery!BestDirection(map, p) = Recovery!Directions[chosenOne]
  BY DEF Recovery!BestDirection, N
<1> HIDE DEF best, chosenOne
<1>13. chosenOne \in N
  BY <1>10, <1>11 DEF chosenOne
<1>14. QED BY <1>12, <1>13 DEF Recovery!DirectionSet, N

-----------------------------------------------------------------------------
(* How far the robot can be. *)

LEMMA Within ==
  ASSUME NEW x \in Int, NEW y \in Int, NEW d \in Nat, x * x + y * y < d * d
  PROVE  Recovery!Abs(x) <= d - 1 /\ Recovery!Abs(y) <= d - 1
<1>1. ASSUME NEW a \in Int, NEW b \in Int, a * a + b * b < d * d PROVE Recovery!Abs(a) <= d - 1
  <2> DEFINE n == Recovery!Abs(a)
             m == Recovery!Abs(b)
  <2>1. n \in Nat /\ m \in Nat /\ a * a = n * n /\ b * b = m * m
    BY DEF Recovery!Abs
  <2> HIDE DEF n, m
  <2>2. m * m \in Nat
    BY <2>1
  <2>3. n * n < d * d
    BY <1>1, <2>1, <2>2
  <2>4. CASE n >= d
    <3> PICK k \in Nat : n = d + k
      BY <2>1, <2>4
    <3>1. n * n = d * d + 2 * (d * k) + k * k
      OBVIOUS
    <3>2. d * k \in Nat /\ k * k \in Nat /\ d * d \in Nat
      OBVIOUS
    <3>3. QED BY <2>3, <3>1, <3>2
  <2>5. QED BY <2>1, <2>4 DEF n
<1>2. y * y + x * x < d * d
  <2>1. x * x \in Int /\ y * y \in Int
    OBVIOUS
  <2>2. QED BY <2>1
<1>3. QED BY <1>1, <1>2

(* What the chassis can still drive on the velocity it has. *)
Ahead == IF vel = Recovery!Zero THEN 0 ELSE DropAfter - silence

(* A velocity is dropped in time, and between two cycles of the run it has *)
(* been held for a cycle at least. *)
Held == vel # Recovery!Zero => silence < DropAfter /\ (phase # "sleep" => silence >= 1)

(* A cycle that waits has driven on only what its velocity was good for    *)
(* when the pose was read. *)
PoseIsNear ==
  phase = "wait" => \A axis \in {1, 2} : Recovery!Abs(pos[axis] - current[axis]) + Ahead <= DropAfter - 1

(* What the robot can still drive is within the bound as well. *)
Bounded ==
  \A axis \in {1, 2} :
    Recovery!Abs(pos[axis] - init_pos[axis]) + Ahead <= (Distance - 1) + (DropAfter - 1) + DropAfter

IInv == Recovery!TypeOK /\ Held /\ PoseIsNear /\ Bounded

Units == Recovery!DirectionSet \cup {Recovery!Zero}

LEMMA CellIs ==
  ASSUME Recovery!BackUpAssumption, NEW c \in Recovery!Cells
  PROVE  c[1] \in Int /\ c[2] \in Int
BY DEF Recovery!BackUpAssumption, Recovery!Cells

LEMMA UnitIs ==
  ASSUME NEW v \in Units
  PROVE  v[1] \in {-1, 0, 1} /\ v[2] \in {-1, 0, 1}
BY DirectionsAre DEF Units, Recovery!Zero

LEMMA RescaledIs ==
  ASSUME NEW d \in Recovery!DirectionSet, twist \in Units
  PROVE  Recovery!Rescaled(d) \in Units
<1>1. twist \in {<<1, 0>>, <<0, 1>>, <<-1, 0>>, <<0, -1>>, <<0, 0>>}
  BY DirectionsAre DEF Units, Recovery!Zero
<1>2. Recovery!Abs(twist[1]) \in {0, 1} /\ Recovery!Abs(twist[2]) \in {0, 1}
  BY <1>1 DEF Recovery!Abs
<1>3. d \in {<<1, 0>>, <<0, 1>>, <<-1, 0>>, <<0, -1>>}
  BY DirectionsAre
<1>4. Recovery!Rescaled(d) \in {<<1, 0>>, <<0, 1>>, <<-1, 0>>, <<0, -1>>, <<0, 0>>}
  BY <1>2, <1>3 DEF Recovery!Rescaled
<1>5. QED BY <1>4, DirectionsAre DEF Units, Recovery!Zero

LEMMA AheadIs ==
  ASSUME Recovery!BackUpAssumption, Recovery!TypeOK
  PROVE  Ahead \in 0 .. DropAfter /\ (Held /\ phase # "sleep" => Ahead <= DropAfter - 1)
<1>1. silence \in 0 .. DropAfter
  BY DEF Recovery!TypeOK
<1>2. DropAfter \in Nat \ {0}
  BY DEF Recovery!BackUpAssumption
<1>3. CASE vel = Recovery!Zero
  <2>1. Ahead = 0
    BY <1>3 DEF Ahead
  <2>2. QED BY <1>2, <2>1
<1>4. CASE vel # Recovery!Zero
  <2>1. Ahead = DropAfter - silence
    BY <1>4 DEF Ahead
  <2>2. Held /\ phase # "sleep" => silence >= 1
    BY <1>4 DEF Held
  <2>3. QED BY <1>1, <1>2, <2>1, <2>2
<1>5. QED BY <1>3, <1>4

LEMMA InitHolds ==
  ASSUME Recovery!BackUpAssumption
  PROVE  Recovery!Init => IInv
<1> SUFFICES ASSUME Recovery!Init PROVE IInv
  OBVIOUS
<1>1. Recovery!TypeOK
  <2>1. /\ world \in Maps /\ pos \in Recovery!Cells /\ init_pos \in Recovery!Cells /\ current \in Recovery!Cells
        /\ vel = Recovery!Zero /\ twist = Recovery!Zero /\ chosen = Recovery!Zero /\ silence = DropAfter
        /\ service = TRUE /\ in_flight = FALSE /\ has_dir = FALSE
        /\ requests = <<>> /\ latest = NoMap /\ phase = "idle" /\ elapsed = 0 /\ result = "none"
    BY DEF Recovery!Init
  <2>2. requests \in Seq({"onRun", "cycle"}) /\ Len(requests) <= MaxRequests
    BY <2>1 DEF Recovery!BackUpAssumption
  <2>3. silence \in 0 .. DropAfter /\ elapsed \in 0 .. TimeAllowance + 1
    BY <2>1 DEF Recovery!BackUpAssumption
  <2>4. QED BY <2>1, <2>2, <2>3 DEF Recovery!TypeOK
<1>2. Ahead = 0 /\ pos[1] \in Int /\ pos[2] \in Int
  BY CellIs DEF Recovery!Init, Ahead
<1>3. Held /\ PoseIsNear
  BY DEF Recovery!Init, Held, PoseIsNear
<1>4. Bounded
  BY <1>2 DEF Recovery!BackUpAssumption, Recovery!Init, Bounded, Recovery!Abs
<1>5. QED BY <1>1, <1>3, <1>4 DEF IInv

-----------------------------------------------------------------------------
(* Every step keeps the invariant. *)

(* What the bound needs of the state and of the constants, as arithmetic. *)
LEMMA Bounds ==
  ASSUME Recovery!BackUpAssumption, Recovery!TypeOK
  PROVE  /\ DropAfter \in Nat \ {0} /\ Distance \in Nat \ {0} /\ TimeAllowance \in Nat \ {0}
         /\ MaxRequests \in Nat
         /\ silence \in 0 .. DropAfter /\ elapsed \in 0 .. TimeAllowance + 1
         /\ \A axis \in {1, 2} : pos[axis] \in Int /\ init_pos[axis] \in Int /\ current[axis] \in Int
BY CellIs DEF Recovery!BackUpAssumption, Recovery!TypeOK

(* The robot and what it can drive do not change, nor does the run. *)
LEMMA Unmoved ==
  ASSUME Recovery!BackUpAssumption, IInv, Recovery!TypeOK',
         UNCHANGED <<Recovery!chassis, phase, init_pos, current>>
  PROVE  IInv'
<1>1. /\ vel' = vel /\ silence' = silence /\ pos' = pos
      /\ phase' = phase /\ init_pos' = init_pos /\ current' = current
  BY DEF Recovery!chassis
<1>2. Ahead' = Ahead
  BY <1>1 DEF Ahead
<1>3. Held' /\ PoseIsNear' /\ Bounded'
  BY <1>1, <1>2 DEF IInv, Held, PoseIsNear, Bounded
<1>4. QED BY <1>3 DEF IInv

(* The robot is stopped and the run ended. *)
LEMMA Stopped ==
  ASSUME Recovery!BackUpAssumption, IInv, Recovery!TypeOK',
         Recovery!StopRobot, phase' = "idle", UNCHANGED init_pos
  PROVE  IInv'
<1>1. vel' = Recovery!Zero /\ pos' = pos /\ init_pos' = init_pos
  BY DEF Recovery!StopRobot
<1>2. Ahead' = 0
  BY <1>1 DEF Ahead
<1>3. Held' /\ PoseIsNear'
  BY <1>1 DEF Held, PoseIsNear
<1>4. Ahead \in Nat
  BY AheadIs, Bounds DEF IInv
<1>5. \A axis \in {1, 2} : pos[axis] \in Int /\ init_pos[axis] \in Int
  BY Bounds DEF IInv
<1>6. \A axis \in {1, 2} : Recovery!Abs(pos[axis] - init_pos[axis]) \in Nat
  BY <1>5 DEF Recovery!Abs
<1>7. Bounded'
  <2>1. SUFFICES ASSUME NEW axis \in {1, 2}
                 PROVE  Recovery!Abs(pos'[axis] - init_pos'[axis]) + Ahead'
                          <= (Distance - 1) + (DropAfter - 1) + DropAfter
    BY DEF Bounded
  <2>2. Recovery!Abs(pos[axis] - init_pos[axis]) + Ahead <= (Distance - 1) + (DropAfter - 1) + DropAfter
    BY DEF IInv, Bounded
  <2>3. QED BY <1>1, <1>2, <1>4, <1>6, <2>2, Bounds DEF IInv
<1>8. QED BY <1>3, <1>7 DEF IInv

(* A request added to those there are. *)
LEMMA Requested ==
  ASSUME Recovery!BackUpAssumption, Recovery!TypeOK, Len(requests) < MaxRequests, NEW r \in {"onRun", "cycle"},
         requests' = Append(requests, r)
  PROVE  requests' \in Seq({"onRun", "cycle"}) /\ Len(requests') <= MaxRequests
<1>1. requests \in Seq({"onRun", "cycle"}) /\ MaxRequests \in Nat
  BY DEF Recovery!BackUpAssumption, Recovery!TypeOK
<1>2. QED BY <1>1

LEMMA OnRunHolds ==
  ASSUME Recovery!BackUpAssumption, IInv, NEW has_pose \in BOOLEAN, Recovery!OnRun(has_pose)
  PROVE  IInv'
<1> USE DEF IInv
<1>1. requests' \in Seq({"onRun", "cycle"}) /\ Len(requests') <= MaxRequests
  BY Requested DEF Recovery!OnRun
<1>2. /\ phase = "idle"
      /\ UNCHANGED <<world, service, latest, in_flight, Recovery!chassis, current, has_dir>>
  BY DEF Recovery!OnRun
<1>3. CASE latest = NoMap \/ ~has_pose
  <2>1. result' = "refused" /\ UNCHANGED <<phase, init_pos, twist, elapsed, chosen>>
    BY <1>3 DEF Recovery!OnRun
  <2>2. Recovery!TypeOK'
    BY <1>1, <1>2, <2>1 DEF Recovery!TypeOK, Recovery!chassis
  <2>3. QED BY <1>2, <2>1, <2>2, Unmoved
<1>4. CASE ~(latest = NoMap \/ ~has_pose)
  <2>1. /\ phase' = "cycle" /\ init_pos' = pos /\ elapsed' = 0 /\ UNCHANGED result
        /\ twist' = Recovery!BestDirection(latest, pos) /\ chosen' = Recovery!BestDirection(latest, pos)
    BY <1>4 DEF Recovery!OnRun
  <2>2. twist' \in Recovery!DirectionSet /\ chosen' \in Recovery!DirectionSet
    BY <2>1, BestIs
  <2>3. elapsed' \in 0 .. TimeAllowance + 1
    BY <2>1, Bounds
  <2>4. Recovery!TypeOK'
    BY <1>1, <1>2, <2>1, <2>2, <2>3 DEF Recovery!TypeOK, Recovery!chassis
  <2>5. vel' = vel /\ silence' = silence /\ pos' = pos /\ Ahead' = Ahead
    BY <1>2 DEF Recovery!chassis, Ahead
  <2>6. Held' /\ PoseIsNear'
    BY <1>2, <2>1, <2>5 DEF Held, PoseIsNear
  <2>7. Ahead \in 0 .. DropAfter
    BY AheadIs
  <2>8. \A axis \in {1, 2} : Recovery!Abs(pos'[axis] - init_pos'[axis]) = 0
    BY <2>1, <2>5, Bounds DEF Recovery!Abs
  <2>9. Bounded'
    BY <2>5, <2>7, <2>8, Bounds DEF Bounded
  <2>10. QED BY <2>4, <2>6, <2>9
<1>5. QED BY <1>3, <1>4

LEMMA TakePoseHolds ==
  ASSUME Recovery!BackUpAssumption, IInv, Recovery!TakePose
  PROVE  IInv'
<1> USE DEF IInv
<1>1. /\ phase = "cycle" /\ phase' = "wait" /\ current' = pos
      /\ pos' = pos /\ vel' = vel /\ silence' = silence /\ init_pos' = init_pos
      /\ UNCHANGED <<world, service, requests, latest, in_flight, twist, has_dir, elapsed, result, chosen>>
  BY DEF Recovery!TakePose, Recovery!chassis, Recovery!costmap
<1>2. Recovery!TypeOK'
  BY <1>1 DEF Recovery!TypeOK
<1>3. Ahead' = Ahead
  BY <1>1 DEF Ahead
<1>4. Ahead \in Int /\ Ahead <= DropAfter - 1
  BY <1>1, AheadIs, Bounds
<1>5. \A axis \in {1, 2} : Recovery!Abs(pos'[axis] - current'[axis]) = 0
  BY <1>1, Bounds DEF Recovery!Abs
<1>6. PoseIsNear'
  BY <1>3, <1>4, <1>5, Bounds DEF PoseIsNear
<1>7. Held' /\ Bounded'
  BY <1>1, <1>3 DEF Held, Bounded
<1>8. QED BY <1>2, <1>6, <1>7

(* A cycle that goes on has not come as far as commanded, along no axis. *)
LEMMA NotFar ==
  ASSUME Recovery!BackUpAssumption, Recovery!TypeOK, ~Recovery!FarEnough
  PROVE  \A axis \in {1, 2} : Recovery!Abs(current[axis] - init_pos[axis]) <= Distance - 1
<1>1. PICK a \in Int, b \in Int, x \in Int, y \in Int :
        a = init_pos[1] /\ b = init_pos[2] /\ x = current[1] /\ y = current[2]
  BY Bounds
<1>2. Distance \in Nat
  BY Bounds
<1>3. (a - x) * (a - x) + (b - y) * (b - y) < Distance * Distance
  <2>1. ~((a - x) * (a - x) + (b - y) * (b - y) >= Distance * Distance)
    BY <1>1 DEF Recovery!FarEnough, Recovery!DistanceSq
  <2>2. /\ (a - x) * (a - x) \in Int /\ (b - y) * (b - y) \in Int /\ Distance * Distance \in Int
    BY ONLY <1>2, a \in Int, b \in Int, x \in Int, y \in Int
  <2>3. QED BY ONLY <2>1, <2>2
<1>4. a - x \in Int /\ b - y \in Int
  OBVIOUS
<1>5. Recovery!Abs(a - x) <= Distance - 1 /\ Recovery!Abs(b - y) <= Distance - 1
  <2> DEFINE u == a - x
             v == b - y
  <2>1. u \in Int /\ v \in Int /\ u * u + v * v < Distance * Distance
    BY <1>3, <1>4
  <2> HIDE DEF u, v
  <2>2. Recovery!Abs(u) <= Distance - 1 /\ Recovery!Abs(v) <= Distance - 1
    BY <1>2, <2>1, Within
  <2>3. QED BY <2>2 DEF u, v
<1>6. Recovery!Abs(x - a) <= Distance - 1 /\ Recovery!Abs(y - b) <= Distance - 1
  BY <1>2, <1>5 DEF Recovery!Abs
<1>7. QED BY <1>1, <1>6

(* Two distances along an axis add up. *)
LEMMA Triangle ==
  ASSUME NEW a \in Int, NEW b \in Int, NEW c \in Int
  PROVE  Recovery!Abs(a - c) \in Nat /\ Recovery!Abs(a - c) <= Recovery!Abs(a - b) + Recovery!Abs(b - c)
BY DEF Recovery!Abs

LEMMA CycleHolds ==
  ASSUME Recovery!BackUpAssumption, IInv, Recovery!Cycle
  PROVE  IInv'
<1> USE DEF IInv
<1>1. /\ phase = "wait"
      /\ UNCHANGED <<world, service, latest, init_pos, current, elapsed>>
      /\ in_flight \/ Len(requests) < MaxRequests
      /\ Recovery!RequestCostmap
  BY DEF Recovery!Cycle
<1>2. requests' \in Seq({"onRun", "cycle"}) /\ Len(requests') <= MaxRequests /\ in_flight' \in BOOLEAN
  <2>1. CASE in_flight
    <3>1. requests' = requests /\ in_flight' = in_flight
      BY <1>1, <2>1 DEF Recovery!RequestCostmap
    <3>2. QED BY <3>1 DEF Recovery!TypeOK
  <2>2. CASE ~in_flight
    <3>1. requests' = Append(requests, "cycle") /\ in_flight' = TRUE /\ Len(requests) < MaxRequests
      BY <1>1, <2>2 DEF Recovery!RequestCostmap
    <3>2. QED BY <3>1, Requested
  <2>3. QED BY <2>1, <2>2
<1>3. CASE Recovery!Reached
  <2>1. Recovery!StopRobot /\ phase' = "idle" /\ result' = "reached" /\ UNCHANGED <<twist, has_dir, chosen>>
    BY <1>3 DEF Recovery!Cycle, Recovery!End
  <2>2. silence' \in 0 .. DropAfter /\ vel' = Recovery!Zero /\ pos' = pos
    BY <2>1, Bounds DEF Recovery!StopRobot
  <2>3. Recovery!TypeOK'
    BY <1>1, <1>2, <2>1, <2>2 DEF Recovery!TypeOK
  <2>4. QED BY <1>1, <2>1, <2>3, Stopped
<1>4. CASE ~Recovery!Reached
  <2>1. /\ vel' = twist' /\ silence' = 0 /\ phase' = "sleep" /\ pos' = pos /\ result' = result
        /\ IF has_dir THEN UNCHANGED <<twist, has_dir, chosen>>
           ELSE /\ twist' = Recovery!Rescaled(Recovery!BestDirection(latest, init_pos))
                /\ chosen' = Recovery!BestDirection(latest, init_pos) /\ has_dir' = TRUE
    BY <1>4, Zenon DEF Recovery!Cycle
  <2>2. twist' \in Units /\ chosen' \in Units /\ has_dir' \in BOOLEAN
    <3>1. CASE has_dir
      BY <2>1, <3>1 DEF Recovery!TypeOK, Units
    <3>2. CASE ~has_dir
      <4>1. Recovery!BestDirection(latest, init_pos) \in Recovery!DirectionSet
        BY BestIs
      <4>2. twist \in Units
        BY DEF Recovery!TypeOK, Units
      <4>3. /\ twist' = Recovery!Rescaled(Recovery!BestDirection(latest, init_pos))
            /\ chosen' = Recovery!BestDirection(latest, init_pos)
        BY <2>1, <3>2
      <4>4. Recovery!Rescaled(Recovery!BestDirection(latest, init_pos)) \in Units
        BY <4>1, <4>2, RescaledIs
      <4>5. QED BY <2>1, <3>2, <4>1, <4>3, <4>4 DEF Units
    <3>3. QED BY <3>1, <3>2
  <2>3. silence' \in 0 .. DropAfter
    BY <2>1, Bounds
  <2>4. Recovery!TypeOK'
    BY <1>1, <1>2, <2>1, <2>2, <2>3 DEF Recovery!TypeOK, Units
  <2>5. Held' /\ PoseIsNear'
    BY <2>1, Bounds DEF Held, PoseIsNear
  <2>6. Ahead' <= DropAfter /\ Ahead' \in Int /\ Ahead \in Nat
    BY <2>1, Bounds, AheadIs DEF Ahead
  <2>7. ASSUME NEW axis \in {1, 2}
        PROVE  Recovery!Abs(pos'[axis] - init_pos'[axis]) + Ahead'
                 <= (Distance - 1) + (DropAfter - 1) + DropAfter
    <3>1. /\ pos[axis] \in Int /\ current[axis] \in Int /\ init_pos[axis] \in Int
      BY Bounds
    <3>2. Recovery!Abs(current[axis] - init_pos[axis]) <= Distance - 1
      BY <1>4, NotFar DEF Recovery!Reached
    <3>3. Recovery!Abs(pos[axis] - current[axis]) + Ahead <= DropAfter - 1
      BY <1>1 DEF PoseIsNear
    <3>4. /\ Recovery!Abs(pos[axis] - init_pos[axis]) \in Nat
          /\ Recovery!Abs(pos[axis] - init_pos[axis])
               <= Recovery!Abs(pos[axis] - current[axis]) + Recovery!Abs(current[axis] - init_pos[axis])
      BY <3>1, Triangle
    <3>5. /\ Recovery!Abs(pos[axis] - current[axis]) \in Nat
          /\ Recovery!Abs(current[axis] - init_pos[axis]) \in Nat
      BY <3>1, Triangle
    <3>6. pos' = pos /\ init_pos' = init_pos
      BY <1>1, <2>1
    <3> DEFINE far == Recovery!Abs(pos[axis] - init_pos[axis])
               drift == Recovery!Abs(pos[axis] - current[axis])
               gone == Recovery!Abs(current[axis] - init_pos[axis])
    <3>7. Recovery!Abs(pos'[axis] - init_pos'[axis]) = far
      BY <3>6
    <3>8. /\ far \in Nat /\ drift \in Nat /\ gone \in Nat
          /\ gone <= Distance - 1 /\ drift + Ahead <= DropAfter - 1 /\ far <= drift + gone
      BY <3>2, <3>3, <3>4, <3>5
    <3> HIDE DEF far, drift, gone
    <3>9. QED BY <2>6, <3>7, <3>8, Bounds
  <2>8. Bounded'
    BY <2>7 DEF Bounded
  <2>9. QED BY <2>4, <2>5, <2>8
<1>5. QED BY <1>3, <1>4

LEMMA PassTimeHolds ==
  ASSUME Recovery!BackUpAssumption, IInv, Recovery!PassTime
  PROVE  IInv'
<1> USE DEF IInv
<1>1. /\ UNCHANGED <<world, service, requests, latest, in_flight, init_pos, current, twist, has_dir>>
      /\ UNCHANGED <<result, chosen>>
      /\ pos' \in {pos, Recovery!Plus(pos, vel)} /\ pos' \in Recovery!Cells
      /\ silence' = IF silence < DropAfter THEN silence + 1 ELSE silence
      /\ vel' = IF silence' = DropAfter THEN Recovery!Zero ELSE vel
      /\ elapsed' = IF phase # "idle" /\ elapsed <= TimeAllowance THEN elapsed + 1 ELSE elapsed
      /\ phase' = IF phase = "sleep" THEN "cycle" ELSE phase
  BY DEF Recovery!PassTime, Recovery!costmap
<1>2. silence' \in 0 .. DropAfter /\ elapsed' \in 0 .. TimeAllowance + 1
  BY <1>1, Bounds
<1>3. Recovery!TypeOK'
  <2>1. vel' \in Recovery!DirectionSet \cup {Recovery!Zero} /\ phase' \in {"idle", "cycle", "wait", "sleep"}
    BY <1>1 DEF Recovery!TypeOK
  <2>2. QED BY <1>1, <1>2, <2>1 DEF Recovery!TypeOK
<1>4. Held'
  <2>1. ASSUME vel' # Recovery!Zero PROVE silence' < DropAfter /\ silence' >= 1
    BY <1>1, <1>2, <2>1, Bounds DEF Held
  <2>2. QED BY <2>1 DEF Held
<1>5. CASE vel = Recovery!Zero
  <2>1. \A axis \in {1, 2} : pos'[axis] = pos[axis]
    BY <1>1, <1>5, Bounds DEF Recovery!Plus, Recovery!Zero
  <2>2. vel' = Recovery!Zero /\ Ahead' = 0 /\ Ahead = 0
    BY <1>1, <1>5 DEF Ahead
  <2>3. phase' = "wait" => phase = "wait"
    BY <1>1
  <2>4. QED BY <1>1, <1>3, <1>4, <2>1, <2>2, <2>3 DEF PoseIsNear, Bounded
<1>6. CASE vel # Recovery!Zero
  <2>1. Ahead' = Ahead - 1
    <3>1. silence < DropAfter /\ silence' = silence + 1 /\ Ahead = DropAfter - silence
      BY <1>1, <1>6 DEF Held, Ahead
    <3>2. CASE silence' = DropAfter
      BY <1>1, <3>1, <3>2, Bounds DEF Ahead
    <3>3. CASE silence' # DropAfter
      BY <1>1, <1>6, <3>1, <3>3, Bounds DEF Ahead
    <3>4. QED BY <3>2, <3>3
  <2>2. Ahead \in Int /\ Ahead' \in Int
    BY <2>1, AheadIs, Bounds
  <2>3. \A axis \in {1, 2} : pos'[axis] \in Int /\ Recovery!Abs(pos'[axis] - pos[axis]) <= 1
    <3>1. vel[1] \in {-1, 0, 1} /\ vel[2] \in {-1, 0, 1}
      BY UnitIs DEF Recovery!TypeOK, Units
    <3>2. \A axis \in {1, 2} : pos'[axis] = pos[axis] \/ pos'[axis] = pos[axis] + vel[axis]
      BY <1>1 DEF Recovery!Plus
    <3>3. QED BY <3>1, <3>2, Bounds DEF Recovery!Abs
  <2>4. ASSUME NEW axis \in {1, 2}, NEW from \in Int
        PROVE  Recovery!Abs(pos'[axis] - from) + Ahead' <= Recovery!Abs(pos[axis] - from) + Ahead
    <3> PICK p \in Int, q \in Int : p = pos[axis] /\ q = pos'[axis]
      BY <2>3, Bounds
    <3>1. /\ Recovery!Abs(q - from) <= Recovery!Abs(q - p) + Recovery!Abs(p - from)
          /\ Recovery!Abs(q - from) \in Nat /\ Recovery!Abs(q - p) \in Nat /\ Recovery!Abs(p - from) \in Nat
      BY Triangle
    <3>2. Recovery!Abs(q - p) <= 1
      BY <2>3
    <3> DEFINE qf == Recovery!Abs(q - from)
               qp == Recovery!Abs(q - p)
               pf == Recovery!Abs(p - from)
    <3>3. qf \in Nat /\ qp \in Nat /\ pf \in Nat /\ qf <= qp + pf /\ qp <= 1
      BY <3>1, <3>2
    <3>4. Recovery!Abs(pos'[axis] - from) = qf /\ Recovery!Abs(pos[axis] - from) = pf
      OBVIOUS
    <3> HIDE DEF qf, qp, pf
    <3>5. qf + Ahead' <= pf + Ahead
      BY <2>1, <2>2, <3>3
    <3>6. QED BY <3>4, <3>5
  <2>5. ASSUME NEW axis \in {1, 2}, NEW from \in Int, NEW most \in Int,
               Recovery!Abs(pos[axis] - from) + Ahead <= most
        PROVE  Recovery!Abs(pos'[axis] - from) + Ahead' <= most
    <3>1. Recovery!Abs(pos[axis] - from) \in Int /\ Recovery!Abs(pos'[axis] - from) \in Int
      BY <2>3, Bounds DEF Recovery!Abs
    <3>2. Recovery!Abs(pos'[axis] - from) + Ahead' <= Recovery!Abs(pos[axis] - from) + Ahead
      BY <2>4
    <3> HIDE DEF IInv
    <3>3. QED BY ONLY <2>2, <2>5, <3>1, <3>2
  <2>6. PoseIsNear'
    <3>1. ASSUME phase' = "wait", NEW axis \in {1, 2}
          PROVE  Recovery!Abs(pos'[axis] - current'[axis]) + Ahead' <= DropAfter - 1
      <4>1. phase = "wait" /\ current' = current
        BY <1>1, <3>1
      <4>2. Recovery!Abs(pos[axis] - current[axis]) + Ahead <= DropAfter - 1
        BY <4>1 DEF PoseIsNear
      <4>3. current[axis] \in Int /\ DropAfter - 1 \in Int
        BY Bounds
      <4>4. QED BY <2>5, <4>1, <4>2, <4>3
    <3>2. QED BY <3>1 DEF PoseIsNear
  <2>7. Bounded'
    <3>1. ASSUME NEW axis \in {1, 2}
          PROVE  Recovery!Abs(pos'[axis] - init_pos'[axis]) + Ahead'
                   <= (Distance - 1) + (DropAfter - 1) + DropAfter
      <4> DEFINE most == (Distance - 1) + (DropAfter - 1) + DropAfter
      <4>1. Recovery!Abs(pos[axis] - init_pos[axis]) + Ahead <= most
        BY DEF Bounded
      <4>2. init_pos[axis] \in Int /\ most \in Int /\ init_pos' = init_pos
        BY <1>1, Bounds
      <4> HIDE DEF most
      <4>3. Recovery!Abs(pos'[axis] - init_pos[axis]) + Ahead' <= most
        BY <2>5, <4>1, <4>2
      <4>4. QED BY <4>2, <4>3 DEF most
    <3>2. QED BY <3>1 DEF Bounded
  <2>8. QED BY <1>3, <1>4, <2>6, <2>7
<1>7. QED BY <1>5, <1>6

(* The server answers, goes away or comes back; the robot is left alone. *)
LEMMA ServiceHolds ==
  ASSUME Recovery!BackUpAssumption, IInv,
         Recovery!Answer \/ Recovery!ServiceDown \/ Recovery!ServiceUp \/ Recovery!WorldChanges
  PROVE  IInv'
<1>1. Recovery!TypeOK'
  <2> USE DEF IInv
  <2>1. CASE Recovery!Answer
    <3>1. requests \in Seq({"onRun", "cycle"}) /\ requests # <<>> /\ Len(requests) <= MaxRequests
      BY <2>1 DEF Recovery!Answer, Recovery!TypeOK
    <3>2. requests' = Tail(requests)
      BY <2>1 DEF Recovery!Answer
    <3>3. requests' \in Seq({"onRun", "cycle"}) /\ Len(requests') <= MaxRequests
      BY <3>1, <3>2, Bounds
    <3>4. in_flight' \in BOOLEAN
      BY <2>1 DEF Recovery!Answer, Recovery!TypeOK
    <3>5. QED BY <2>1, <3>3, <3>4 DEF Recovery!Answer, Recovery!TypeOK, Recovery!chassis, Recovery!run
  <2>2. CASE Recovery!ServiceDown
    <3>1. requests' \in Seq({"onRun", "cycle"}) /\ Len(requests') <= MaxRequests
      BY <2>2, Bounds DEF Recovery!ServiceDown
    <3>2. QED BY <2>2, <3>1 DEF Recovery!ServiceDown, Recovery!TypeOK, Recovery!chassis, Recovery!run
  <2>3. CASE Recovery!ServiceUp
    BY <2>3 DEF Recovery!ServiceUp, Recovery!TypeOK, Recovery!costmap, Recovery!chassis, Recovery!run
  <2>4. CASE Recovery!WorldChanges
    BY <2>4 DEF Recovery!WorldChanges, Recovery!TypeOK, Recovery!costmap, Recovery!chassis, Recovery!run
  <2>5. QED BY <2>1, <2>2, <2>3, <2>4
<1>2. UNCHANGED <<Recovery!chassis, phase, init_pos, current>>
  BY DEF Recovery!Answer, Recovery!ServiceDown, Recovery!ServiceUp, Recovery!WorldChanges, Recovery!run
<1>3. QED BY <1>1, <1>2, Unmoved

(* A run that ends in front of its cycle. *)
LEMMA EndHolds ==
  ASSUME Recovery!BackUpAssumption, IInv, Recovery!TimeOut \/ Recovery!Cancel \/ Recovery!LosePose
  PROVE  IInv'
<1> USE DEF IInv
<1>1. CASE Recovery!TimeOut \/ Recovery!Cancel
  <2>1. /\ Recovery!StopRobot /\ phase' = "idle" /\ result' \in {"timeout", "canceled"}
        /\ UNCHANGED <<world, service, Recovery!costmap, init_pos, current, twist, has_dir, elapsed, chosen>>
    BY <1>1 DEF Recovery!TimeOut, Recovery!Cancel, Recovery!End
  <2>2. silence' \in 0 .. DropAfter /\ vel' = Recovery!Zero /\ pos' = pos
    BY <2>1, Bounds DEF Recovery!StopRobot
  <2>3. Recovery!TypeOK'
    BY <2>1, <2>2 DEF Recovery!TypeOK, Recovery!costmap
  <2>4. QED BY <2>1, <2>3, Stopped
<1>2. CASE Recovery!LosePose
  <2>1. /\ phase = "cycle" /\ phase' = "idle" /\ result' = "pose lost"
        /\ UNCHANGED <<world, service, Recovery!costmap, Recovery!chassis, init_pos, current, twist, has_dir>>
        /\ UNCHANGED <<elapsed, chosen>>
    BY <1>2 DEF Recovery!LosePose, Recovery!End
  <2>2. Recovery!TypeOK'
    BY <2>1 DEF Recovery!TypeOK, Recovery!costmap, Recovery!chassis
  <2>3. Ahead' = Ahead /\ pos' = pos /\ vel' = vel /\ silence' = silence
    BY <2>1 DEF Ahead, Recovery!chassis
  <2>4. Held' /\ PoseIsNear' /\ Bounded'
    BY <2>1, <2>3 DEF Held, PoseIsNear, Bounded
  <2>5. QED BY <2>2, <2>4
<1>3. QED BY <1>1, <1>2

LEMMA StepHolds ==
  ASSUME Recovery!BackUpAssumption
  PROVE  IInv /\ [Recovery!Next]_recoveryVars => IInv'
<1> SUFFICES ASSUME IInv, [Recovery!Next]_recoveryVars PROVE IInv'
  OBVIOUS
<1>1. CASE \E has_pose \in BOOLEAN : Recovery!OnRun(has_pose)
  BY <1>1, OnRunHolds
<1>2. CASE Recovery!Behave
  BY <1>2, EndHolds, TakePoseHolds, CycleHolds DEF Recovery!Behave
<1>3. CASE Recovery!Cancel
  BY <1>3, EndHolds
<1>4. CASE Recovery!Answer \/ Recovery!ServiceDown \/ Recovery!ServiceUp \/ Recovery!WorldChanges
  BY <1>4, ServiceHolds
<1>5. CASE Recovery!PassTime
  BY <1>5, PassTimeHolds
<1>6. CASE UNCHANGED recoveryVars
  <2>1. Recovery!TypeOK'
    BY <1>6 DEF IInv, Recovery!TypeOK, recoveryVars, Recovery!costmap, Recovery!chassis, Recovery!run
  <2>2. UNCHANGED <<Recovery!chassis, phase, init_pos, current>>
    BY <1>6 DEF recoveryVars, Recovery!chassis, Recovery!run
  <2>3. QED BY <2>1, <2>2, Unmoved
<1>7. QED BY <1>1, <1>2, <1>3, <1>4, <1>5, <1>6 DEF Recovery!Next

LEMMA StaysNear ==
  ASSUME Recovery!BackUpAssumption
  PROVE  IInv => Recovery!TravelBounded
<1> SUFFICES ASSUME IInv, NEW axis \in {1, 2}
             PROVE  Recovery!Abs(pos[axis] - init_pos[axis]) <= (Distance - 1) + (DropAfter - 1) + DropAfter
  BY DEF Recovery!TravelBounded
<1>1. Recovery!Abs(pos[axis] - init_pos[axis]) + Ahead <= (Distance - 1) + (DropAfter - 1) + DropAfter
  BY DEF IInv, Bounded
<1>2. Ahead \in Nat /\ Recovery!Abs(pos[axis] - init_pos[axis]) \in Int
  BY AheadIs, Bounds DEF IInv, Recovery!Abs
<1>3. QED BY <1>1, <1>2, Bounds DEF IInv

-----------------------------------------------------------------------------
(* The state of the behaviour, of the costmap requests and of the chassis  *)
(* keeps its type; the velocity that onCycleUpdate scales again stays one   *)
(* of the sampled directions or zero. *)
THEOREM TypeCorrect == Recovery!Init /\ [][Recovery!Next]_recoveryVars => []Recovery!TypeOK
<1>1. Recovery!Init => IInv
  BY RecoveryAssumption, InitHolds
<1>2. IInv /\ [Recovery!Next]_recoveryVars => IInv'
  BY RecoveryAssumption, StepHolds
<1>3. IInv => Recovery!TypeOK
  BY DEF IInv
<1>4. QED BY <1>1, <1>2, <1>3, PTL

(* On no path of its runs, with a costmap service that goes away and        *)
(* answers late, does onCycleUpdate let the robot come further along an     *)
(* axis than the commanded distance and the two stretches on which nobody   *)
(* looks at the pose: the wait for the service and the time the chassis     *)
(* holds a velocity. *)
THEOREM RunStaysNear == CostmapSpec => []TravelBounded
<1>1. CostmapInit => IInv
  BY RecoveryAssumption, InitHolds DEF CostmapInit
<1>2. IInv /\ [CostmapNext]_<<part, layerVars, recoveryVars>> => IInv'
  <2> SUFFICES ASSUME IInv, [CostmapNext]_<<part, layerVars, recoveryVars>> PROVE IInv'
    OBVIOUS
  <2>1. [Recovery!Next]_recoveryVars
    BY DEF CostmapNext
  <2>2. QED BY <2>1, RecoveryAssumption, StepHolds
<1>3. IInv => TravelBounded
  BY RecoveryAssumption, StaysNear DEF TravelBounded
<1>4. QED BY <1>1, <1>2, <1>3, PTL DEF CostmapSpec
=============================================================================
