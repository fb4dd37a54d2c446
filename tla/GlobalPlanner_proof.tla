-------------------------- MODULE GlobalPlanner_proof --------------------------
(***************************************************************************)
(* The nodes of the search form a tree under the start, on every costmap   *)
(* whatever the lowered keys do to the order of the queue, and the path    *)
(* read from it touches no obstacle.  A path that is kept is safe on the   *)
(* costmap it is given out on and leads to the present goal, for every     *)
(* costmap, path and radius, however long it has been kept.                *)
(***************************************************************************)
EXTENDS MCGlobalPlanner, FiniteSetTheorems, SequenceTheorems, WellFoundedInduction, TLAPS

(* Induction on a set, and what it gives for a function defined by recursion. *)
LEMMA LeastMember ==
  ASSUME NEW T, T \subseteq Nat, T # {}
  PROVE  \E x \in T : \A y \in T : ~(y < x)
<1> DEFINE R == OpToRel(<, Nat)
<1>1. IsWellFoundedOn(R, Nat)
  BY NatLessThanWellFounded
<1>2. \E x \in T : \A y \in T : ~(<<y, x>> \in R)
  <2> HIDE DEF R
  <2> QED BY <1>1, WFMin, Zenon
<1>3. PICK x \in T : \A y \in T : ~(<<y, x>> \in R)
  BY <1>2
<1>4. ASSUME NEW y \in T, y < x PROVE FALSE
  <2>1. <<y, x>> \in Nat \X Nat
    OBVIOUS
  <2>2. <<y, x>> \in R
    BY <2>1, <1>4 DEF OpToRel
  <2>3. QED BY <1>3, <2>2
<1>5. QED BY <1>4

LEMMA SetInduction ==
  ASSUME NEW S, 0 \in S, \A n \in Nat : n \in S => n + 1 \in S
  PROVE  Nat \subseteq S
<1> DEFINE T == Nat \ S
<1> SUFFICES ASSUME T # {} PROVE FALSE
  OBVIOUS
<1>1. T \subseteq Nat
  OBVIOUS
<1> HIDE DEF T
<1>2. PICK x \in T : \A y \in T : ~(y < x)
  BY <1>1, LeastMember
<1>3. x \in Nat \ S /\ x # 0
  BY DEF T
<1>4. x - 1 \in Nat /\ x - 1 < x
  BY <1>3
<1>5. x - 1 \in S
  BY <1>2, <1>4 DEF T
<1>6. (x - 1) + 1 \in S
  BY <1>4, <1>5
<1>7. QED BY <1>3, <1>6

(* The first N steps of the recursion by F from v0, on values in V. *)
Steps(f, N, V, v0, F) ==
  f \in [0 .. N -> V] /\ f[0] = v0 /\ \A n \in 1 .. N : f[n] = F[n][f[n - 1]]

StaysIn(F, V) == \A n \in Nat : \A v \in V : F[n][v] \in V

LEMMA Recursion ==
  \A V, v0, F : v0 \in V /\ StaysIn(F, V) => \A N \in Nat : \E f : Steps(f, N, V, v0, F)
<1> SUFFICES ASSUME NEW V, NEW v0 \in V, NEW F, StaysIn(F, V)
             PROVE  \A N \in Nat : \E f : Steps(f, N, V, v0, F)
  BY Zenon
<1> DEFINE S == {N \in Nat : \E f : Steps(f, N, V, v0, F)}
<1>1. 0 \in S
  <2> DEFINE f == [n \in 0 .. 0 |-> v0]
  <2>1. Steps(f, 0, V, v0, F)
    BY DEF Steps
  <2>2. QED BY <2>1
<1>2. ASSUME NEW N \in Nat, N \in S PROVE N + 1 \in S
  <2>1. PICK f : Steps(f, N, V, v0, F)
    BY <1>2
  <2> DEFINE h == [n \in 0 .. N + 1 |-> IF n = N + 1 THEN F[N + 1][f[N]] ELSE f[n]]
  <2>2. F[N + 1][f[N]] \in V
    BY <2>1 DEF Steps, StaysIn
  <2>3. ASSUME NEW n \in 0 .. N PROVE h[n] = f[n]
    BY <2>1
  <2>4. h[N + 1] = F[N + 1][f[N]] /\ h \in [0 .. N + 1 -> V]
    BY <2>1, <2>2 DEF Steps
  <2> HIDE DEF h
  <2>5. ASSUME NEW n \in 1 .. N + 1 PROVE h[n] = F[n][h[n - 1]]
    <3>1. n - 1 \in 0 .. N
      OBVIOUS
    <3>2. CASE n = N + 1
      BY <3>1, <3>2, <2>3, <2>4
    <3>3. CASE n # N + 1
      <4>1. n \in 1 .. N
        BY <3>3
      <4>2. QED BY <3>1, <4>1, <2>1, <2>3 DEF Steps
    <3>4. QED BY <3>2, <3>3
  <2>6. h[0] = v0
    BY <2>1, <2>3 DEF Steps
  <2>7. Steps(h, N + 1, V, v0, F)
    BY <2>4, <2>5, <2>6 DEF Steps
  <2>8. N + 1 \in Nat
    OBVIOUS
  <2>9. QED BY <2>7, <2>8
<1> HIDE DEF S
<1>3. Nat \subseteq S
  BY <1>1, <1>2, SetInduction
<1>4. QED BY <1>3 DEF S

-----------------------------------------------------------------------------
(* The reuse: cells and their distances. *)

LEMMA SquareIs ==
  ASSUME NEW n \in Int
  PROVE  n * n \in Nat
<1>1. CASE n >= 0
  BY <1>1
<1>2. CASE n < 0
  <2> DEFINE m == -n
  <2>1. m \in Nat /\ n * n = m * m
    BY <1>2
  <2> HIDE DEF m
  <2>2. QED BY <2>1
<1>3. QED BY <1>1, <1>2

LEMMA CellIs ==
  ASSUME NEW c \in ReuseCells
  PROVE  c[1] \in Int /\ c[2] \in Int
BY MCAssumption DEF Reuse!PlannerAssumption

LEMMA DistanceIs ==
  ASSUME NEW c \in ReuseCells, NEW d \in ReuseCells
  PROVE  /\ Reuse!Squared(c, d) \in Nat
         /\ Reuse!Squared(c, d) = Reuse!Squared(d, c) /\ Reuse!Squared(c, c) = 0
         /\ Reuse!RingOf(c, d) = Reuse!RingOf(d, c) /\ Reuse!RingOf(c, c) = 0
<1>1. PICK x \in Int, y \in Int : c[1] = x /\ c[2] = y
  BY CellIs, Zenon
<1>2. PICK u \in Int, v \in Int : d[1] = u /\ d[2] = v
  BY CellIs, Zenon
<1>3. /\ (x - u) * (x - u) \in Nat /\ (y - v) * (y - v) \in Nat
      /\ (x - u) * (x - u) = (u - x) * (u - x) /\ (y - v) * (y - v) = (v - y) * (v - y)
  <2>1. x - u \in Int /\ y - v \in Int
    OBVIOUS
  <2>2. QED BY <2>1, SquareIs
<1>4. Reuse!Squared(c, d) \in Nat /\ Reuse!Squared(c, d) = Reuse!Squared(d,
    c) /\ Reuse!Squared(c, c) = 0
  BY <1>1, <1>2, <1>3 DEF Reuse!Squared
<1>5. Reuse!RingOf(c, d) = Reuse!RingOf(d, c) /\ Reuse!RingOf(c, c) = 0
  BY <1>1, <1>2 DEF Reuse!RingOf, Reuse!Abs
<1>6. QED BY <1>4, <1>5

LEMMA FreeCellIs ==
  ASSUME NEW c \in ReuseCells, NEW d \in Reuse!FreeCell(c)
  PROVE  d \in ReuseCells /\ Reuse!RingOf(d, c) <= ReuseRadius
<1>1. CASE Reuse!IsSafe(c)
  <2>1. d = c
    BY <1>1 DEF Reuse!FreeCell
  <2>2. Reuse!RingOf(c, c) = 0
    BY DistanceIs
  <2>3. QED BY <2>1, <2>2, MCAssumption DEF Reuse!PlannerAssumption
<1>2. CASE ~Reuse!IsSafe(c)
  <2>1. d \in ReuseCells /\ Reuse!RingOf(c, d) <= ReuseRadius
    BY <1>2, Zenon DEF Reuse!FreeCell
  <2>2. Reuse!RingOf(c, d) = Reuse!RingOf(d, c)
    BY <2>1, DistanceIs
  <2>3. QED BY <2>1, <2>2
<1>3. QED BY <1>1, <1>2

-----------------------------------------------------------------------------
(* The segment nearest to the robot. *)

PlanTypes ==
  /\ Reuse!TypeOK
  /\ last_path \in Seq(ReuseCells) /\ path \in Seq(ReuseCells)

LEMMA SegmentIs ==
  ASSUME PlanTypes, Reuse!HasLastPath
  PROVE  /\ Reuse!NearestSegment \in 1 .. Len(last_path) - 1
         /\ Reuse!Projection(Reuse!NearestSegment) \in 1 .. Len(last_path)
<1> DEFINE S == Reuse!SearchBegin .. Len(last_path) - 1
           N == Len(last_path)
<1>1. N \in Nat /\ N >= 2 /\ progress \in Nat /\ \A i \in 1 .. N : last_path[i] \in ReuseCells
  BY DEF PlanTypes, Reuse!TypeOK, Reuse!HasLastPath
<1>2. S \subseteq 1 .. N - 1 /\ S # {} /\ Reuse!SearchBegin \in Nat /\ Reuse!SearchBegin \in S
  BY <1>1 DEF Reuse!SearchBegin
<1>3. \A i \in S : Reuse!Projection(i) \in 1 .. N /\ Reuse!DeviationFrom(i) \in Nat
  <2> TAKE i \in S
  <2>1. i \in 1 .. N - 1
    BY <1>2
  <2>2. Reuse!Projection(i) \in {i, i + 1}
    BY DEF Reuse!Projection
  <2>3. Reuse!Projection(i) \in 1 .. N
    BY <1>1, <2>1, <2>2
  <2>4. last_path[Reuse!Projection(i)] \in ReuseCells /\ robot \in ReuseCells
    BY <1>1, <2>3 DEF PlanTypes, Reuse!TypeOK
  <2>5. QED BY <2>3, <2>4, DistanceIs DEF Reuse!DeviationFrom
<1> DEFINE T == {Reuse!DeviationFrom(i) : i \in S}
<1>4. T \subseteq Nat /\ T # {}
  BY <1>2, <1>3
<1>5. PICK m \in T : \A y \in T : ~(y < m)
  <2> HIDE DEF T
  <2>1. QED BY <1>4, LeastMember
<1> DEFINE I == {i \in S : Reuse!DeviationFrom(i) = m}
<1>6. I \subseteq Nat /\ I # {}
  BY <1>1, <1>2
<1>7. PICK i \in I : \A y \in I : ~(y < i)
  <2> HIDE DEF I
  <2>1. QED BY <1>6, LeastMember
<1>8. /\ i \in S /\ i \in Nat
      /\ \A j \in i .. N - 1 : Reuse!DeviationFrom(i) <= Reuse!DeviationFrom(j)
      /\ \A j \in Reuse!SearchBegin .. i - 1 : Reuse!DeviationFrom(i) < Reuse!DeviationFrom(j)
  <2>1. i \in S /\ i \in Nat /\ Reuse!DeviationFrom(i) = m /\ m \in Nat
    BY <1>4, <1>6
  <2>2. ASSUME NEW j \in S
        PROVE  /\ Reuse!DeviationFrom(i) <= Reuse!DeviationFrom(j)
               /\ j < i => Reuse!DeviationFrom(i) < Reuse!DeviationFrom(j)
    <3>1. Reuse!DeviationFrom(j) \in Nat /\ Reuse!DeviationFrom(j) \in T /\ j \in Nat
      <4>1. j \in Nat
        BY <1>1, <1>2
      <4>2. Reuse!DeviationFrom(j) \in Nat
        BY <1>3, Zenon
      <4>3. Reuse!DeviationFrom(j) \in T
        BY Zenon
      <4>4. QED BY <4>1, <4>2, <4>3
    <3>2. ~(Reuse!DeviationFrom(j) < m)
      BY <1>5, <3>1
    <3>3. j < i => Reuse!DeviationFrom(j) # m
      BY <1>7
    <3>4. QED BY <2>1, <3>1, <3>2, <3>3
  <2>3. (\A j \in i .. N - 1 : j \in S) /\ \A j \in Reuse!SearchBegin .. i - 1 : j \in S /\ j < i
    BY <1>1, <1>2, <2>1
  <2>4. QED BY <2>1, <2>2, <2>3
<1>9. Reuse!NearestSegment \in S
  <2> HIDE DEF I, T
  <2>1. \E k \in Reuse!SearchBegin .. Len(last_path) - 1 :
          /\ \A j \in k .. Len(last_path) - 1 : Reuse!DeviationFrom(k) <= Reuse!DeviationFrom(j)
          /\ \A j \in Reuse!SearchBegin .. k - 1 : Reuse!DeviationFrom(k) < Reuse!DeviationFrom(j)
    BY <1>8, Zenon
  <2>2. QED BY <2>1, Zenon DEF Reuse!NearestSegment
<1>10. QED BY <1>2, <1>3, <1>9

(* What is kept of the last path ends where that path does. *)
LEMMA RestIs ==
  ASSUME NEW s \in Seq(ReuseCells), NEW n \in 1 .. Len(s)
  PROVE  /\ SubSeq(s, n, Len(s)) \in Seq(ReuseCells)
         /\ SubSeq(s, n, Len(s))[Len(SubSeq(s, n, Len(s)))] = s[Len(s)]
<1> DEFINE t == SubSeq(s, n, Len(s))
<1>1. t \in Seq(ReuseCells) /\ Len(t) = Len(s) - n + 1
  OBVIOUS
<1>2. \A i \in 1 .. Len(s) - n + 1 : t[i] = s[n + i - 1]
  OBVIOUS
<1>3. Len(s) - n + 1 \in 1 .. Len(s) - n + 1 /\ n + (Len(s) - n + 1) - 1 = Len(s)
  OBVIOUS
<1> HIDE DEF t
<1>4. t[Len(t)] = s[Len(s)]
  BY <1>1, <1>2, <1>3
<1>5. QED BY <1>1, <1>4 DEF t

-----------------------------------------------------------------------------
(* The inductive invariant: the last path ends beside the goal it was      *)
(* planned for. *)
EndsAtGoal == last_path # <<>> => Reuse!RingOf(last_path[Len(last_path)], last_goal) <= ReuseRadius

ReuseInv == PlanTypes /\ EndsAtGoal /\ KeptPathIsSafe

LEMMA InitHolds == Reuse!Init => ReuseInv
<1> SUFFICES ASSUME Reuse!Init PROVE ReuseInv
  OBVIOUS
<1>1. Reuse!TypeOK
  <2>1. known \in ReuseMaps /\ robot \in ReuseCells /\ goal \in ReuseCells /\ last_goal \in ReuseCells
    BY MCAssumption DEF Reuse!PlannerAssumption, Reuse!Init
  <2>2. last_path = <<>> /\ path = <<>> /\ progress = 0 /\ changes \in 0 .. MaxChanges
    BY MCAssumption DEF Reuse!PlannerAssumption, Reuse!Init
  <2>3. reused \in BOOLEAN /\ fresh \in BOOLEAN
    BY DEF Reuse!Init
  <2>4. DOMAIN <<>> = {}
    OBVIOUS
  <2>5. \A p \in {last_path, path} : DOMAIN p = {}
    BY <2>2, <2>4
  <2>6. QED BY <2>1, <2>2, <2>3, <2>5 DEF Reuse!TypeOK
<1>2. QED BY <1>1 DEF Reuse!Init, ReuseInv, PlanTypes, EndsAtGoal, KeptPathIsSafe,
    Reuse!KeptPathIsSafe

(* A new path that is not empty ends beside the goal. *)
LEMMA NewPathIs ==
  ASSUME PlanTypes, NEW new \in Reuse!NewPaths, new # <<>>
  PROVE  new \in Seq(ReuseCells) /\ Reuse!RingOf(new[Len(new)], goal) <= ReuseRadius
<1>1. new \in Reuse!FoundPaths
  BY DEF Reuse!NewPaths
<1>2. PICK a \in Reuse!FreeCell(robot), b \in Reuse!FreeCell(goal) : new \in Paths[<<a, b>>]
  <2>1. PICK e \in Reuse!FreeCell(robot) \X Reuse!FreeCell(goal) : new \in Paths[e]
    BY <1>1, SMT DEF Reuse!FoundPaths
  <2>2. PICK a \in Reuse!FreeCell(robot), b \in Reuse!FreeCell(goal) : e = <<a, b>>
    OBVIOUS
  <2>3. QED BY <2>1, <2>2
<1>3. robot \in ReuseCells /\ goal \in ReuseCells
  BY DEF PlanTypes, Reuse!TypeOK
<1>4. a \in ReuseCells /\ b \in ReuseCells /\ Reuse!RingOf(b, goal) <= ReuseRadius
  BY <1>3, FreeCellIs
<1>5. <<a, b>> \in ReuseCells \X ReuseCells
  BY <1>4
<1>6. new \in Seq(ReuseCells) /\ new[Len(new)] = b
  <2>1. Paths[<<a, b>>] \subseteq Seq(ReuseCells)
    BY <1>5, MCAssumption DEF Reuse!PlannerAssumption
  <2>2. new[Len(new)] = <<a, b>>[2]
    BY <1>2, <1>5, MCAssumption DEF Reuse!PlannerAssumption
  <2>3. QED BY <1>2, <2>1, <2>2
<1>7. QED BY <1>2, <1>4, <1>6

LEMMA TakeKeeps ==
  ASSUME ReuseInv, NEW new \in Reuse!NewPaths, Reuse!TakePath(new), UNCHANGED Reuse!world, fresh' = TRUE
  PROVE  ReuseInv'
<1>1. UNCHANGED <<known, robot, goal, changes>> /\ path' = new /\ reused' = FALSE
  BY DEF Reuse!TakePath, Reuse!world
<1>2. CASE new = <<>>
  <2>1. UNCHANGED <<last_path, last_goal, progress>> /\ path' = <<>>
    BY <1>1, <1>2 DEF Reuse!TakePath, Reuse!memory
  <2>2. Reuse!TypeOK'
    <3>1. /\ known' \in ReuseMaps /\ robot' \in ReuseCells /\ goal' \in ReuseCells
          /\ last_goal' \in ReuseCells /\ progress' \in Nat /\ changes' \in 0 .. MaxChanges
          /\ last_path' # <<>> => progress' < Len(last_path')
          /\ reused' \in BOOLEAN /\ fresh' \in BOOLEAN
      BY <1>1, <2>1 DEF ReuseInv, PlanTypes, Reuse!TypeOK
    <3>2. DOMAIN path' = {}
      BY <2>1
    <3>3. \A p \in {last_path', path'} : \A i \in DOMAIN p : p[i] \in ReuseCells
      BY <2>1, <3>2 DEF ReuseInv, PlanTypes, Reuse!TypeOK
    <3>4. QED BY <3>1, <3>3 DEF Reuse!TypeOK
  <2>3. PlanTypes' /\ EndsAtGoal' /\ KeptPathIsSafe'
    BY <1>1, <2>1, <2>2 DEF ReuseInv, PlanTypes, EndsAtGoal, KeptPathIsSafe, Reuse!KeptPathIsSafe
  <2>4. QED BY <2>3 DEF ReuseInv
<1>3. CASE new # <<>>
  <2>1. last_path' = new /\ last_goal' = goal /\ progress' = 0
    BY <1>3 DEF Reuse!TakePath
  <2>2. new \in Seq(ReuseCells) /\ Reuse!RingOf(new[Len(new)], goal) <= ReuseRadius
    BY <1>3, NewPathIs DEF ReuseInv
  <2>3. Len(new) > 0 /\ DOMAIN new = 1 .. Len(new) /\ \A i \in DOMAIN new : new[i] \in ReuseCells
    BY <1>3, <2>2
  <2>4. goal \in ReuseCells /\ Reuse!Squared(goal, goal) = 0 /\ Tolerance \in Nat
    BY DistanceIs, MCAssumption DEF Reuse!PlannerAssumption, ReuseInv, PlanTypes, Reuse!TypeOK
  <2>5. Reuse!TypeOK'
    BY <1>1, <2>1, <2>3, <2>4 DEF ReuseInv, PlanTypes, Reuse!TypeOK
  <2>6. PlanTypes' /\ EndsAtGoal'
    BY <1>1, <2>1, <2>2, <2>5 DEF PlanTypes, EndsAtGoal
  <2>7. KeptPathIsSafe'
    BY <1>1, <2>1, <2>2, <2>4 DEF KeptPathIsSafe, Reuse!KeptPathIsSafe, Reuse!IsSafe
  <2>8. QED BY <2>6, <2>7 DEF ReuseInv
<1>4. QED BY <1>2, <1>3

LEMMA KeepKeeps ==
  ASSUME ReuseInv, Reuse!HasLastPath, Reuse!StillGood(Reuse!NearestSegment, Reuse!Rest(Reuse!NearestSegment)),
         Reuse!KeepPath(Reuse!NearestSegment), UNCHANGED Reuse!world, fresh' = TRUE
  PROVE  ReuseInv'
<1> DEFINE segment == Reuse!NearestSegment
           old == Reuse!Rest(Reuse!NearestSegment)
<1>1. UNCHANGED <<known, robot, goal, changes, last_path, last_goal>> /\ path' = old
      /\ progress' = segment - 1 /\ reused' = TRUE
  BY DEF Reuse!KeepPath, Reuse!world
<1>2. segment \in 1 .. Len(last_path) - 1 /\ Reuse!Projection(segment) \in 1 .. Len(last_path)
  BY SegmentIs DEF ReuseInv
<1>3. old \in Seq(ReuseCells) /\ old[Len(old)] = last_path[Len(last_path)]
  BY <1>2, RestIs DEF ReuseInv, PlanTypes, Reuse!Rest
<1>4. \A i \in DOMAIN old : Reuse!IsSafe(old[i])
  BY DEF Reuse!StillGood, Reuse!PathSafe
<1>5. last_path \in Seq(ReuseCells) /\ last_path # <<>> /\ Len(last_path) \in Nat
  BY <1>2 DEF ReuseInv, PlanTypes
<1> HIDE DEF segment, old
<1>6. \A i \in DOMAIN old : old[i] \in ReuseCells
  BY <1>3
<1>7. segment - 1 \in Nat /\ segment - 1 < Len(last_path)
  BY <1>2, <1>5
<1>8. Reuse!TypeOK'
  BY <1>1, <1>6, <1>7 DEF ReuseInv, PlanTypes, Reuse!TypeOK
<1>9. PlanTypes' /\ EndsAtGoal'
  BY <1>1, <1>3, <1>5, <1>8 DEF ReuseInv, PlanTypes, EndsAtGoal
<1>10. KeptPathIsSafe'
  <2>1. Reuse!Squared(last_goal, goal) = Reuse!Squared(goal, last_goal)
    BY DistanceIs DEF ReuseInv, PlanTypes, Reuse!TypeOK
  <2>2. Reuse!Squared(last_goal, goal) <= Tolerance
    BY <2>1 DEF Reuse!HasLastPath
  <2>3. Reuse!RingOf(old[Len(old)], last_goal) <= ReuseRadius
    BY <1>3, <1>5 DEF ReuseInv, EndsAtGoal
  <2>4. QED BY <1>1, <1>4, <2>2, <2>3 DEF KeptPathIsSafe, Reuse!KeptPathIsSafe, Reuse!IsSafe
<1>11. QED BY <1>9, <1>10 DEF ReuseInv

LEMMA Step == ReuseInv /\ [Reuse!Next]_reuseVars => ReuseInv'
<1> SUFFICES ASSUME ReuseInv, [Reuse!Next]_reuseVars PROVE ReuseInv'
  OBVIOUS
<1>1. CASE Reuse!PlanHere /\ UNCHANGED Reuse!world /\ fresh' = TRUE
  <2>1. path' = IF known[robot] # "lethal" THEN <<robot>> ELSE <<>>
    BY <1>1 DEF Reuse!PlanHere
  <2>2. UNCHANGED <<known, robot, goal, changes, last_path, last_goal, progress>> /\ reused' = FALSE
    BY <1>1 DEF Reuse!PlanHere, Reuse!world, Reuse!memory
  <2>3. path' \in Seq(ReuseCells) /\ ~(Len(path') > 1) /\ \A i \in DOMAIN path' : path'[i] \in ReuseCells
    BY <2>1 DEF ReuseInv, PlanTypes, Reuse!TypeOK
  <2>4. Reuse!TypeOK'
    BY <1>1, <2>2, <2>3 DEF ReuseInv, PlanTypes, Reuse!TypeOK
  <2>5. PlanTypes' /\ EndsAtGoal' /\ KeptPathIsSafe'
    BY <2>2, <2>3, <2>4 DEF ReuseInv, PlanTypes, EndsAtGoal, KeptPathIsSafe, Reuse!KeptPathIsSafe
  <2>6. QED BY <2>5 DEF ReuseInv
<1>2. CASE Reuse!PlanAnew /\ UNCHANGED Reuse!world /\ fresh' = TRUE
  <2>1. PICK new \in Reuse!NewPaths : Reuse!TakePath(new)
    BY <1>2 DEF Reuse!PlanAnew
  <2>2. QED BY <1>2, <2>1, TakeKeeps
<1>3. CASE Reuse!Replan /\ UNCHANGED Reuse!world /\ fresh' = TRUE
  <2>1. Reuse!HasLastPath
    BY <1>3 DEF Reuse!Replan
  <2>2. \E new \in Reuse!NewPaths :
          IF Reuse!StillGood(Reuse!NearestSegment, Reuse!Rest(Reuse!NearestSegment))
             /\ ~Reuse!ClearlyBetter(new, Reuse!Rest(Reuse!NearestSegment))
          THEN Reuse!KeepPath(Reuse!NearestSegment) ELSE Reuse!TakePath(new)
    BY <1>3, Zenon DEF Reuse!Replan
  <2>3. PICK new \in Reuse!NewPaths :
          \/ /\ Reuse!StillGood(Reuse!NearestSegment, Reuse!Rest(Reuse!NearestSegment))
             /\ Reuse!KeepPath(Reuse!NearestSegment)
          \/ Reuse!TakePath(new)
    BY <2>2, Zenon
  <2>4. QED BY <1>3, <2>1, <2>3, TakeKeeps, KeepKeeps
<1>4. CASE Reuse!Follow
  <2>1. /\ path # <<>> /\ Reuse!NextPose <= Len(path) /\ robot' = path[Reuse!NextPose]
        /\ UNCHANGED <<known, goal, changes, last_path, last_goal, progress, path, reused, fresh>>
    BY <1>4 DEF Reuse!Follow, Reuse!memory, Reuse!given
  <2>2. Reuse!NextPose \in 1 .. Len(path)
    <3> DEFINE at == {i \in DOMAIN path : path[i] = robot}
               first == CHOOSE i \in at : TRUE
    <3>1. DOMAIN path = 1 .. Len(path) /\ Len(path) \in Nat
      BY DEF ReuseInv, PlanTypes
    <3>2. Reuse!NextPose = IF at = {} THEN 1 ELSE first + 1
      BY DEF Reuse!NextPose
    <3>3. at # {} => first \in at
      BY Zenon
    <3>4. Reuse!NextPose \in Nat /\ Reuse!NextPose >= 1
      BY <3>1, <3>2, <3>3
    <3>5. QED BY <2>1, <3>1, <3>4
  <2>3. robot' \in ReuseCells
    BY <2>1, <2>2 DEF ReuseInv, PlanTypes
  <2>4. Reuse!TypeOK'
    BY <2>1, <2>3 DEF ReuseInv, PlanTypes, Reuse!TypeOK
  <2>5. PlanTypes' /\ EndsAtGoal' /\ KeptPathIsSafe'
    BY <2>1, <2>4 DEF ReuseInv, PlanTypes, EndsAtGoal, KeptPathIsSafe, Reuse!KeptPathIsSafe,
        Reuse!IsSafe
  <2>6. QED BY <2>5 DEF ReuseInv
<1>5. CASE Reuse!Push
  <2>1. /\ robot' \in ReuseCells /\ changes' \in 0 .. MaxChanges
        /\ UNCHANGED <<known, goal, last_path, last_goal, progress, path, reused, fresh>>
    <3>1. changes \in 0 .. MaxChanges /\ MaxChanges \in Nat
      BY MCAssumption DEF Reuse!PlannerAssumption, ReuseInv, PlanTypes, Reuse!TypeOK
    <3>2. QED BY <1>5, <3>1 DEF Reuse!Push, Reuse!Change, Reuse!memory, Reuse!given
  <2>2. Reuse!TypeOK'
    BY <2>1 DEF ReuseInv, PlanTypes, Reuse!TypeOK
  <2>3. PlanTypes' /\ EndsAtGoal' /\ KeptPathIsSafe'
    BY <2>1, <2>2 DEF ReuseInv, PlanTypes, EndsAtGoal, KeptPathIsSafe, Reuse!KeptPathIsSafe,
        Reuse!IsSafe
  <2>4. QED BY <2>3 DEF ReuseInv
<1>6. CASE Reuse!ChangeGoal \/ Reuse!ChangeMap
  <2>1. /\ known' \in ReuseMaps /\ goal' \in ReuseCells /\ changes' \in 0 .. MaxChanges /\ fresh' = FALSE
        /\ UNCHANGED <<robot, last_path, last_goal, progress, path, reused>>
    <3>1. known \in ReuseMaps /\ goal \in ReuseCells /\ changes \in 0 .. MaxChanges
      BY DEF ReuseInv, PlanTypes, Reuse!TypeOK
    <3>2. ReuseGoals \subseteq ReuseCells /\ MaxChanges \in Nat
      BY MCAssumption DEF Reuse!PlannerAssumption
    <3>3. CASE Reuse!ChangeGoal
      BY <3>1, <3>2, <3>3 DEF Reuse!ChangeGoal, Reuse!Change, Reuse!memory
    <3>4. CASE Reuse!ChangeMap
      BY <3>1, <3>2, <3>4 DEF Reuse!ChangeMap, Reuse!Change, Reuse!memory
    <3>5. QED BY <1>6, <3>3, <3>4
  <2>2. Reuse!TypeOK'
    BY <2>1 DEF ReuseInv, PlanTypes, Reuse!TypeOK
  <2>3. PlanTypes' /\ EndsAtGoal' /\ KeptPathIsSafe'
    BY <2>1, <2>2 DEF ReuseInv, PlanTypes, EndsAtGoal, KeptPathIsSafe, Reuse!KeptPathIsSafe
  <2>4. QED BY <2>3 DEF ReuseInv
<1>7. CASE UNCHANGED reuseVars
  BY <1>7 DEF reuseVars, Reuse!world, Reuse!memory, ReuseInv, PlanTypes, Reuse!TypeOK, EndsAtGoal,
      KeptPathIsSafe, Reuse!KeptPathIsSafe, Reuse!IsSafe
<1>8. QED
  BY <1>1, <1>2, <1>3, <1>4, <1>5, <1>6, <1>7 DEF Reuse!Next, Reuse!CreatePlan

(* Type correctness of the reuse, with the bound on the index of the       *)
(* progress. *)
THEOREM ReuseTypeCorrect == Reuse!Init /\ [][Reuse!Next]_reuseVars => []Reuse!TypeOK
<1>1. ReuseInv => Reuse!TypeOK
  BY DEF ReuseInv, PlanTypes
<1>2. QED BY <1>1, InitHolds, Step, PTL

(* A path that is kept is safe when it is given out and ends beside a goal *)
(* within tolerance of the present one, whatever the costmaps, goals and   *)
(* pushes before, and whatever the searches return. *)
THEOREM KeptPathIsGood == Reuse!Init /\ [][Reuse!Next]_reuseVars => []KeptPathIsSafe
<1>1. ReuseInv => KeptPathIsSafe
  BY DEF ReuseInv
<1>2. QED BY <1>1, InitHolds, Step, PTL

-----------------------------------------------------------------------------
(* The search. *)

Searching == pc \in {"search", "relax", "found"}

(* The start is the root and the cheapest node, and stays it. *)
Rooted ==
  Searching =>
    /\ src \in opened /\ curr \in opened
    /\ parent[src] = src
    /\ \A c \in opened \ {src} : g[src] < g[c]

Descends == Searching => \A c \in opened \ {src} : parent[c] \in opened /\ g[parent[c]] < g[c]

Fresh == pc \in {"plan", "ready"} => opened = {} /\ queue = << >>

(* The loop was entered with an entry in the queue. *)
Waiting == pc = "relax" => queue # << >>

IInv == TypeOK /\ Fresh /\ Waiting /\ Rooted /\ Descends

USE SizeAssumption, LengthAssumption, TraversalAssumption, ParameterAssumption

-----------------------------------------------------------------------------
(* The distance of two cells is in the table, and positive if they differ. *)
LEMMA DistanceIsNat ==
  ASSUME NEW p \in Cells, NEW q \in Cells
  PROVE  Distance(p, q) \in Nat /\ (p # q => Distance(p, q) > 0)
<1> DEFINE d == <<Dx(p, q), Dy(p, q)>>
<1>1. p[1] \in 0 .. SizeX - 1 /\ p[2] \in 0 .. SizeY - 1 /\ p = <<p[1], p[2]>>
  BY DEF Cells
<1>2. q[1] \in 0 .. SizeX - 1 /\ q[2] \in 0 .. SizeY - 1 /\ q = <<q[1], q[2]>>
  BY DEF Cells
<1>3. Dx(p, q) \in 0 .. SizeX /\ Dy(p, q) \in 0 .. SizeY
  BY <1>1, <1>2 DEF Dx, Dy, Abs
<1>4. d \in (0 .. SizeX) \X (0 .. SizeY)
  BY <1>3
<1>5. Length[d] \in Nat /\ (d # <<0, 0>> => Length[d] > 0)
  BY <1>4
<1>6. p # q => Dx(p, q) # 0 \/ Dy(p, q) # 0
  BY <1>1, <1>2 DEF Dx, Dy, Abs
<1>7. p # q => d # <<0, 0>>
  BY <1>6
<1>8. QED BY <1>5, <1>7 DEF Distance

(* The cost of a line of sight is a natural number. *)
LEMMA SightCostIsNat ==
  ASSUME NEW p \in Cells, NEW q \in Cells
  PROVE  SightCost(p, q) \in Nat
<1> DEFINE Box == (0 .. Longer(p, q) - 1) \X (0 .. Shorter(p, q))
           Of(k) == {s \in Seen(p, q) : SeenClass(p, q, s[1], s[2]) = k}
<1>1. Longer(p, q) \in Int /\ Shorter(p, q) \in Int
  <2>1. p[1] \in Int /\ p[2] \in Int /\ q[1] \in Int /\ q[2] \in Int
    BY DEF Cells
  <2>2. QED BY <2>1 DEF Longer, Shorter, Steep, Dx, Dy, Abs
<1>3. IsFiniteSet(Box)
  <2>1. IsFiniteSet(0 .. Longer(p, q) - 1) /\ IsFiniteSet(0 .. Shorter(p, q))
    BY <1>1, FS_Interval
  <2>2. QED BY <2>1, FS_Product
<1>4. ASSUME NEW k PROVE Cardinality(Of(k)) \in Nat
  <2>1. Of(k) \subseteq Box
    BY DEF Seen
  <2>2. IsFiniteSet(Of(k))
    BY <2>1, <1>3, FS_Subset
  <2>3. QED BY <2>2, FS_CardinalityType
<1>5. Traversal["free"] \in Nat /\ Traversal["high"] \in Nat /\ Traversal["unknown"] \in Nat
  BY DEF Classes
<1>6. \A m, n \in Nat : m * n \in Nat
  OBVIOUS
<1>7. Traversal["free"] * Cardinality(Of("free")) \in Nat
  BY <1>4, <1>5, <1>6
<1>8. Traversal["high"] * Cardinality(Of("high")) \in Nat
  BY <1>4, <1>5, <1>6
<1>9. Traversal["unknown"] * Cardinality(Of("unknown")) \in Nat
  BY <1>4, <1>5, <1>6
<1>10. QED BY <1>7, <1>8, <1>9 DEF SightCost

-----------------------------------------------------------------------------
(* What resetParent leaves: a parent that costs less, at no higher cost. *)
LEMMA NewParent ==
  ASSUME IInv, pc = "search"
  PROVE  /\ CurrCost \in Nat /\ CurrCost <= g[curr] /\ CurrParent \in opened
         /\ curr = src => CurrCost = g[src] /\ CurrParent = src
         /\ curr # src => g[CurrParent] < CurrCost /\ g[src] < CurrCost
<1> DEFINE p == parent[curr]
           gp == Grandparent
<1>1. /\ src \in Cells /\ curr \in opened /\ opened \subseteq Cells
      /\ g \in [Cells -> Nat] /\ src \in opened /\ parent[src] = src
  BY DEF IInv, TypeOK, Rooted, Searching
<1>2. p \in opened /\ (curr = src => p = src) /\ (curr # src => g[p] < g[curr])
  BY <1>1 DEF IInv, Descends, Searching
<1>3. gp \in opened /\ (p = src => gp = src) /\ (p # src => g[gp] < g[p])
  BY <1>1, <1>2 DEF IInv, Descends, Searching, Grandparent
<1>4. \A c \in opened : g[src] <= g[c] /\ g[c] \in Nat
  BY <1>1 DEF IInv, Rooted, Searching
<1>5. g[gp] <= g[p]
  BY <1>1, <1>2, <1>3, <1>4
<1>6. Distance(curr, gp) \in Nat /\ (curr # gp => Distance(curr, gp) > 0)
  BY <1>1, <1>3, DistanceIsNat
<1>7. SightCost(curr, gp) \in Nat
  BY <1>1, <1>3, SightCostIsNat
<1>8. CASE curr = src
  <2>1. gp = src
    BY <1>2, <1>3, <1>8
  <2>2. ViaGrandparent >= g[curr]
    BY <2>1, <1>4, <1>1, <1>6, <1>7, <1>8 DEF ViaGrandparent
  <2>3. ~Shortens
    BY <2>2, <2>1, <1>4, <1>1, <1>6, <1>7 DEF Shortens, ViaGrandparent
  <2>4. QED BY <2>3, <1>1, <1>2, <1>4, <1>8 DEF CurrCost, CurrParent, SkipsParent
<1>9. CASE curr # src
  <2>1. g[gp] < g[curr] /\ curr # gp
    BY <1>1, <1>2, <1>3, <1>4, <1>5, <1>9
  <2>2. ViaGrandparent \in Nat /\ g[gp] < ViaGrandparent
    BY <2>1, <1>3, <1>4, <1>6, <1>7 DEF ViaGrandparent
  <2>3. CASE SkipsParent
    BY <2>2, <2>3, <1>1, <1>3, <1>4, <1>9 DEF CurrCost, CurrParent, SkipsParent, Shortens
  <2>4. CASE ~SkipsParent
    BY <2>4, <1>1, <1>2, <1>4, <1>9 DEF CurrCost, CurrParent
  <2>5. QED BY <2>3, <2>4
<1>10. QED BY <1>8, <1>9
-----------------------------------------------------------------------------
(* An improvement by the node at hand: the cell is another one than the     *)
(* node, is not the start, costs more than the node and less than it did. *)
LEMMA Improvement ==
  ASSUME IInv, pc = "relax", NEW c \in Neighbors(curr), Improves(c, Via(c))
  PROVE  /\ c \in Cells /\ c # curr /\ c # src
         /\ Via(c) \in Nat /\ g[curr] < Via(c)
         /\ c \in opened => Via(c) < g[c]
<1>1. /\ curr \in Cells /\ src \in opened /\ g \in [Cells -> Nat] /\ opened \subseteq Cells
      /\ costmap \in [Cells -> Classes] /\ curr \in opened
  BY DEF IInv, TypeOK, Rooted, Searching
<1>2. c \in Cells /\ c # curr
  <2>1. PICK i \in 1 .. Corners : c = Moved(curr, i)
    BY DEF Neighbors
  <2>2. i \in 1 .. 8
    BY <2>1
  <2>3. Moves[i][1] \in Int /\ Moves[i][2] \in Int /\ (Moves[i][1] # 0 \/ Moves[i][2] # 0)
    BY <2>2 DEF Moves
  <2>4. curr[1] \in Int /\ curr[2] \in Int
    BY <1>1 DEF Cells
  <2>5. c[1] # curr[1] \/ c[2] # curr[2]
    BY <2>1, <2>3, <2>4 DEF Moved
  <2>6. QED BY <2>5 DEF Neighbors
<1>3. Distance(curr, c) \in Nat /\ Distance(curr, c) > 0
  BY <1>1, <1>2, DistanceIsNat
<1>4. Traversal[costmap[c]] \in Nat
  BY <1>1, <1>2
<1>5. Via(c) \in Nat /\ g[curr] < Via(c)
  BY <1>1, <1>3, <1>4 DEF Via
<1>6. c \in opened => Via(c) < g[c]
  BY DEF Improves
<1>7. c # src
  <2>1. g[src] <= g[curr]
    BY <1>1 DEF IInv, Rooted, Searching
  <2>2. QED BY <2>1, <1>1, <1>5, <1>6
<1>8. QED BY <1>2, <1>5, <1>6, <1>7

-----------------------------------------------------------------------------
(* Entries are moved about in the queue, whatever its keys: none but the    *)
(* one pushed comes in. *)
LEMMA SiftType ==
  ASSUME NEW S, NEW n \in Nat, NEW h \in [1 .. n -> S], NEW v \in S, NEW i, NEW key
  PROVE  Sift(h, i, v, key) \in [1 .. n -> S]
<1> DEFINE sunk == {m \in Up[i] \ {1} : \A k \in Up[i] : k >= m => key[h[k \div 2]] > key[v]}
           at(m) == IF m \in sunk THEN h[m \div 2]
                    ELSE IF m \in Up[i] /\ \A k \in Up[i] : k > m => k \in sunk THEN v
                    ELSE h[m]
<1>1. \A m \in 1 .. n : m # 1 => m \div 2 \in 1 .. n
  OBVIOUS
<1>2. \A m \in 1 .. n : m \in sunk => m # 1
  OBVIOUS
<1>3. \A m \in 1 .. n : at(m) \in S
  BY <1>1, <1>2
<1>4. DOMAIN h = 1 .. n
  OBVIOUS
<1> HIDE DEF at
<1>5. [m \in 1 .. n |-> at(m)] \in [1 .. n -> S]
  BY <1>3
<1>6. QED BY <1>4, <1>5 DEF Sift, at

LEMMA PushType ==
  ASSUME NEW S, NEW h \in Seq(S), NEW v \in S, NEW key
  PROVE  Push(h, v, key) \in Seq(S) /\ Push(h, v, key) # << >>
<1> DEFINE n == Len(h) + 1
<1>1. n \in Nat /\ n > 0 /\ Append(h, v) \in [1 .. n -> S]
  <2>1. Len(h) \in Nat /\ Append(h, v) \in Seq(S) /\ Len(Append(h, v)) = n
    BY LenProperties, AppendProperties
  <2>2. Append(h, v) \in [1 .. Len(Append(h, v)) -> S]
    BY <2>1, LenProperties
  <2>3. QED BY <2>1, <2>2
<1> DEFINE longer == Append(h, v)
<1>2. Push(h, v, key) = Sift(longer, n, v, key)
  BY DEF Push
<1> HIDE DEF n, longer
<1>3. Push(h, v, key) \in [1 .. n -> S]
  <2>1. longer \in [1 .. n -> S]
    BY <1>1 DEF longer
  <2>2. Sift(longer, n, v, key) \in [1 .. n -> S]
    BY <2>1, <1>1, SiftType
  <2>3. QED BY <2>2, <1>2
<1> DEFINE pushed == Push(h, v, key)
<1> HIDE DEF pushed
<1>4. pushed \in Seq(S)
  <2>1. pushed \in [1 .. n -> S]
    BY <1>3 DEF pushed
  <2>2. QED BY <1>1, <2>1, SeqDef
<1>5. pushed # << >>
  <2>1. DOMAIN pushed = 1 .. n
    BY <1>3 DEF pushed
  <2>2. 1 \in DOMAIN pushed
    BY <1>1, <2>1
  <2>3. QED BY <2>2
<1>6. QED BY <1>4, <1>5 DEF pushed

LEMMA PopType ==
  ASSUME NEW S, NEW h \in Seq(S), h # << >>, NEW key
  PROVE  Pop(h, key) \in Seq(S)
<1> DEFINE n == Len(h) - 1
           emptied == Emptied(h, n, key)
           from(m) == IF emptied[m] /\ 2 * m <= n THEN Riser(h, n, m, key) ELSE m
           risen == [m \in 1 .. n |-> h[from(m)]]
           hole == CHOOSE m \in 1 .. n : emptied[m] /\ 2 * m > n
<1>1. n \in Nat /\ h \in [1 .. n + 1 -> S] /\ h[n + 1] \in S
  BY LenProperties, EmptySeq
<1> HIDE DEF n
<1>2. \A m \in 1 .. n : from(m) \in 1 .. n + 1
  <2> TAKE m \in 1 .. n
  <2>1. 2 * m <= n => Riser(h, n, m, key) \in 1 .. n + 1
    BY <1>1 DEF Riser
  <2>2. QED BY <2>1, <1>1
<1> HIDE DEF from
<1>3. risen \in [1 .. n -> S]
  BY <1>1, <1>2
<1> HIDE DEF risen, hole
<1>4. Sift(risen, hole, h[n + 1], key) \in [1 .. n -> S]
  BY <1>1, <1>3, SiftType
<1>5. Sift(risen, hole, h[n + 1], key) \in Seq(S)
  BY <1>1, <1>4, SeqDef
<1>6. Pop(h, key) = IF n = 0 THEN << >> ELSE Sift(risen, hole, h[n + 1], key)
  BY DEF Pop, n, risen, hole, from
<1>7. << >> \in Seq(S)
  OBVIOUS
<1>8. QED BY <1>5, <1>6, <1>7

-----------------------------------------------------------------------------
LEMMA InitIInv == Init => IInv
<1> SUFFICES ASSUME Init PROVE IInv
  OBVIOUS
<1>1. TypeOK
  <2>1. g \in [Cells -> Nat]
    BY DEF Init
  <2>2. QED BY <2>1, MapAssumption, PoseAssumption DEF Init, TypeOK
<1>2. Fresh /\ Waiting /\ Rooted /\ Descends
  BY DEF Init, Fresh, Waiting, Rooted, Descends, Searching
<1>3. QED BY <1>1, <1>2 DEF IInv

LEMMA MoveKeeps == IInv /\ MoveStartAndGoal => IInv'
<1> SUFFICES ASSUME IInv, MoveStartAndGoal PROVE IInv'
  OBVIOUS
<1>1. NearestFree(src) \subseteq Cells /\ NearestFree(dst) \subseteq Cells
  BY DEF NearestFree, IInv, TypeOK
<1>2. TypeOK'
  BY <1>1 DEF MoveStartAndGoal, search, IInv, TypeOK
<1>3. (Fresh /\ Waiting /\ Rooted /\ Descends)'
  BY DEF MoveStartAndGoal, search, IInv, Fresh, Waiting, Rooted, Descends, Searching
<1>4. QED BY <1>2, <1>3 DEF IInv

LEMMA BeginKeeps == IInv /\ Begin => IInv'
<1> SUFFICES ASSUME IInv, Begin PROVE IInv'
  OBVIOUS
<1>1. Traversal[costmap[src]] \in Nat
  BY DEF Begin, IInv, TypeOK
<1>2. queue' \in Seq(opened')
  BY DEF Begin
<1>3. TypeOK'
  BY <1>1, <1>2 DEF Begin, plan, IInv, TypeOK
<1>4. (Fresh /\ Waiting /\ Rooted /\ Descends)'
  BY DEF Begin, plan, IInv, TypeOK, Fresh, Waiting, Rooted, Descends, Searching
<1>5. QED BY <1>3, <1>4 DEF IInv

LEMMA ResetKeeps == IInv /\ ResetParent => IInv'
<1> SUFFICES ASSUME IInv, ResetParent PROVE IInv'
  OBVIOUS
<1>1. /\ TypeOK /\ pc = "search" /\ pc' = "relax" /\ turn' = 1
      /\ UNCHANGED <<costmap, src, dst, allowed, opened, queue, curr>>
      /\ g' = [g EXCEPT ![curr] = CurrCost]
      /\ parent' = [parent EXCEPT ![curr] = CurrParent]
  BY DEF ResetParent, plan, IInv
<1>2. /\ src \in opened /\ curr \in opened /\ parent[src] = src
      /\ \A c \in opened \ {src} : g[src] < g[c]
      /\ \A c \in opened \ {src} : parent[c] \in opened /\ g[parent[c]] < g[c]
  BY <1>1 DEF IInv, Rooted, Descends, Searching
<1>3. /\ CurrCost \in Nat /\ CurrCost <= g[curr] /\ CurrParent \in opened
      /\ curr = src => CurrCost = g[src] /\ CurrParent = src
      /\ curr # src => g[CurrParent] < CurrCost /\ g[src] < CurrCost
  BY <1>1, NewParent
<1>4. /\ g \in [Cells -> Nat] /\ parent \in [Cells -> Cells]
      /\ opened \subseteq Cells /\ curr \in Cells /\ src \in Cells
  BY <1>1 DEF TypeOK
<1>5. /\ g'[curr] = CurrCost /\ parent'[curr] = CurrParent
      /\ \A c \in Cells \ {curr} : g'[c] = g[c] /\ parent'[c] = parent[c]
  BY <1>1, <1>4
<1>6. TypeOK'
  <2>1. g' \in [Cells -> Nat] /\ parent' \in [Cells -> Cells]
    BY <1>1, <1>3, <1>4
  <2>2. turn' \in 1 .. Corners + 1
    BY <1>1
  <2>3. QED BY <1>1, <2>1, <2>2 DEF TypeOK
<1>7. \A c \in opened : g'[c] <= g[c]
  BY <1>3, <1>4, <1>5
<1>8. g'[src] = g[src] /\ parent'[src] = src
  BY <1>2, <1>3, <1>4, <1>5
<1>9. ASSUME NEW c \in opened \ {src}
      PROVE  parent'[c] \in opened /\ g'[parent'[c]] < g'[c] /\ g[src] < g'[c]
  <2>1. CASE c = curr
    BY <2>1, <1>3, <1>4, <1>5, <1>7, <1>6 DEF TypeOK
  <2>2. CASE c # curr
    <3>1. g'[c] = g[c] /\ parent'[c] = parent[c] /\ parent[c] \in opened /\ g[parent[c]] < g[c]
      BY <2>2, <1>2, <1>4, <1>5
    <3>2. g'[parent[c]] <= g[parent[c]] /\ g'[parent[c]] \in Nat /\ g[parent[c]] \in Nat /\ g[c] \in Nat
      BY <3>1, <1>4, <1>6, <1>7 DEF TypeOK
    <3>3. QED BY <3>1, <3>2, <1>2
  <2>3. QED BY <2>1, <2>2
<1>10. (Fresh /\ Waiting /\ Rooted /\ Descends)'
  BY <1>1, <1>2, <1>8, <1>9 DEF ResetParent, Rooted, Descends, Fresh, Waiting
<1>11. QED BY <1>6, <1>10 DEF IInv

LEMMA SetNeighborKeeps == IInv /\ SetNeighbor => IInv'
<1> SUFFICES ASSUME IInv, SetNeighbor PROVE IInv'
  OBVIOUS
<1> DEFINE c == Moved(curr, turn)
<1>1. /\ TypeOK /\ pc = "relax" /\ pc' = "relax" /\ turn' \in 1 .. Corners + 1
      /\ UNCHANGED <<costmap, src, dst, allowed, curr>>
  <2>1. /\ pc = "relax" /\ turn <= Corners /\ turn' = turn + 1
        /\ UNCHANGED <<plan, pc, curr>>
    BY Zenon DEF SetNeighbor
  <2>2. TypeOK
    BY DEF IInv
  <2>3. turn' \in 1 .. Corners + 1
    BY <2>1, <2>2, ParameterAssumption DEF TypeOK
  <2>4. QED BY <2>1, <2>2, <2>3 DEF plan
<1>2. /\ src \in opened /\ curr \in opened /\ parent[src] = src
      /\ \A d \in opened \ {src} : g[src] < g[d]
      /\ \A d \in opened \ {src} : parent[d] \in opened /\ g[parent[d]] < g[d]
  BY <1>1 DEF IInv, Rooted, Descends, Searching
<1>3. CASE c \in Neighbors(curr) /\ Improves(c, Via(c))
  <2>1. /\ c \in Cells /\ c # curr /\ c # src
        /\ Via(c) \in Nat /\ g[curr] < Via(c)
        /\ c \in opened => Via(c) < g[c]
    BY <1>1, <1>3, Improvement
  <2>2. /\ opened' = opened \cup {c}
        /\ g' = [g EXCEPT ![c] = Via(c)]
        /\ parent' = [parent EXCEPT ![c] = curr]
        /\ \/ queue' = queue
           \/ queue' = Push(queue, c, [d \in Cells |-> g'[d] + Distance(d, dst)])
    BY <1>3 DEF SetNeighbor
  <2> HIDE DEF c
  <2>3. /\ g \in [Cells -> Nat] /\ parent \in [Cells -> Cells]
        /\ opened \subseteq Cells /\ curr \in Cells /\ src \in Cells
    BY <1>1 DEF TypeOK
  <2>4. /\ g'[c] = Via(c) /\ parent'[c] = curr
        /\ \A d \in Cells \ {c} : g'[d] = g[d] /\ parent'[d] = parent[d]
    BY <2>1, <2>2, <2>3
  <2>5. TypeOK'
    <3>1. g' \in [Cells -> Nat] /\ parent' \in [Cells -> Cells] /\ opened' \subseteq Cells
      BY <2>1, <2>2, <2>3
    <3>2. queue \in Seq(opened')
      BY <1>1, <2>2, SeqMonotonic DEF TypeOK
    <3>3. queue' \in Seq(opened')
      <4>1. c \in opened'
        BY <2>2
      <4>2. Push(queue, c, [d \in Cells |-> g'[d] + Distance(d, dst)]) \in Seq(opened')
        BY <3>2, <4>1, PushType
      <4>3. QED BY <3>2, <4>2, <2>2
    <3>4. QED BY <1>1, <3>1, <3>3 DEF TypeOK
  <2>6. \A d \in opened : g'[d] <= g[d]
    BY <2>1, <2>3, <2>4
  <2>7. g'[src] = g[src] /\ parent'[src] = src /\ g'[curr] = g[curr]
    BY <1>2, <2>1, <2>3, <2>4
  <2>8. ASSUME NEW d \in opened' \ {src}
        PROVE  parent'[d] \in opened' /\ g'[parent'[d]] < g'[d] /\ g[src] < g'[d]
    <3>1. g[src] <= g[curr]
      BY <1>2, <2>3
    <3>2. CASE d = c
      BY <3>1, <3>2, <1>2, <2>1, <2>2, <2>3, <2>4, <2>7
    <3>3. CASE d # c
      <4>1. /\ d \in opened /\ g'[d] = g[d] /\ parent'[d] = parent[d]
            /\ parent[d] \in opened /\ g[parent[d]] < g[d]
        BY <3>3, <1>2, <2>2, <2>3, <2>4
      <4>2. g'[parent[d]] <= g[parent[d]] /\ g[src] < g[d] /\ parent[d] \in opened'
        BY <4>1, <1>2, <2>2, <2>6
      <4>3. parent[d] \in Cells /\ d \in Cells /\ g' \in [Cells -> Nat]
        BY <4>1, <2>3, <2>5 DEF TypeOK
      <4>4. g'[parent[d]] < g[d]
        BY <4>1, <4>2, <4>3, <2>3
      <4>5. QED BY <4>1, <4>2, <4>4
    <3>4. QED BY <3>2, <3>3
  <2>9. (Fresh /\ Waiting /\ Rooted /\ Descends)'
    <3>1. queue' # << >>
      BY <1>1, <2>2, <2>1, PushType, SeqMonotonic DEF IInv, TypeOK, Waiting
    <3>2. QED BY <3>1, <1>1, <1>2, <2>2, <2>7, <2>8 DEF Rooted, Descends, Fresh, Waiting
  <2>10. QED BY <2>5, <2>9 DEF IInv
<1>4. CASE ~(c \in Neighbors(curr) /\ Improves(c, Via(c)))
  <2>1. UNCHANGED <<opened, g, parent, queue>>
    BY <1>4 DEF SetNeighbor
  <2>2. QED BY <2>1, <1>1 DEF IInv, TypeOK, Fresh, Waiting, Rooted, Descends, Searching
<1>5. QED BY <1>3, <1>4

LEMMA TakeNextKeeps == IInv /\ TakeNext => IInv'
<1> SUFFICES ASSUME IInv, TakeNext PROVE IInv'
  OBVIOUS
<1>1. queue \in Seq(opened) /\ queue # << >>
  BY DEF TakeNext, IInv, TypeOK, Waiting
<1>2. queue[1] \in opened /\ queue' \in Seq(opened)
  BY <1>1, PopType DEF TakeNext
<1>3. TypeOK'
  BY <1>2 DEF TakeNext, plan, IInv, TypeOK
<1>4. QED BY <1>2, <1>3 DEF TakeNext, plan, IInv, Fresh, Waiting, Rooted, Descends, Searching

LEMMA FinishKeeps == IInv /\ Finish => IInv'
<1> SUFFICES ASSUME IInv, Finish PROVE IInv'
  OBVIOUS
<1>1. TypeOK'
  BY DEF Finish, plan, search, IInv, TypeOK
<1>2. (Fresh /\ Waiting /\ Rooted /\ Descends)'
  BY DEF Finish, plan, search, IInv, Fresh, Waiting, Rooted, Descends, Searching
<1>3. QED BY <1>1, <1>2 DEF IInv

LEMMA Invariance == Spec => []IInv
<1>1. IInv /\ [Next]_vars => IInv'
  <2> SUFFICES ASSUME IInv, [Next]_vars PROVE IInv'
    OBVIOUS
  <2>1. CASE UNCHANGED vars
    BY <2>1 DEF vars, plan, search, IInv, TypeOK, Fresh, Waiting, Rooted, Descends, Searching
  <2>2. QED BY <2>1, MoveKeeps, BeginKeeps, ResetKeeps, SetNeighborKeeps, TakeNextKeeps, FinishKeeps DEF Next
<1>2. QED BY InitIInv, <1>1, PTL DEF Spec

-----------------------------------------------------------------------------
(* The variables keep their types on costmaps of any size. *)
THEOREM TypeCorrect == Spec => []TypeOK
<1>1. IInv => TypeOK
  BY DEF IInv
<1>2. QED BY Invariance, <1>1, PTL

(* However parents are skipped and costs lowered behind the queue's back,  *)
(* every node leads back to the start by ever cheaper nodes, so that       *)
(* backtrace ends there. *)
THEOREM TreeUnderStart == Spec => []LinksDescend
<1>1. IInv => LinksDescend
  BY DEF IInv, Rooted, Descends, LinksDescend, Searching
<1>2. QED BY Invariance, <1>1, PTL
-----------------------------------------------------------------------------
(* Arithmetic of the walk along a line: n steps along the longer axis, m   *)
(* rows along the other one. *)

LEMMA DivMod ==
  ASSUME NEW x \in Int, NEW n \in Int, n > 0, x >= 0
  PROVE  x = n * (x \div n) + (x % n) /\ x % n \in 0 .. n - 1 /\ x \div n \in Nat
<1>1. x % n \in 0 .. n - 1
  BY SMT
<1>2. x \div n \in Int
  BY SMT
<1>3. x = n * (x \div n) + (x % n)
  BY SMT
<1>4. x \div n >= 0
  <2>1. ASSUME NEW q \in Int, NEW r \in 0 .. n - 1, x = n * q + r, q < 0 PROVE FALSE
    <3>1. n * q <= -n
      BY <2>1, SMT
    <3>2. QED BY <2>1, <3>1
  <2>2. QED BY <1>1, <1>2, <1>3, <2>1
<1>5. QED BY <1>1, <1>2, <1>3, <1>4

LEMMA DivUnique ==
  ASSUME NEW x \in Int, NEW n \in Int, n > 0, NEW q \in Int, NEW r \in 0 .. n - 1, x = n * q + r
  PROVE  x \div n = q /\ x % n = r
  BY SMT

(* Of the rows of step i, the one the line enters the step in is checked,   *)
(* whether the line leaves it in this step or not. *)
LEMMA RowIsChecked ==
  ASSUME NEW n \in Int, NEW m \in Int, 0 < m, m <= n, NEW i \in 0 .. n - 1
  PROVE  /\ (i * m) \div n \in 0 .. m
         /\ \/ ((i * m) % n) + m >= n
            \/ (i * m) \div n = ((i + 1) * m) \div n /\ ((i + 1) * m) % n # 0
<1> DEFINE x == i * m
           q == x \div n
           r == x % n
<1>0. x \in Int /\ x >= 0 /\ n > 0 /\ (i + 1) * m = x + m
  BY SMT
<1>1. x = n * q + r /\ r \in 0 .. n - 1 /\ q \in Nat
  <2> HIDE DEF x
  <2> QED BY <1>0, DivMod
<1>2. q <= m
  <2>1. x <= n * m
    BY SMT
  <2>2. ASSUME NEW k \in Nat, NEW s \in 0 .. n - 1, n * k + s <= n * m PROVE k <= m
    <3>1. SUFFICES ASSUME k > m PROVE FALSE
      OBVIOUS
    <3>2. n * k >= n * m + n
      BY <3>1, SMT
    <3>3. QED BY <2>2, <3>2
  <2> HIDE DEF x, q, r
  <2>3. QED BY <1>1, <2>1, <2>2
<1>3. ASSUME r + m < n PROVE (x + m) \div n = q /\ (x + m) % n = r + m
  <2> HIDE DEF x, q, r
  <2>1. x + m \in Int /\ x + m = n * q + (r + m) /\ r + m \in 0 .. n - 1 /\ q \in Int
    BY <1>0, <1>1, <1>3
  <2>2. QED BY <1>0, <2>1, DivUnique
<1>4. ((i + 1) * m) \div n = (x + m) \div n /\ ((i + 1) * m) % n = (x + m) % n
  BY <1>0
<1>5. QED
  <2>1. r + m < n => r + m # 0
    BY <1>1
  <2>2. r + m >= n \/ r + m < n
    BY <1>1
  <2> HIDE DEF q, r
  <2>3. QED BY <1>1, <1>2, <1>3, <1>4, <2>1, <2>2 DEF q, r

(* A cell at <<a, b>> that the line through the centres touches lies beside *)
(* a checked cell: in the step before or behind, in the row below or in it. *)
LEMMA RowIsNear ==
  ASSUME NEW n \in Int, NEW m \in Int, 0 < m, m <= n, NEW a \in 0 .. n, NEW b \in 0 .. m,
         2 * (n * b - m * a) <= n + m, 2 * (m * a - n * b) <= n + m
  PROVE  \E i \in 0 .. n - 1 : i \in {a - 1, a} /\ (i * m) \div n \in {b - 1, b}
<1>1. CASE a = n
  <2>1. (n - 1) * m = n * (m - 1) + (n - m) /\ (n - 1) * m \in Int /\ n - m \in 0 .. n - 1
    BY SMT
  <2>2. ((n - 1) * m) \div n = m - 1
    BY <2>1, DivUnique
  <2>3. b >= m - 1
    <3>1. SUFFICES ASSUME b <= m - 2 PROVE FALSE
      OBVIOUS
    <3>2. n * b <= n * m - 2 * n /\ n * m = m * n /\ n * b \in Int /\ n * m \in Int
      BY <3>1, SMT
    <3>3. QED BY <3>2, <1>1
  <2>4. n - 1 \in 0 .. n - 1 /\ n - 1 \in {a - 1, a} /\ m - 1 \in {b - 1, b}
    BY <1>1, <2>3
  <2>5. QED BY <2>2, <2>4
<1>2. CASE a < n
  <2> DEFINE x == a * m
             q == x \div n
             r == x % n
  <2>1. x \in Int /\ x >= 0 /\ x = m * a
    BY SMT
  <2>2. x = n * q + r /\ r \in 0 .. n - 1 /\ q \in Nat
    <3> HIDE DEF x
    <3> QED BY <2>1, DivMod
  <2> HIDE DEF q, r
  <2>3. 2 * (n * b - x) <= n + m /\ 2 * (x - n * b) <= n + m
    BY <2>1
  <2> HIDE DEF x
  <2>4. n * b \in Int /\ n * q \in Int
    BY <2>2, SMT
  <2>5. b <= q + 1
    <3>1. SUFFICES ASSUME b >= q + 2 PROVE FALSE
      BY <2>2
    <3>2. n * b >= n * q + 2 * n
      BY <3>1, <2>2, SMT
    <3>3. QED BY <3>2, <2>2, <2>3, <2>4
  <2>6. b >= q - 1
    <3>1. SUFFICES ASSUME b <= q - 2 PROVE FALSE
      BY <2>2
    <3>2. n * b <= n * q - 2 * n
      BY <3>1, <2>2, SMT
    <3>3. QED BY <3>2, <2>2, <2>3, <2>4
  <2>7. CASE b = q - 1
    <3>1. n * b = n * q - n
      BY <2>7, <2>2, SMT
    <3>2. n = m /\ r = 0
      BY <3>1, <2>2, <2>3, <2>4
    <3>3. q = a
      <4>1. n * q = n * a
        BY <2>1, <2>2, <2>4, <3>2
      <4>2. QED BY <4>1, <2>2, SMT
    <3>4. (a - 1) * m = n * (a - 1) + 0 /\ (a - 1) * m \in Int
      BY <3>2, SMT
    <3>5. ((a - 1) * m) \div n = a - 1
      BY <3>4, DivUnique
    <3>6. a - 1 \in 0 .. n - 1 /\ a - 1 = b
      BY <2>7, <3>3, <1>2
    <3>7. QED BY <3>5, <3>6
  <2>8. CASE b \in {q, q + 1}
    <3>1. a \in 0 .. n - 1 /\ q \in {b - 1, b}
      BY <2>8, <2>2, <1>2
    <3>2. QED BY <3>1 DEF q, x
  <2>9. QED BY <2>2, <2>5, <2>6, <2>7, <2>8
<1>3. QED BY <1>1, <1>2

(* One axis: u is v plus n steps, w lies between them, a steps from u. *)
Between(w, u, v) == (w >= u /\ w <= v) \/ (w >= v /\ w <= u)

LEMMA StepsTo ==
  ASSUME NEW u \in Int, NEW v \in Int, NEW w \in Int, Between(w, u, v)
  PROVE  /\ Abs(w - u) \in 0 .. Abs(v - u)
         /\ \A i \in {Abs(w - u) - 1, Abs(w - u)} :
              u + i * Sign(u, v) + Lower(u, v) \in w - 1 .. w + 1
<1>1. Abs(w - u) \in Int
  BY DEF Abs
<1>2. CASE v > u
  <2>1. Sign(u, v) = 1 /\ Lower(u, v) = 0 /\ Abs(w - u) = w - u /\ Abs(v - u) = v - u
    BY <1>2 DEF Sign, Lower, Abs, Between
  <2>2. QED BY <1>2, <2>1 DEF Between
<1>3. CASE v <= u
  <2>1. Sign(u, v) = -1 /\ Lower(u, v) = -1 /\ Abs(w - u) = u - w /\ Abs(v - u) = u - v
    BY <1>3 DEF Sign, Lower, Abs, Between
  <2>2. QED BY <1>3, <2>1 DEF Between
<1>4. QED BY <1>2, <1>3

(* The products of a line's slope and an offset, without their signs. *)
LEMMA Slopes ==
  ASSUME NEW dx \in Int, NEW dy \in Int, NEW a \in Int, NEW b \in Int,
         Between(a, 0, dx), Between(b, 0, dy), 2 * Abs(dx * b - dy * a) <= Abs(dx) + Abs(dy)
  PROVE  LET n == Abs(dx)
             m == Abs(dy)
         IN  /\ 2 * (n * Abs(b) - m * Abs(a)) <= n + m
             /\ 2 * (m * Abs(a) - n * Abs(b)) <= n + m
<1>1. /\ dx * b \in Int /\ dy * a \in Int
      /\ (-dx) * b = -(dx * b) /\ (-dy) * a = -(dy * a)
      /\ dx * (-b) = -(dx * b) /\ dy * (-a) = -(dy * a)
      /\ (-dx) * (-b) = dx * b /\ (-dy) * (-a) = dy * a
  BY SMT
<1>2. 2 * (dx * b - dy * a) <= Abs(dx) + Abs(dy) /\ 2 * (dy * a - dx * b) <= Abs(dx) + Abs(dy)
  BY <1>1 DEF Abs
<1>3. \/ Abs(dx) = dx /\ Abs(a) = a
      \/ Abs(dx) = -dx /\ Abs(a) = -a
  BY DEF Abs, Between
<1>4. \/ Abs(dy) = dy /\ Abs(b) = b
      \/ Abs(dy) = -dy /\ Abs(b) = -b
  BY DEF Abs, Between
<1>5. \/ Abs(dx) * Abs(b) = dx * b /\ Abs(dy) * Abs(a) = dy * a
      \/ Abs(dx) * Abs(b) = -(dx * b) /\ Abs(dy) * Abs(a) = -(dy * a)
  BY <1>1, <1>3, <1>4
<1>6. QED BY <1>1, <1>2, <1>5 DEF Abs

-----------------------------------------------------------------------------
(* The line of sight. *)

(* A cell on the robot's way that lies beside a safe one. *)
Cleared(t) == \E s \in Int \X Int : IsSafe(s) /\ t \in Around(s, 1)

(* The cells on the straight line between two nodes are all cleared. *)
Link(p, q) == \A t \in Touched(p, q) : Cleared(t)

(* Beside a safe cell there is no obstacle. *)
LEMMA ClearedIsFree ==
  ASSUME NEW t, Cleared(t)
  PROVE  ~Obstacle(t)
<1>1. PICK s \in Int \X Int : IsSafe(s) /\ t \in Around(s, 1)
  BY DEF Cleared
<1>2. QED BY <1>1 DEF IsSafe, HasObstacleAround

LEMMA SafeIsCleared ==
  ASSUME NEW s \in Int \X Int, IsSafe(s), NEW t \in Int \X Int,
         t[1] \in s[1] - 1 .. s[1] + 1, t[2] \in s[2] - 1 .. s[2] + 1
  PROVE  Cleared(t)
<1>1. t \in Around(s, 1)
  BY DEF Around
<1>2. QED BY <1>1 DEF Cleared

(* What Touched says of a cell, by the offsets of its coordinates. *)
LEMMA TouchedIs ==
  ASSUME NEW p \in Cells, NEW q \in Cells, NEW t \in Touched(p, q)
  PROVE  /\ p \in Int \X Int /\ q \in Int \X Int /\ t \in Int \X Int
         /\ Between(t[1], p[1], q[1]) /\ Between(t[2], p[2], q[2])
         /\ Abs(t[1] - p[1]) \in 0 .. Dx(p, q) /\ Abs(t[2] - p[2]) \in 0 .. Dy(p, q)
         /\ 2 * (Dx(p, q) * Abs(t[2] - p[2]) - Dy(p, q) * Abs(t[1] - p[1])) <= Dx(p, q) + Dy(p, q)
         /\ 2 * (Dy(p, q) * Abs(t[1] - p[1]) - Dx(p, q) * Abs(t[2] - p[2])) <= Dx(p, q) + Dy(p, q)
<1> DEFINE dx == q[1] - p[1]
           dy == q[2] - p[2]
           a == t[1] - p[1]
           b == t[2] - p[2]
<1>1. p \in Int \X Int /\ q \in Int \X Int /\ t \in Int \X Int
  BY DEF Cells, Touched, Beside
<1>2. Between(t[1], p[1], q[1]) /\ Between(t[2], p[2], q[2])
  BY DEF Touched, Beside, Between
<1>3. 2 * Abs(dx * b - dy * a) <= Abs(dx) + Abs(dy)
  BY DEF Touched, Offset, Dx, Dy
<1>4. dx \in Int /\ dy \in Int /\ a \in Int /\ b \in Int
  BY <1>1
<1>5. Between(a, 0, dx) /\ Between(b, 0, dy)
  BY <1>1, <1>2 DEF Between
<1> HIDE DEF dx, dy, a, b
<1>6. /\ 2 * (Abs(dx) * Abs(b) - Abs(dy) * Abs(a)) <= Abs(dx) + Abs(dy)
      /\ 2 * (Abs(dy) * Abs(a) - Abs(dx) * Abs(b)) <= Abs(dx) + Abs(dy)
  BY <1>3, <1>4, <1>5, Slopes
<1>7. Abs(t[1] - p[1]) \in 0 .. Abs(dx) /\ Abs(t[2] - p[2]) \in 0 .. Abs(dy)
  BY <1>1, <1>2, StepsTo DEF dx, dy
<1>8. QED BY <1>1, <1>2, <1>6, <1>7 DEF Dx, Dy, dx, dy, a, b

(* A slanted line: the row next to a touched cell is checked. *)
LEMMA SlantedIsClear ==
  ASSUME NEW p \in Cells, NEW q \in Cells, LineOfSight(p, q), Shorter(p, q) # 0,
         NEW t \in Touched(p, q)
  PROVE  Cleared(t)
<1> DEFINE n == Longer(p, q)
           m == Shorter(p, q)
           a == IF Steep(p, q) THEN Abs(t[2] - p[2]) ELSE Abs(t[1] - p[1])
           b == IF Steep(p, q) THEN Abs(t[1] - p[1]) ELSE Abs(t[2] - p[2])
<1>1. /\ p[1] \in Int /\ p[2] \in Int /\ q[1] \in Int /\ q[2] \in Int
      /\ t \in Int \X Int /\ t[1] \in Int /\ t[2] \in Int
      /\ Between(t[1], p[1], q[1]) /\ Between(t[2], p[2], q[2])
  BY TouchedIs
<1>2. Dx(p, q) \in Nat /\ Dy(p, q) \in Nat
  BY <1>1 DEF Dx, Dy, Abs
<1>3. /\ n \in Int /\ m \in Int /\ 0 < m /\ m <= n
      /\ a \in 0 .. n /\ b \in 0 .. m
  BY <1>2, TouchedIs DEF Longer, Shorter, Steep
<1>4. 2 * (n * b - m * a) <= n + m /\ 2 * (m * a - n * b) <= n + m
  <2>1. CASE Steep(p, q)
    BY <2>1, <1>2, TouchedIs DEF Longer, Shorter
  <2>2. CASE ~Steep(p, q)
    BY <2>2, <1>2, TouchedIs DEF Longer, Shorter
  <2>3. QED BY <2>1, <2>2
<1> HIDE DEF n, m, a, b
<1>5. PICK i \in 0 .. n - 1 : i \in {a - 1, a} /\ (i * m) \div n \in {b - 1, b}
  BY <1>3, <1>4, RowIsNear
<1> DEFINE j == (i * m) \div n
<1>6. j \in Rows(p, q, i)
  BY <1>3, RowIsChecked DEF Rows, n, m
<1> DEFINE s == Passed(p, q, i, j)
<1>7. IsSafe(s)
  BY <1>6 DEF LineOfSight, n
<1> HIDE DEF j
<1>8. i \in Int /\ j \in Int /\ i \in {a - 1, a} /\ j \in {b - 1, b}
  BY <1>3, <1>5 DEF j
<1>9. /\ \A k \in {Abs(t[1] - p[1]) - 1, Abs(t[1] - p[1])} :
           p[1] + k * Sign(p[1], q[1]) + Lower(p[1], q[1]) \in t[1] - 1 .. t[1] + 1
      /\ \A k \in {Abs(t[2] - p[2]) - 1, Abs(t[2] - p[2])} :
           p[2] + k * Sign(p[2], q[2]) + Lower(p[2], q[2]) \in t[2] - 1 .. t[2] + 1
  BY <1>1, StepsTo
<1>10. s[1] \in t[1] - 1 .. t[1] + 1 /\ s[2] \in t[2] - 1 .. t[2] + 1
  <2>1. CASE Steep(p, q)
    BY <2>1, <1>8, <1>9 DEF Passed, a, b
  <2>2. CASE ~Steep(p, q)
    BY <2>2, <1>8, <1>9 DEF Passed, a, b
  <2>3. QED BY <2>1, <2>2
<1>11. s \in Int \X Int /\ t[1] \in s[1] - 1 .. s[1] + 1 /\ t[2] \in s[2] - 1 .. s[2] + 1
  <2>1. s = <<s[1], s[2]>>
    BY DEF Passed
  <2> HIDE DEF s
  <2>2. s[1] \in Int /\ s[2] \in Int
    BY <1>1, <1>10
  <2>3. QED BY <1>1, <1>10, <2>1, <2>2
<1> HIDE DEF s
<1>12. QED BY <1>1, <1>7, <1>11, SafeIsCleared

(* A line along an axis: the safe side of its step is next to the cell. *)
LEMMA AlongAxisIsClear ==
  ASSUME NEW p \in Cells, NEW q \in Cells, p # q, LineOfSight(p, q), Shorter(p, q) = 0,
         NEW t \in Touched(p, q)
  PROVE  Cleared(t)
<1> DEFINE n == Longer(p, q)
           a == IF Steep(p, q) THEN Abs(t[2] - p[2]) ELSE Abs(t[1] - p[1])
           i == IF a = n THEN n - 1 ELSE a
<1>1. /\ p[1] \in Int /\ p[2] \in Int /\ q[1] \in Int /\ q[2] \in Int
      /\ t \in Int \X Int /\ t[1] \in Int /\ t[2] \in Int
      /\ Between(t[1], p[1], q[1]) /\ Between(t[2], p[2], q[2])
  BY TouchedIs
<1>2. /\ Dx(p, q) \in Nat /\ Dy(p, q) \in Nat
      /\ Dx(p, q) = 0 => p[1] = q[1]
      /\ Dy(p, q) = 0 => p[2] = q[2]
  BY <1>1 DEF Dx, Dy, Abs
<1>3. n > 0 /\ n \in Int /\ a \in 0 .. n
  <2>1. p[1] # q[1] \/ p[2] # q[2]
    BY DEF Cells
  <2>2. QED BY <2>1, <1>2, TouchedIs DEF Longer, Shorter, Steep
<1>4. i \in 0 .. n - 1 /\ i \in {a - 1, a}
  BY <1>3
<1>5. PICK s \in {OneSide(p, q, i), OtherSide(p, q, i)} : IsSafe(s)
  BY <1>4 DEF LineOfSight
<1>6. /\ \A k \in {Abs(t[1] - p[1]) - 1, Abs(t[1] - p[1])} :
           p[1] + k * Sign(p[1], q[1]) + Lower(p[1], q[1]) \in t[1] - 1 .. t[1] + 1
      /\ \A k \in {Abs(t[2] - p[2]) - 1, Abs(t[2] - p[2])} :
           p[2] + k * Sign(p[2], q[2]) + Lower(p[2], q[2]) \in t[2] - 1 .. t[2] + 1
  BY <1>1, StepsTo
<1>7. i \in Int
  BY <1>4
<1> HIDE DEF i
<1>8. /\ s \in Int \X Int
      /\ s[1] \in t[1] - 1 .. t[1] + 1 /\ s[2] \in t[2] - 1 .. t[2] + 1
  <2>1. CASE Steep(p, q)
    <3>1. t[1] = p[1]
      BY <2>1, <1>1, <1>2 DEF Shorter, Between
    <3> DEFINE y == p[2] + i * Sign(p[2], q[2]) + Lower(p[2], q[2])
    <3>2. y \in t[2] - 1 .. t[2] + 1
      BY <2>1, <1>4, <1>6
    <3>3. OneSide(p, q, i) = <<p[1], y>> /\ OtherSide(p, q, i) = <<p[1] - 1, y>>
      BY <2>1 DEF OneSide, OtherSide, Passed
    <3> HIDE DEF y
    <3>4. s = <<p[1], y>> \/ s = <<p[1] - 1, y>>
      BY <1>5, <3>3
    <3>5. QED BY <3>1, <3>2, <3>4, <1>1
  <2>2. CASE ~Steep(p, q)
    <3>1. t[2] = p[2]
      BY <2>2, <1>1, <1>2 DEF Shorter, Between
    <3> DEFINE x == p[1] + i * Sign(p[1], q[1]) + Lower(p[1], q[1])
    <3>2. x \in t[1] - 1 .. t[1] + 1
      BY <2>2, <1>4, <1>6
    <3>3. OneSide(p, q, i) = <<x, p[2]>> /\ OtherSide(p, q, i) = <<x, p[2] - 1>>
      BY <2>2 DEF OneSide, OtherSide, Passed
    <3> HIDE DEF x
    <3>4. s = <<x, p[2]>> \/ s = <<x, p[2] - 1>>
      BY <1>5, <3>3
    <3>5. QED BY <3>1, <3>2, <3>4, <1>1
  <2>3. QED BY <2>1, <2>2
<1>9. t[1] \in s[1] - 1 .. s[1] + 1 /\ t[2] \in s[2] - 1 .. s[2] + 1
  BY <1>1, <1>8
<1>10. QED BY <1>1, <1>5, <1>8, <1>9, SafeIsCleared

(* What the line of sight promises: the straight line between the centres,  *)
(* half a cell beside the line it checks, is clear. *)
LEMMA SightIsClear ==
  ASSUME NEW p \in Cells, NEW q \in Cells, IsSafe(p), LineOfSight(p, q)
  PROVE  Link(p, q)
<1> SUFFICES ASSUME NEW t \in Touched(p, q) PROVE Cleared(t)
  BY DEF Link
<1>1. CASE p = q
  <2>1. /\ p \in Int \X Int /\ t \in Int \X Int
        /\ Between(t[1], p[1], q[1]) /\ Between(t[2], p[2], q[2])
    BY TouchedIs
  <2>2. t[1] = p[1] /\ t[2] = p[2]
    BY <1>1, <2>1 DEF Between
  <2>3. t[1] \in p[1] - 1 .. p[1] + 1 /\ t[2] \in p[2] - 1 .. p[2] + 1
    BY <2>1, <2>2
  <2>4. QED BY <2>1, <2>3, SafeIsCleared
<1>2. QED BY <1>1, AlongAxisIsClear, SlantedIsClear

(* The line from a cell to one next to it is clear if the cell is safe. *)
LEMMA NextIsClear ==
  ASSUME NEW p \in Cells, NEW q \in Cells, IsSafe(p),
         q[1] \in p[1] - 1 .. p[1] + 1, q[2] \in p[2] - 1 .. p[2] + 1
  PROVE  Link(p, q)
<1> SUFFICES ASSUME NEW t \in Touched(p, q) PROVE Cleared(t)
  BY DEF Link
<1>1. /\ p \in Int \X Int /\ q \in Int \X Int /\ t \in Int \X Int
      /\ Between(t[1], p[1], q[1]) /\ Between(t[2], p[2], q[2])
  BY TouchedIs
<1>2. t[1] \in p[1] - 1 .. p[1] + 1 /\ t[2] \in p[2] - 1 .. p[2] + 1
  BY <1>1 DEF Between
<1>3. QED BY <1>1, <1>2, SafeIsCleared

-----------------------------------------------------------------------------
(* Every node is safe and its line to its parent is clear, however parents  *)
(* change. *)
LinksClear ==
  /\ pc = "ready" => IsSafe(src)
  /\ \A c \in opened : IsSafe(c) /\ Link(c, parent[c])

(* What is safe and clear stays so while costmap and areas stay. *)
LEMMA SafetyStays ==
  ASSUME UNCHANGED <<costmap, allowed>>
  PROVE  /\ \A c : IsSafe(c)' <=> IsSafe(c)
         /\ \A p, q : Link(p, q)' <=> Link(p, q)
BY DEF IsSafe, Link, Cleared, HasObstacleAround, Obstacle, InForbiddenArea, Touched, Beside,
  Offset, Dx, Dy

LEMMA InitLinks == Init => LinksClear
  BY DEF Init, LinksClear

LEMMA MoveLinks == IInv /\ MoveStartAndGoal => LinksClear'
<1> SUFFICES ASSUME IInv, MoveStartAndGoal PROVE LinksClear'
  OBVIOUS
<1>1. /\ opened' = {} /\ UNCHANGED <<costmap, allowed>>
      /\ pc' = "failed" \/ (pc' = "ready" /\ src' \in NearestFree(src))
  BY DEF MoveStartAndGoal, search, IInv, Fresh
<1>2. ASSUME NEW c \in NearestFree(src) PROVE IsSafe(c)
  BY DEF NearestFree, Ring
<1>3. pc' = "ready" => IsSafe(src')
  BY <1>1, <1>2
<1>4. pc' = "ready" => IsSafe(src)'
  BY <1>1, <1>3 DEF IsSafe, HasObstacleAround, Obstacle, InForbiddenArea
<1>5. QED BY <1>1, <1>4 DEF LinksClear

(* The links of the next state, when costmap and areas stay and the phase   *)
(* is past the move of the start. *)
LEMMA LinksFrom ==
  ASSUME UNCHANGED <<costmap, allowed>>, pc' # "ready",
         \A c \in opened' : IsSafe(c) /\ Link(c, parent'[c])
  PROVE  LinksClear'
<1>1. \A c \in opened' : IsSafe(c)' /\ Link(c, parent'[c])
  BY SafetyStays
<1>2. ASSUME NEW c \in opened' PROVE IsSafe(c)' /\ Link(c, parent[c])'
  <2>1. Link(c, parent'[c])
    BY <1>1
  <2>2. Link(c, parent[c])'
    BY <2>1 DEF Link, Cleared, IsSafe, HasObstacleAround, Obstacle, InForbiddenArea, Touched, Beside,
  Offset, Dx, Dy
  <2>3. QED BY <1>1, <2>2
<1>3. QED BY <1>2 DEF LinksClear

LEMMA BeginLinks == IInv /\ LinksClear /\ Begin => LinksClear'
<1> SUFFICES ASSUME IInv, LinksClear, Begin PROVE LinksClear'
  OBVIOUS
<1>1. /\ UNCHANGED <<costmap, allowed>> /\ pc' = "search" /\ opened' = {src}
      /\ parent' = [parent EXCEPT ![src] = src] /\ IsSafe(src)
  BY DEF Begin, plan, LinksClear
<1>2. src \in Cells /\ parent \in [Cells -> Cells]
  BY DEF IInv, TypeOK
<1>3. parent'[src] = src
  BY <1>1, <1>2
<1>4. Link(src, src)
  <2>1. src[1] \in Int /\ src[2] \in Int
    BY <1>2 DEF Cells
  <2>2. QED BY <2>1, <1>1, <1>2, NextIsClear
<1>5. QED BY <1>1, <1>3, <1>4, LinksFrom

LEMMA ResetLinks == IInv /\ LinksClear /\ ResetParent => LinksClear'
<1> SUFFICES ASSUME IInv, LinksClear, ResetParent PROVE LinksClear'
  OBVIOUS
<1>1. /\ UNCHANGED <<costmap, allowed, opened>> /\ pc' = "relax" /\ pc = "search"
      /\ parent' = [parent EXCEPT ![curr] = CurrParent]
  BY DEF ResetParent, plan
<1>2. /\ curr \in opened /\ curr \in Cells /\ parent \in [Cells -> Cells] /\ opened \subseteq Cells
  BY <1>1 DEF IInv, TypeOK, Rooted, Searching
<1>3. Grandparent \in Cells
  BY <1>2 DEF Grandparent
<1>4. Link(curr, CurrParent)
  <2>1. CASE SkipsParent
    <3>1. LineOfSight(curr, Grandparent) /\ CurrParent = Grandparent
      BY <2>1 DEF SkipsParent, CurrParent
    <3>2. QED BY <3>1, <1>2, <1>3, SightIsClear DEF LinksClear
  <2>2. CASE ~SkipsParent
    BY <2>2, <1>2 DEF CurrParent, LinksClear
  <2>3. QED BY <2>1, <2>2
<1>5. ASSUME NEW c \in opened' PROVE IsSafe(c) /\ Link(c, parent'[c])
  <2>1. c \in opened /\ parent'[c] = IF c = curr THEN CurrParent ELSE parent[c]
    BY <1>1, <1>2
  <2>2. QED BY <2>1, <1>4 DEF LinksClear
<1>6. QED BY <1>1, <1>5, LinksFrom

LEMMA SetNeighborLinks == IInv /\ LinksClear /\ SetNeighbor => LinksClear'
<1> SUFFICES ASSUME IInv, LinksClear, SetNeighbor PROVE LinksClear'
  OBVIOUS
<1> DEFINE c == Moved(curr, turn)
<1>1. pc = "relax" /\ turn <= Corners /\ UNCHANGED <<plan, pc, curr>>
  BY Zenon DEF SetNeighbor
<1>2. UNCHANGED <<costmap, allowed>> /\ pc' # "ready"
  BY <1>1 DEF plan
<1>3. /\ curr \in Cells /\ parent \in [Cells -> Cells] /\ opened \subseteq Cells
      /\ turn \in 1 .. Corners + 1
  BY DEF IInv, TypeOK
<1>4. CASE c \in Neighbors(curr) /\ Improves(c, Via(c))
  <2>1. opened' = opened \cup {c} /\ parent' = [parent EXCEPT ![c] = curr]
    BY <1>4 DEF SetNeighbor
  <2>2. c \in Cells /\ IsSafe(c)
    BY <1>4 DEF Neighbors
  <2>3. curr[1] \in c[1] - 1 .. c[1] + 1 /\ curr[2] \in c[2] - 1 .. c[2] + 1
    <3>1. turn \in 1 .. 8
      BY <1>1, <1>3
    <3>2. Moves[turn][1] \in -1 .. 1 /\ Moves[turn][2] \in -1 .. 1
      BY <3>1 DEF Moves
    <3>3. curr[1] \in Int /\ curr[2] \in Int
      BY <1>3 DEF Cells
    <3>4. QED BY <3>2, <3>3 DEF Moved
  <2>4. Link(c, curr)
    BY <1>3, <2>2, <2>3, NextIsClear
  <2> HIDE DEF c
  <2>5. ASSUME NEW d \in opened' PROVE IsSafe(d) /\ Link(d, parent'[d])
    <3>1. CASE d = c
      <4>1. parent'[d] = curr
        BY <3>1, <1>3, <2>1, <2>2
      <4>2. QED BY <3>1, <4>1, <2>2, <2>4
    <3>2. CASE d # c
      <4>1. d \in opened /\ parent'[d] = parent[d]
        BY <3>2, <1>3, <2>1, <2>2
      <4>2. QED BY <4>1 DEF LinksClear
    <3>3. QED BY <3>1, <3>2
  <2>6. QED BY <1>2, <2>5, LinksFrom
<1>5. CASE ~(c \in Neighbors(curr) /\ Improves(c, Via(c)))
  <2>1. UNCHANGED <<opened, parent>>
    BY <1>5 DEF SetNeighbor
  <2>2. QED BY <2>1, <1>2, LinksFrom DEF LinksClear
<1>6. QED BY <1>4, <1>5

LEMMA NextLinks == IInv /\ LinksClear /\ [Next]_vars => LinksClear'
<1> SUFFICES ASSUME IInv, LinksClear, [Next]_vars PROVE LinksClear'
  OBVIOUS
<1>1. CASE TakeNext \/ Finish
  <2>1. UNCHANGED <<costmap, allowed, opened, parent>> /\ pc' # "ready"
    BY <1>1 DEF TakeNext, Finish, plan, search
  <2>2. QED BY <2>1, LinksFrom DEF LinksClear
<1>2. CASE UNCHANGED vars
  <2>1. UNCHANGED <<costmap, allowed, opened, parent, pc, src>>
    BY <1>2 DEF vars, plan, search
  <2>2. CASE pc # "ready"
    BY <2>1, <2>2, LinksFrom DEF LinksClear
  <2>3. CASE pc = "ready"
    <3>1. opened' = {} /\ IsSafe(src)
      BY <2>1, <2>3 DEF IInv, Fresh, LinksClear
    <3>2. IsSafe(src)'
      BY <2>1, <3>1 DEF IsSafe, HasObstacleAround, Obstacle, InForbiddenArea
    <3>3. QED BY <3>1, <3>2 DEF LinksClear
  <2>4. QED BY <2>2, <2>3
<1>3. QED
  BY <1>1, <1>2, MoveLinks, BeginLinks, ResetLinks, SetNeighborLinks DEF Next

-----------------------------------------------------------------------------
(* backtrace stays among the nodes. *)
LEMMA TraceIsOpened == IInv /\ pc = "found" => Trace \subseteq opened
<1> SUFFICES ASSUME IInv, pc = "found" PROVE Trace \subseteq opened
  OBVIOUS
<1> DEFINE N == Cardinality(opened)
           V == SUBSET opened
           F == [n \in Nat |-> [S \in V |-> S \cup {parent[c] : c \in S}]]
           up[n \in 0 .. N] ==
             IF n = 0 THEN {curr} ELSE LET S == up[n - 1] IN S \cup {parent[c] : c \in S}
<1>1. N \in Nat
  <2>1. IsFiniteSet(0 .. SizeX - 1) /\ IsFiniteSet(0 .. SizeY - 1)
    BY FS_Interval
  <2>2. IsFiniteSet(Cells)
    BY <2>1, FS_Product DEF Cells
  <2>3. IsFiniteSet(opened)
    BY <2>2, FS_Subset DEF IInv, TypeOK
  <2>4. QED BY <2>3, FS_CardinalityType
<1>2. {curr} \in V
  BY DEF IInv, Rooted, Searching
<1>3. \A c \in opened : parent[c] \in opened
  BY DEF IInv, Rooted, Descends, Searching
<1>4. ASSUME NEW n \in Nat, NEW S \in V
      PROVE  F[n][S] \in V /\ F[n][S] = S \cup {parent[c] : c \in S}
  BY <1>3
<1>5. Trace = up[N]
  BY Zenon DEF Trace
<1> HIDE DEF N, V, F
<1>6. PICK f \in [0 .. N -> V] : f[0] = {curr} /\ \A n \in 1 .. N : f[n] = F[n][f[n - 1]]
  <2>1. \A n \in Nat, S \in V : F[n][S] \in V
    BY <1>4
  <2>2. StaysIn(F, V)
    BY <2>1 DEF StaysIn
  <2>3. \E f : Steps(f, N, V, {curr}, F)
    BY <1>1, <1>2, <2>2, Recursion, Zenon
  <2>4. QED BY <2>3 DEF Steps
<1>7. f = [n \in 0 .. N |-> IF n = 0 THEN {curr}
                            ELSE LET S == f[n - 1] IN S \cup {parent[c] : c \in S}]
  <2>1. ASSUME NEW n \in 1 .. N
        PROVE  f[n] = f[n - 1] \cup {parent[c] : c \in f[n - 1]}
    <3>1. n \in Nat /\ n - 1 \in 0 .. N
      BY <1>1
    <3>2. f[n - 1] \in V /\ f[n] = F[n][f[n - 1]]
      BY <3>1, <1>6
    <3>3. QED BY <3>1, <3>2, <1>4
  <2>2. QED BY <1>1, <1>6, <2>1
<1>8. up = [n \in 0 .. N |-> IF n = 0 THEN {curr}
                             ELSE LET S == up[n - 1] IN S \cup {parent[c] : c \in S}]
  BY <1>7, Zenon
<1> HIDE DEF up
<1>9. QED
  <2> DEFINE T == {n \in Nat : n <= N => up[n] \subseteq opened}
  <2>1. 0 \in T
    BY <1>1, <1>2, <1>8 DEF V
  <2>2. ASSUME NEW n \in Nat, n \in T PROVE n + 1 \in T
    <3>1. CASE n + 1 <= N
      <4>1. up[n] \subseteq opened
        BY <1>1, <2>2, <3>1
      <4>2. n + 1 \in 0 .. N /\ n + 1 # 0 /\ (n + 1) - 1 = n
        BY <1>1, <3>1
      <4>3. up[n + 1] = LET S == up[(n + 1) - 1] IN S \cup {parent[c] : c \in S}
        BY <1>8, <4>2
      <4>4. up[n + 1] = up[n] \cup {parent[c] : c \in up[n]}
        BY <4>2, <4>3
      <4>5. QED BY <1>3, <4>1, <4>4
    <3>2. QED BY <3>1
  <2> HIDE DEF T
  <2>3. N \in T
    BY <1>1, <2>1, <2>2, SetInduction
  <2>4. QED BY <1>1, <1>5, <2>3 DEF T

(* The path found is clear: what the line of sight checks beside it, the    *)
(* clearance of the cells and the parents revised behind the queue's back   *)
(* add up on every costmap, for every start, goal and set of areas. *)
THEOREM PathIsFree == Spec => []PathIsClear
<1>1. IInv /\ LinksClear => PathIsClear
  <2> SUFFICES ASSUME IInv, LinksClear, pc = "found", NEW c \in Trace, NEW t \in Touched(c, parent[c])
               PROVE  ~Obstacle(t)
    BY DEF PathIsClear
  <2>1. c \in opened
    BY TraceIsOpened
  <2>2. Cleared(t)
    BY <2>1 DEF LinksClear, Link
  <2>3. QED BY <2>2, ClearedIsFree
<1>2. QED
  BY <1>1, Invariance, InitLinks, NextLinks, PTL DEF Spec

-----------------------------------------------------------------------------
(* What holds of the modules holds of the run's specification, for any     *)
(* constants. *)
THEOREM AllHold == MCSpec => []LinksDescend /\ []PathIsClear /\ []KeptPathIsSafe
<1>1. MCInit => Init /\ Reuse!Init
  BY DEF MCInit
<1>2. [MCNext]_allVars => [Next]_vars /\ [Reuse!Next]_reuseVars
  BY DEF MCNext, allVars
<1>3. Init /\ [][Next]_vars => []LinksDescend /\ []PathIsClear
  BY TreeUnderStart, PathIsFree, PTL DEF Spec
<1>4. QED BY <1>1, <1>2, <1>3, KeptPathIsGood, PTL DEF MCSpec
=============================================================================
