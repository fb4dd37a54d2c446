-------------------------- MODULE PathSmoothing_proof --------------------------
(***************************************************************************)
(* The corners of the local path that become curves stay the same while    *)
(* the regions do, for every way, robot, limit and lock distance: a region *)
(* takes the lock that is its own.  Motion_proof extends this module.      *)
(***************************************************************************)
EXTENDS MCMotion, Sequences, FiniteSetTheorems, WellFoundedInduction, TLAPS

(* Induction on a set, and what it gives for a function defined by recursion. *)
LEMMA LeastMember ==
  ASSUME NEW T, T \subseteq Nat, T # {}
  PROVE  \E x \in T : \A y \in T : ~(y < x)
<1> DEFINE R == OpToRel(<, Nat)
<1>1. IsWellFoundedOn(R, Nat)
  BY NatLessThanWellFounded
<1>2. \E x \in T : \A y \in T : ~(<<y, x>> \in R)
  <2> HIDE DEF R
  <2> QED BY <1>1, WFMin, Zenon
<1>3. PICK x \in T : \A y \in T : ~(<<y, x>> \in R)
  BY <1>2
<1>4. ASSUME NEW y \in T, y < x PROVE FALSE
  <2>1. <<y, x>> \in Nat \X Nat
    OBVIOUS
  <2>2. <<y, x>> \in R
    BY <2>1, <1>4 DEF OpToRel
  <2>3. QED BY <1>3, <2>2
<1>5. QED BY <1>4

LEMMA SetInduction ==
  ASSUME NEW S, 0 \in S, \A n \in Nat : n \in S => n + 1 \in S
  PROVE  Nat \subseteq S
<1> DEFINE T == Nat \ S
<1> SUFFICES ASSUME T # {} PROVE FALSE
  OBVIOUS
<1>1. T \subseteq Nat
  OBVIOUS
<1> HIDE DEF T
<1>2. PICK x \in T : \A y \in T : ~(y < x)
  BY <1>1, LeastMember
<1>3. x \in Nat \ S /\ x # 0
  BY DEF T
<1>4. x - 1 \in Nat /\ x - 1 < x
  BY <1>3
<1>5. x - 1 \in S
  BY <1>2, <1>4 DEF T
<1>6. (x - 1) + 1 \in S
  BY <1>4, <1>5
<1>7. QED BY <1>3, <1>6

(* The first N steps of the recursion by F from v0, on values in V. *)
Steps(f, N, V, v0, F) ==
  f \in [0 .. N -> V] /\ f[0] = v0 /\ \A n \in 1 .. N : f[n] = F[n][f[n - 1]]

StaysIn(F, V) == \A n \in Nat : \A v \in V : F[n][v] \in V

LEMMA Recursion ==
  \A V, v0, F : v0 \in V /\ StaysIn(F, V) => \A N \in Nat : \E f : Steps(f, N, V, v0, F)
<1> SUFFICES ASSUME NEW V, NEW v0 \in V, NEW F, StaysIn(F, V)
             PROVE  \A N \in Nat : \E f : Steps(f, N, V, v0, F)
  BY Zenon
<1> DEFINE S == {N \in Nat : \E f : Steps(f, N, V, v0, F)}
<1>1. 0 \in S
  <2> DEFINE f == [n \in 0 .. 0 |-> v0]
  <2>1. Steps(f, 0, V, v0, F)
    BY DEF Steps
  <2>2. QED BY <2>1
<1>2. ASSUME NEW N \in Nat, N \in S PROVE N + 1 \in S
  <2>1. PICK f : Steps(f, N, V, v0, F)
    BY <1>2
  <2> DEFINE h == [n \in 0 .. N + 1 |-> IF n = N + 1 THEN F[N + 1][f[N]] ELSE f[n]]
  <2>2. F[N + 1][f[N]] \in V
    BY <2>1 DEF Steps, StaysIn
  <2>3. ASSUME NEW n \in 0 .. N PROVE h[n] = f[n]
    BY <2>1
  <2>4. h[N + 1] = F[N + 1][f[N]] /\ h \in [0 .. N + 1 -> V]
    BY <2>1, <2>2 DEF Steps
  <2> HIDE DEF h
  <2>5. ASSUME NEW n \in 1 .. N + 1 PROVE h[n] = F[n][h[n - 1]]
    <3>1. n - 1 \in 0 .. N
      OBVIOUS
    <3>2. CASE n = N + 1
      BY <3>1, <3>2, <2>3, <2>4
    <3>3. CASE n # N + 1
      <4>1. n \in 1 .. N
        BY <3>3
      <4>2. QED BY <3>1, <4>1, <2>1, <2>3 DEF Steps
    <3>4. QED BY <3>2, <3>3
  <2>6. h[0] = v0
    BY <2>1, <2>3 DEF Steps
  <2>7. Steps(h, N + 1, V, v0, F)
    BY <2>4, <2>5, <2>6 DEF Steps
  <2>8. N + 1 \in Nat
    OBVIOUS
  <2>9. QED BY <2>7, <2>8
<1> HIDE DEF S
<1>3. Nat \subseteq S
  BY <1>1, <1>2, SetInduction
<1>4. QED BY <1>3 DEF S

LEMMA OnlyOne ==
  ASSUME NEW x
  PROVE  (CHOOSE s \in {x} : TRUE) = x
<1>1. \E s \in {x} : TRUE
  OBVIOUS
<1>2. (CHOOSE s \in {x} : TRUE) \in {x}
  BY <1>1, Zenon
<1>3. QED BY <1>2

-----------------------------------------------------------------------------
(* The choice of corners (PathSmoothing). *)

LEMMA SmoothConstants ==
  /\ smooth_region_match_dist_ \in Nat /\ smooth_region_max_miss_ \in Nat
  /\ smooth_region_max_count_ \in Nat /\ smooth_region_max_count_ > 0
  /\ Vertices \in Seq(Nat) /\ Len(Vertices) > 1 /\ Robots \subseteq Nat
  /\ \A i \in 2 .. Len(Vertices) : Vertices[i - 1] < Vertices[i]
  /\ Turns \subseteq [1 .. Len(Vertices) - 1 -> -180 .. 180]
  BY MCAssumption DEF Smoothing!RegionAssumption, Smoothing!VertexAssumption

LEMMA VerticesAre ==
  /\ Len(Vertices) \in Nat
  /\ \A i \in 1 .. Len(Vertices) : Vertices[i] \in Nat
  /\ \A a \in Turns : \A i \in 1 .. Len(Vertices) - 1 : a[i] \in Int
<1>1. Vertices \in Seq(Nat)
  BY SmoothConstants
<1>2. Len(Vertices) \in Nat /\ \A i \in 1 .. Len(Vertices) : Vertices[i] \in Nat
  BY <1>1
<1>3. ASSUME NEW a \in Turns, NEW i \in 1 .. Len(Vertices) - 1 PROVE a[i] \in Int
  <2>1. a \in [1 .. Len(Vertices) - 1 -> -180 .. 180]
    BY SmoothConstants
  <2>2. a[i] \in -180 .. 180
    BY <2>1
  <2>3. \A x \in -180 .. 180 : x \in Int
    OBVIOUS
  <2>4. QED BY <2>2, <2>3, Zenon
<1>4. QED BY <1>2, <1>3

LEMMA PercentIs ==
  ASSUME NEW p \in Int, NEW n \in Int
  PROVE  Smoothing!Percent(p, n) \in Int
<1>1. PICK m \in Int : m = p * n
  OBVIOUS
<1>2. QED BY <1>1 DEF Smoothing!Percent

LEMMA DistanceIs ==
  ASSUME NEW a \in Int, NEW b \in Int
  PROVE  /\ Smoothing!Abs(a - b) \in Nat /\ Smoothing!Abs(a - b) = Smoothing!Abs(b - a)
         /\ Smoothing!Abs(a - b) = 0 <=> a = b
         /\ \A c \in Int : Smoothing!Abs(a - b) <= Smoothing!Abs(a - c) + Smoothing!Abs(c - b)
  BY DEF Smoothing!Abs

(* The first of the least exists, whatever the ranks. *)
LEMMA FirstIs ==
  ASSUME NEW n \in Nat, NEW S, S \subseteq 1 .. n, S # {}, NEW f \in [S -> Int]
  PROVE  Smoothing!First(S, f) \in S /\ \A y \in S : f[Smoothing!First(S, f)] <= f[y]
<1> DEFINE Better(x, y) == f[x] < f[y] \/ (f[x] = f[y] /\ x < y)
           Has(R) == \E x \in R : \A y \in R \ {x} : Better(x, y)
           T == {m \in Nat : \A R \in SUBSET (S \cap 1 .. m) : R # {} => Has(R)}
<1>1. 0 \in T
  <2>1. ASSUME NEW R \in SUBSET (S \cap 1 .. 0), R # {} PROVE FALSE
    <3>1. PICK y \in R : y \in 1 .. 0
      BY <2>1
    <3>2. QED BY <3>1
  <2> HIDE DEF Has
  <2>2. QED BY <2>1
<1>2. ASSUME NEW m \in Nat, m \in T PROVE m + 1 \in T
  <2> SUFFICES ASSUME NEW R \in SUBSET (S \cap 1 .. m + 1), R # {} PROVE Has(R)
    OBVIOUS
  <2> DEFINE Q == R \ {m + 1}
  <2>1. Q \in SUBSET (S \cap 1 .. m)
    OBVIOUS
  <2>2. Q # {} => Has(Q)
    BY <1>2, <2>1
  <2>3. CASE m + 1 \notin R
    <3>1. Q = R
      BY <2>3
    <3> HIDE DEF Has, Q
    <3>2. QED BY <2>2, <3>1
  <2>4. CASE m + 1 \in R /\ Q = {}
    <3>1. R = {m + 1}
      BY <2>4
    <3>2. QED BY <3>1
  <2>5. CASE m + 1 \in R /\ Q # {}
    <3>1. PICK x \in Q : \A y \in Q \ {x} : Better(x, y)
      BY <2>2, <2>5
    <3>2. x \in S /\ m + 1 \in S /\ x \in Nat /\ x < m + 1 /\ f[x] \in Int /\ f[m + 1] \in Int /\ x # m + 1
      BY <2>1, <2>5
    <3>3. CASE f[m + 1] < f[x]
      <4>1. ASSUME NEW y \in R \ {m + 1} PROVE f[m + 1] < f[y]
        <5>1. y = x \/ Better(x, y)
          BY <3>1
        <5>2. y \in S /\ f[y] \in Int
          OBVIOUS
        <5>3. QED BY <3>2, <3>3, <5>1, <5>2
      <4>2. QED BY <2>5, <4>1
    <3>4. CASE ~(f[m + 1] < f[x])
      <4>1. Better(x, m + 1)
        BY <3>2, <3>4
      <4>2. ASSUME NEW y \in R \ {x} PROVE Better(x, y)
        <5>1. y = m + 1 \/ y \in Q \ {x}
          OBVIOUS
        <5> HIDE DEF Better, Q
        <5>2. QED BY <3>1, <4>1, <5>1
      <4>3. x \in R
        BY <3>1
      <4> HIDE DEF Better
      <4>4. QED BY <4>2, <4>3
    <3>5. QED BY <3>3, <3>4
  <2>6. QED BY <2>3, <2>4, <2>5
<1> HIDE DEF T
<1>3. n \in T
  BY <1>1, <1>2, SetInduction
<1>4. S \in SUBSET (S \cap 1 .. n)
  OBVIOUS
<1>5. Has(S)
  BY <1>3, <1>4 DEF T
<1> DEFINE x == Smoothing!First(S, f)
<1>6. x \in S /\ \A y \in S \ {x} : f[x] < f[y] \/ (f[x] = f[y] /\ x < y)
  BY <1>5, Zenon DEF Smoothing!First
<1> HIDE DEF x
<1>7. ASSUME NEW y \in S PROVE f[x] <= f[y]
  <2>1. f[x] \in Int /\ f[y] \in Int
    BY <1>6
  <2>2. CASE y = x
    BY <2>1, <2>2
  <2>3. CASE y # x
    BY <1>6, <2>1, <2>3
  <2>4. QED BY <2>2, <2>3
<1>8. QED BY <1>6, <1>7 DEF x

LEMMA WeightIs ==
  ASSUME NEW t \in Int
  PROVE  Smoothing!Weight(t) \in Int /\ Smoothing!Abs(t) \in Int
<1>1. PICK a \in Int : a = Smoothing!Abs(t)
  BY DEF Smoothing!Abs
<1>2. PICK b \in Int : b = (100 * (a - 15)) \div 45
  OBVIOUS
<1>3. PICK x \in Int : x = Smoothing!Clamp(b, 0, 100)
  BY DEF Smoothing!Clamp
<1>4. Smoothing!Weight(t) = (x * x * (300 - 2 * x)) \div 10000
  BY <1>1, <1>2, <1>3
  DEF Smoothing!Weight, Smoothing!min_turn_angle, Smoothing!full_turn_angle
<1>5. PICK y \in Int : y = x * x
  OBVIOUS
<1>6. PICK z \in Int : z = y * (300 - 2 * x)
  OBVIOUS
<1>7. QED BY <1>1, <1>4, <1>5, <1>6

LEMMA SmoothLeastOfTwo ==
  ASSUME NEW a \in Int, NEW b \in Int
  PROVE  /\ Smoothing!Min({a, b}) = IF a < b THEN a ELSE b
         /\ Smoothing!Max({a, b}) = IF a < b THEN b ELSE a
<1> DEFINE m == IF a < b THEN a ELSE b
           n == IF a < b THEN b ELSE a
<1>1. m \in {a, b} /\ \A y \in {a, b} : m <= y
  OBVIOUS
<1>2. n \in {a, b} /\ \A y \in {a, b} : n >= y
  OBVIOUS
<1>3. \A x \in {a, b} : (\A y \in {a, b} : x <= y) => x = m
  OBVIOUS
<1>4. \A x \in {a, b} : (\A y \in {a, b} : x >= y) => x = n
  OBVIOUS
<1> HIDE DEF m, n
<1>5. Smoothing!Min({a, b}) = m
  BY <1>1, <1>3, Zenon DEF Smoothing!Min
<1>6. Smoothing!Max({a, b}) = n
  BY <1>2, <1>4, Zenon DEF Smoothing!Max
<1>7. QED BY <1>5, <1>6 DEF m, n

LEMMA LeastOfFive ==
  ASSUME NEW a \in Int, NEW b \in Int, NEW c \in Int, NEW d \in Int, NEW e \in Int
  PROVE  Smoothing!Min({a, b, c, d, e}) \in Int
<1> DEFINE S == {a, b, c, d, e}
           L(x, y) == IF x < y THEN x ELSE y
           m == L(a, L(b, L(c, L(d, e))))
<1>1. m \in S /\ \A y \in S : m <= y
  OBVIOUS
<1>2. S \subseteq Int
  OBVIOUS
<1> HIDE DEF S, m
<1>3. Smoothing!Min(S) \in S
  BY <1>1, Zenon DEF Smoothing!Min
<1>4. QED BY <1>2, <1>3 DEF S

LEMMA CandidateIs ==
  ASSUME NEW r \in Nat, NEW i \in 1 .. Len(Vertices) - 1, NEW t \in Int
  PROVE  LET c == Smoothing!Candidate(r, i, t)
         IN  /\ c.index = i /\ c.si = Vertices[i] - r /\ c.sign \in {1, -1}
             /\ c.start \in Int /\ c.end \in Int /\ c.score \in Int
<1>1. PICK s \in Int, w \in Int, q \in Int, a \in Int :
        /\ s = Smoothing!At(r, i) /\ s = Vertices[i] - r /\ w = Smoothing!Weight(t)
        /\ q = Smoothing!Total(r) /\ a = Smoothing!Abs(t)
  <2>1. Len(Vertices) \in 1 .. Len(Vertices) /\ i \in 1 .. Len(Vertices)
    BY VerticesAre, SmoothConstants
  <2>2. Vertices[i] - r \in Int /\ Vertices[Len(Vertices)] - r \in Int
    BY <2>1, VerticesAre
  <2>3. QED BY <2>2, WeightIs DEF Smoothing!At, Smoothing!Total
<1>2. PICK b \in Int : b = Smoothing!Percent(45 + Smoothing!Percent(55, w), 20)
  <2>1. PICK v \in Int : v = Smoothing!Percent(55, w)
    BY PercentIs
  <2>2. 45 + v \in Int /\ 20 \in Int
    OBVIOUS
  <2>3. Smoothing!Percent(45 + v, 20) \in Int
    BY <2>2, PercentIs
  <2>4. QED BY <2>1, <2>3
<1>3. PICK x \in Int : x = Smoothing!Percent(45, Smoothing!Min({s, 25}))
  <2>1. Smoothing!Min({s, 25}) \in Int
    BY SmoothLeastOfTwo
  <2>2. QED BY <2>1, PercentIs
<1>4. PICK y \in Int : y = Smoothing!Percent(45, Smoothing!Min({q - s, 25}))
  <2>1. Smoothing!Min({q - s, 25}) \in Int
    BY SmoothLeastOfTwo
  <2>2. QED BY <2>1, PercentIs
<1>5. Smoothing!Reach(r, i, t) = Smoothing!Min({b, x, y, s - 2, q - s - 2})
  BY <1>1, <1>2, <1>3, <1>4
  DEF Smoothing!Reach, Smoothing!max_smooth_radius, Smoothing!judge_window_dist, Smoothing!min_output_s_gap
<1>6. PICK d \in Int : d = Smoothing!Reach(r, i, t)
  <2>1. s - 2 \in Int /\ q - s - 2 \in Int
    OBVIOUS
  <2>2. QED BY <1>5, <2>1, LeastOfFive
<1>7. PICK g \in Int : g = a * (50 + w \div 2)
  BY <1>1
<1>8. Smoothing!Candidate(r, i, t).index = i /\ Smoothing!Candidate(r, i, t).si = s
  BY <1>1 DEF Smoothing!Candidate
<1>9. /\ Smoothing!Candidate(r, i, t).sign = IF t >= 0 THEN 1 ELSE -1
      /\ Smoothing!Candidate(r, i, t).score = g
      /\ Smoothing!Candidate(r, i, t).start = s - d /\ Smoothing!Candidate(r, i, t).end = s + d
  BY <1>1, <1>6, <1>7 DEF Smoothing!Candidate
<1>10. QED BY <1>1, <1>8, <1>9

(* What may become a curve with the robot at r and these angles. *)
Curves(r, angles) == {Smoothing!Candidate(r, i, angles[i]) : i \in 1 .. Len(Vertices) - 1}

LEMMA CurveIs ==
  ASSUME NEW r \in Robots, NEW angles \in Turns, NEW c \in Curves(r, angles)
  PROVE  /\ c.index \in 1 .. Len(Vertices) - 1 /\ c.si = Vertices[c.index] - r
         /\ c.si \in Int /\ r + c.si = Vertices[c.index] /\ Vertices[c.index] \in Nat
         /\ c.sign \in {1, -1} /\ c.start \in Int /\ c.end \in Int /\ c.score \in Int
<1>1. PICK i \in 1 .. Len(Vertices) - 1 : c = Smoothing!Candidate(r, i, angles[i])
  BY DEF Curves
<1>2. r \in Nat /\ angles[i] \in Int
  BY SmoothConstants, VerticesAre
<1>3. /\ c.index = i /\ c.si = Vertices[i] - r /\ c.sign \in {1, -1}
      /\ c.start \in Int /\ c.end \in Int /\ c.score \in Int
  BY <1>1, <1>2, CandidateIs
<1>4. i \in 1 .. Len(Vertices) /\ Vertices[i] \in Nat
  BY VerticesAre
<1>5. QED BY <1>2, <1>3, <1>4
LEMMA AppendIs ==
  ASSUME NEW A, NEW s \in Seq(A), NEW x \in A
  PROVE  /\ Append(s, x) \in Seq(A) /\ Len(Append(s, x)) = Len(s) + 1 /\ Len(s) \in Nat
         /\ Append(s, x)[Len(s) + 1] = x /\ \A i \in 1 .. Len(s) : Append(s, x)[i] = s[i]
  OBVIOUS

LEMMA CandidatesAre ==
  ASSUME NEW r \in Robots, NEW angles \in Turns, NEW free
  PROVE  Smoothing!Candidates(r, angles, free) \in Seq(Curves(r, angles))
<1> DEFINE N == Len(Vertices) - 1
           V == Seq(Curves(r, angles))
           upto[i \in 0 .. Len(Vertices) - 1] ==
             IF i = 0 THEN <<>>
             ELSE IF Smoothing!IsCandidate(r, i, angles[i], i \in free)
             THEN Append(upto[i - 1], Smoothing!Candidate(r, i, angles[i])) ELSE upto[i - 1]
           Grown(i, v) == IF Smoothing!IsCandidate(r, i, angles[i], i \in free)
                         THEN Append(v, Smoothing!Candidate(r, i, angles[i])) ELSE v
           F == [i \in Nat |-> [v \in V |-> IF i \in 1 .. N THEN Grown(i, v) ELSE v]]
<1>1. N \in Nat /\ <<>> \in V
  BY SmoothConstants, VerticesAre
<1>2. ASSUME NEW i \in 1 .. N, NEW v \in V PROVE Grown(i, v) \in V
  <2>1. Smoothing!Candidate(r, i, angles[i]) \in Curves(r, angles)
    BY <1>2 DEF Curves
  <2>2. QED BY <2>1, <1>2, AppendIs
<1>3. StaysIn(F, V)
  BY <1>2 DEF StaysIn
<1>4. PICK g : Steps(g, N, V, <<>>, F)
  <2> HIDE DEF F, V, N
  <2>1. QED BY <1>1, <1>3, Recursion
<1>5. g = [i \in 0 .. N |-> IF i = 0 THEN <<>> ELSE Grown(i, g[i - 1])]
  <2>1. ASSUME NEW i \in 1 .. N PROVE g[i] = Grown(i, g[i - 1])
    <3>1. i \in Nat /\ i - 1 \in 0 .. N
      BY <1>1
    <3>2. g[i - 1] \in V /\ g[i] = F[i][g[i - 1]]
      BY <3>1, <1>4 DEF Steps
    <3> HIDE DEF Grown
    <3>3. QED BY <3>1, <3>2
  <2> HIDE DEF Grown, F, V
  <2>2. QED BY <1>1, <1>4, <2>1 DEF Steps
<1>6. upto = [i \in 0 .. N |-> IF i = 0 THEN <<>> ELSE Grown(i, upto[i - 1])]
  BY <1>5, Zenon
<1> HIDE DEF upto, Grown, F, V
<1> DEFINE S == {n \in Nat : n <= N => upto[n] \in V}
<1>7. 0 \in S
  BY <1>1, <1>6
<1>8. ASSUME NEW n \in Nat, n \in S PROVE n + 1 \in S
  <2>1. CASE n + 1 <= N
    <3>1. n + 1 \in 1 .. N /\ (n + 1) - 1 = n /\ n <= N
      BY <2>1, <1>1
    <3>2. upto[n + 1] = Grown(n + 1, upto[n])
      BY <1>6, <3>1
    <3>3. QED BY <1>2, <1>8, <3>1, <3>2
  <2>2. CASE ~(n + 1 <= N)
    BY <2>2
  <2>3. QED BY <2>1, <2>2
<1> HIDE DEF S
<1>9. N \in S
  BY <1>1, <1>7, <1>8, SetInduction
<1>10. upto[N] \in V
  BY <1>1, <1>9 DEF S
<1>11. Smoothing!Candidates(r, angles, free) = upto[N]
  BY DEF Smoothing!Candidates, upto
<1>12. QED BY <1>10, <1>11 DEF V

(* What a region is made of. *)
Ranges(r, angles) ==
  {g \in [cs : Seq(Curves(r, angles)), start : Int, end : Int, sign : {1, -1}] : g.cs # <<>>}

LEMMA JoinedIs ==
  ASSUME NEW r \in Robots, NEW angles \in Turns, NEW rs \in Seq(Ranges(r, angles)),
         NEW c \in Curves(r, angles)
  PROVE  Smoothing!Joined(rs, c) \in Seq(Ranges(r, angles))
<1> DEFINE R == Ranges(r, angles)
           C == Curves(r, angles)
           back == rs[Len(rs)]
           one == [cs |-> <<c>>, start |-> c.start, end |-> c.end, sign |-> c.sign]
           more == [back EXCEPT !.cs = Append(@, c), !.start = Smoothing!Min({@, c.start}),
                                !.end = Smoothing!Max({@, c.end})]
           alone == rs = <<>> \/ back.sign # c.sign \/ c.si - back.end > Smoothing!region_group_gap
<1>1. c.start \in Int /\ c.end \in Int /\ c.sign \in {1, -1}
  BY CurveIs
<1>2. one \in R
  <2>1. <<c>> \in Seq(C) /\ <<c>> # <<>>
    OBVIOUS
  <2>2. QED BY <1>1, <2>1 DEF Ranges
<1>3. CASE alone
  <2>1. Smoothing!Joined(rs, c) = Append(rs, one)
    BY <1>3 DEF Smoothing!Joined
  <2> HIDE DEF one
  <2>2. QED BY <1>2, <2>1, AppendIs
<1>4. CASE ~alone
  <2>1. Len(rs) \in 1 .. Len(rs) /\ back \in R
    BY <1>4
  <2>2. PICK l \in R : l = back
    BY <2>1
  <2>3. l.cs \in Seq(C) /\ l.start \in Int /\ l.end \in Int /\ l.sign \in {1, -1}
        /\ l \in [cs : Seq(C), start : Int, end : Int, sign : {1, -1}]
    BY DEF Ranges
  <2>4. Append(l.cs, c) \in Seq(C) /\ Append(l.cs, c) # <<>>
    <3>1. Append(l.cs, c) \in Seq(C) /\ Len(Append(l.cs, c)) = Len(l.cs) + 1 /\ Len(l.cs) \in Nat
      BY <2>3, AppendIs
    <3>2. QED BY <3>1
  <2>5. Smoothing!Min({l.start, c.start}) \in Int /\ Smoothing!Max({l.end, c.end}) \in Int
    BY <1>1, <2>3, SmoothLeastOfTwo
  <2> DEFINE m == [l EXCEPT !.cs = Append(l.cs, c), !.start = Smoothing!Min({l.start, c.start}),
                            !.end = Smoothing!Max({l.end, c.end})]
  <2>6. m = more
    BY <2>2
  <2>7. m \in R
    <3>1. m \in [cs : Seq(C), start : Int, end : Int, sign : {1, -1}]
      BY <2>3, <2>4, <2>5
    <3>2. m.cs = Append(l.cs, c)
      BY <2>3
    <3>3. QED BY <2>4, <3>1, <3>2 DEF Ranges
  <2>8. Smoothing!Joined(rs, c) = [rs EXCEPT ![Len(rs)] = more]
    BY <1>4 DEF Smoothing!Joined
  <2> HIDE DEF R, more, m
  <2>9. rs \in Seq(R) /\ more \in R
    BY <2>6, <2>7 DEF R
  <2>10. [rs EXCEPT ![Len(rs)] = more] \in Seq(R)
    BY <2>1, <2>9
  <2>11. QED BY <2>8, <2>10 DEF R
<1>5. QED BY <1>3, <1>4

LEMMA RegionsAre ==
  ASSUME NEW r \in Robots, NEW angles \in Turns, NEW cs \in Seq(Curves(r, angles))
  PROVE  Smoothing!RegionsOf(cs) \in Seq(Ranges(r, angles))
<1> DEFINE N == Len(cs)
           V == Seq(Ranges(r, angles))
           upto[k \in 0 .. Len(cs)] == IF k = 0 THEN <<>> ELSE Smoothing!Joined(upto[k - 1], cs[k])
           Grown(k, v) == Smoothing!Joined(v, cs[k])
           F == [k \in Nat |-> [v \in V |-> IF k \in 1 .. N THEN Grown(k, v) ELSE v]]
<1>1. N \in Nat /\ <<>> \in V
  OBVIOUS
<1>2. ASSUME NEW k \in 1 .. N, NEW v \in V PROVE Grown(k, v) \in V
  <2>1. cs[k] \in Curves(r, angles)
    BY <1>2
  <2>2. QED BY <2>1, <1>2, JoinedIs
<1>3. StaysIn(F, V)
  BY <1>2 DEF StaysIn
<1>4. PICK g : Steps(g, N, V, <<>>, F)
  <2> HIDE DEF F, V, N
  <2>1. QED BY <1>1, <1>3, Recursion
<1>5. g = [k \in 0 .. N |-> IF k = 0 THEN <<>> ELSE Grown(k, g[k - 1])]
  <2>1. ASSUME NEW k \in 1 .. N PROVE g[k] = Grown(k, g[k - 1])
    <3>1. k \in Nat /\ k - 1 \in 0 .. N
      BY <1>1
    <3>2. g[k - 1] \in V /\ g[k] = F[k][g[k - 1]]
      BY <3>1, <1>4 DEF Steps
    <3> HIDE DEF Grown
    <3>3. QED BY <3>1, <3>2
  <2> HIDE DEF Grown, F, V
  <2>2. QED BY <1>1, <1>4, <2>1 DEF Steps
<1>6. upto = [k \in 0 .. N |-> IF k = 0 THEN <<>> ELSE Grown(k, upto[k - 1])]
  BY <1>5, Zenon
<1> HIDE DEF upto, Grown, F, V
<1> DEFINE S == {n \in Nat : n <= N => upto[n] \in V}
<1>7. 0 \in S
  BY <1>1, <1>6
<1>8. ASSUME NEW n \in Nat, n \in S PROVE n + 1 \in S
  <2>1. CASE n + 1 <= N
    <3>1. n + 1 \in 1 .. N /\ (n + 1) - 1 = n /\ n <= N
      BY <2>1, <1>1
    <3>2. upto[n + 1] = Grown(n + 1, upto[n])
      BY <1>6, <3>1
    <3>3. QED BY <1>2, <1>8, <3>1, <3>2
  <2>2. CASE ~(n + 1 <= N)
    BY <2>2
  <2>3. QED BY <2>1, <2>2
<1> HIDE DEF S
<1>9. N \in S
  BY <1>1, <1>7, <1>8, SetInduction
<1>10. upto[N] \in V
  BY <1>1, <1>9 DEF S
<1>11. Smoothing!RegionsOf(cs) = upto[N]
  BY DEF Smoothing!RegionsOf, upto
<1>12. QED BY <1>10, <1>11 DEF V

LEMMA CenterIs ==
  ASSUME NEW r \in Robots, NEW angles \in Turns, NEW g \in Ranges(r, angles)
  PROVE  Smoothing!Center(r, g) \in Int /\ g.sign \in {1, -1}
         /\ g.cs \in Seq(Curves(r, angles)) /\ g.cs # <<>>
<1>1. g.start \in Int /\ g.end \in Int /\ g.sign \in {1, -1} /\ g.cs \in Seq(Curves(r, angles)) /\ g.cs # <<>>
  BY DEF Ranges
<1>2. r \in Int
  BY SmoothConstants
<1>3. QED BY <1>1, <1>2 DEF Smoothing!Center

LEMMA LayoutIs ==
  ASSUME NEW a \in Smoothing!Layouts
  PROVE  /\ a.robot \in Robots /\ \E angles \in Turns : a.regions \in Seq(Ranges(a.robot, angles))
         /\ \A k \in DOMAIN a.regions :
              Smoothing!Center(a.robot, a.regions[k]) \in Int /\ a.regions[k].sign \in {1, -1}
<1>1. PICK r \in Robots, angles \in Turns, free \in SUBSET (1 .. Len(Vertices) - 1) :
        a = [robot |-> r, regions |-> Smoothing!RegionsOf(Smoothing!Candidates(r, angles, free))]
  BY DEF Smoothing!Layouts
<1>2. Smoothing!Candidates(r, angles, free) \in Seq(Curves(r, angles))
  BY CandidatesAre
<1>3. a.robot = r /\ a.regions \in Seq(Ranges(r, angles))
  BY <1>1, <1>2, RegionsAre
<1>4. ASSUME NEW k \in DOMAIN a.regions
      PROVE  Smoothing!Center(a.robot, a.regions[k]) \in Int /\ a.regions[k].sign \in {1, -1}
  <2>1. a.regions[k] \in Ranges(r, angles)
    BY <1>3
  <2>2. QED BY <1>3, <2>1, CenterIs
<1>5. QED BY <1>3, <1>4

WellSpaced(d) ==
  \A a, b \in Smoothing!Layouts : \A j \in DOMAIN a.regions, k \in DOMAIN b.regions :
    a.regions[j].sign = b.regions[k].sign =>
      /\ Smoothing!Between(a, j, b, k) <= d \/ Smoothing!Between(a, j, b, k) > 2 * d
      /\ Smoothing!Contents(a.regions[j]) = Smoothing!Contents(b.regions[k]) =>
           Smoothing!Between(a, j, b, k) <= d
      /\ a = b /\ j # k => Smoothing!Between(a, j, b, k) > d

Spread == CHOOSE d \in 0 .. smooth_region_match_dist_ - 1 : WellSpaced(d)

LEMMA SpreadIs == Spread \in Nat /\ Spread < smooth_region_match_dist_ /\ WellSpaced(Spread)
<1>1. \E d \in 0 .. smooth_region_match_dist_ - 1 : WellSpaced(d)
  BY MCAssumption DEF Smoothing!SpacingAssumption, WellSpaced
<1>2. Spread \in 0 .. smooth_region_match_dist_ - 1 /\ WellSpaced(Spread)
  BY <1>1, Zenon DEF Spread
<1>3. QED BY <1>2, SmoothConstants

Locks == [center : Int, control : Int, sign : {1, -1}, miss : Nat]

(* A region takes a lock that is free; and one that is near and nearer than *)
(* all others of its side, if it is free. *)
LEMMA MatchedIs ==
  ASSUME NEW r \in Robots, NEW angles \in Turns, NEW g \in Ranges(r, angles),
         NEW locks \in Seq(Locks), NEW used
  PROVE  LET l == Smoothing!MatchedLock(r, g, locks, used)
             Away(o) == Smoothing!Abs(locks[o].center - Smoothing!Center(r, g))
         IN  /\ l = 0 \/ l \in DOMAIN locks \ used
             /\ \A m \in DOMAIN locks \ used :
                  /\ locks[m].sign = g.sign /\ Away(m) < smooth_region_match_dist_
                  /\ \A o \in DOMAIN locks \ {m} : locks[o].sign = g.sign => Away(m) < Away(o)
                  => l = m
<1> DEFINE Away(o) == Smoothing!Abs(locks[o].center - Smoothing!Center(r, g))
           near == {o \in DOMAIN locks \ used : locks[o].sign = g.sign /\ Away(o) < smooth_region_match_dist_}
           l == Smoothing!MatchedLock(r, g, locks, used)
           f == [o \in near |-> Away(o)]
<1>1. l = IF near = {} THEN 0 ELSE Smoothing!First(near, f)
  BY DEF Smoothing!MatchedLock
<1>2. \A o \in DOMAIN locks : Away(o) \in Int
  <2>1. ASSUME NEW o \in DOMAIN locks PROVE Away(o) \in Int
    <3>1. locks[o] \in Locks
      OBVIOUS
    <3>2. locks[o].center \in Int
      BY <3>1 DEF Locks
    <3>3. Smoothing!Center(r, g) \in Int
      BY CenterIs
    <3>4. QED BY <3>2, <3>3, DistanceIs
  <2>2. QED BY <2>1
<1>3. DOMAIN locks = 1 .. Len(locks) /\ Len(locks) \in Nat
  OBVIOUS
<1>4. near \subseteq DOMAIN locks \ used
  OBVIOUS
<1>5. f \in [near -> Int] /\ \A o \in near : f[o] = Away(o)
  BY <1>2, <1>4
<1> HIDE DEF f, l, Away
<1>6. near # {} => l \in near /\ \A y \in near : f[l] <= f[y]
  <2> HIDE DEF near
  <2>1. near \subseteq 1 .. Len(locks)
    BY <1>3, <1>4
  <2>2. QED BY <1>1, <1>3, <1>5, <2>1, FirstIs
<1>7. ASSUME NEW m \in DOMAIN locks \ used,
             locks[m].sign = g.sign, Away(m) < smooth_region_match_dist_,
             \A o \in DOMAIN locks \ {m} : locks[o].sign = g.sign => Away(m) < Away(o)
      PROVE  l = m
  <2>1. m \in near
    BY <1>7
  <2>2. l \in near /\ f[l] <= f[m]
    BY <1>6, <2>1
  <2>3. l \in DOMAIN locks /\ locks[l].sign = g.sign
    BY <2>2
  <2>4. Away(l) <= Away(m) /\ Away(l) \in Int /\ Away(m) \in Int
    BY <1>2, <1>5, <2>1, <2>2, <2>3
  <2>5. l # m => Away(m) < Away(l)
    BY <1>7, <2>3
  <2>6. QED BY <2>4, <2>5
<1>8. l = 0 \/ l \in DOMAIN locks \ used
  <2>1. near = {} => l = 0
    BY <1>1
  <2> HIDE DEF near
  <2>2. QED BY <1>4, <1>6, <2>1
<1> HIDE DEF near
<1>9. \A m \in DOMAIN locks \ used :
                  /\ locks[m].sign = g.sign /\ Away(m) < smooth_region_match_dist_
                  /\ \A o \in DOMAIN locks \ {m} : locks[o].sign = g.sign => Away(m) < Away(o)
                  => l = m
  BY <1>7
<1>10. QED BY <1>8, <1>9 DEF l, Away

LEMMA AscendingIs ==
  ASSUME NEW i \in 1 .. Len(Vertices), NEW j \in 1 .. Len(Vertices), Vertices[i] = Vertices[j]
  PROVE  i = j
<1> DEFINE S == {n \in Nat : \A k \in 1 .. Len(Vertices) :
                   k + n + 1 <= Len(Vertices) => Vertices[k] < Vertices[k + n + 1]}
<1>1. 0 \in S
  <2>1. ASSUME NEW k \in 1 .. Len(Vertices), k + 0 + 1 <= Len(Vertices)
        PROVE  Vertices[k] < Vertices[k + 0 + 1]
    <3>1. k + 1 \in 2 .. Len(Vertices) /\ (k + 1) - 1 = k /\ k + 0 + 1 = k + 1
      BY <2>1, VerticesAre
    <3>2. QED BY <3>1, SmoothConstants
  <2>2. QED BY <2>1
<1>2. ASSUME NEW n \in Nat, n \in S PROVE n + 1 \in S
  <2>1. ASSUME NEW k \in 1 .. Len(Vertices), k + (n + 1) + 1 <= Len(Vertices)
        PROVE  Vertices[k] < Vertices[k + (n + 1) + 1]
    <3>1. k + n + 1 \in 1 .. Len(Vertices) /\ k + (n + 1) + 1 \in 2 .. Len(Vertices)
          /\ (k + (n + 1) + 1) - 1 = k + n + 1
      BY <2>1, VerticesAre
    <3>2. Vertices[k + n + 1] < Vertices[k + (n + 1) + 1]
      BY <3>1, SmoothConstants
    <3>3. Vertices[k] < Vertices[k + n + 1]
      BY <1>2, <3>1
    <3>4. Vertices[k] \in Nat /\ Vertices[k + n + 1] \in Nat /\ Vertices[k + (n + 1) + 1] \in Nat
      BY <3>1, VerticesAre
    <3>5. QED BY <3>2, <3>3, <3>4
  <2>2. QED BY <2>1
<1>3. Nat \subseteq S
  <2> HIDE DEF S
  <2>1. QED BY <1>1, <1>2, SetInduction
<1>4. ASSUME NEW a \in 1 .. Len(Vertices), NEW b \in 1 .. Len(Vertices), a < b
      PROVE  Vertices[a] < Vertices[b]
  <2>1. b - a - 1 \in Nat /\ a + (b - a - 1) + 1 = b
    BY <1>4, VerticesAre
  <2>2. b - a - 1 \in S
    BY <2>1, <1>3
  <2>3. QED BY <2>1, <2>2
<1> HIDE DEF S
<1>5. Vertices[i] \in Nat
  BY VerticesAre
<1>6. ~(i < j) /\ ~(j < i)
  BY <1>4, <1>5
<1>7. QED BY <1>6, VerticesAre

(* Of a region one curve is chosen; the one of the lock's corner, if it is  *)
(* in the region. *)
LEMMA ChosenIs ==
  ASSUME NEW r \in Robots, NEW angles \in Turns, NEW g \in Ranges(r, angles), NEW lock,
         lock = {} \/ \E l \in Locks : lock = {l}
  PROVE  LET c == Smoothing!ChosenCandidate(r, g, lock)
         IN  /\ \E k \in DOMAIN g.cs : c = g.cs[k]
             /\ \A l \in Locks : \A k \in DOMAIN g.cs :
                  lock = {l} /\ l.control = Vertices[g.cs[k].index] => c.index = g.cs[k].index
<1> DEFINE cs == g.cs
           D == DOMAIN cs
           Away(k) == Smoothing!Abs(r + cs[k].si - (CHOOSE l \in lock : TRUE).control)
           f == [k \in D |-> IF lock = {} THEN -cs[k].score ELSE Away(k)]
           x == Smoothing!First(D, f)
<1>1. cs \in Seq(Curves(r, angles)) /\ cs # <<>>
  BY CenterIs
<1>2. D = 1 .. Len(cs) /\ Len(cs) \in Nat /\ D # {}
  BY <1>1
<1>3. ASSUME NEW k \in D
      PROVE  /\ cs[k].index \in 1 .. Len(Vertices) /\ r + cs[k].si = Vertices[cs[k].index]
             /\ Vertices[cs[k].index] \in Int /\ cs[k].score \in Int
  <2>1. cs[k] \in Curves(r, angles)
    BY <1>1
  <2>2. cs[k].index \in 1 .. Len(Vertices) - 1 /\ Vertices[cs[k].index] \in Nat
        /\ r + cs[k].si = Vertices[cs[k].index] /\ cs[k].score \in Int
    BY <2>1, CurveIs
  <2>3. QED BY <2>2, VerticesAre
<1>4. ASSUME NEW l \in Locks, lock = {l}
      PROVE  lock # {} /\ \A k \in D : Away(k) = Smoothing!Abs(Vertices[cs[k].index] - l.control)
  <2>1. (CHOOSE m \in lock : TRUE) = l
    BY <1>4, OnlyOne
  <2>2. ASSUME NEW k \in D PROVE Away(k) = Smoothing!Abs(Vertices[cs[k].index] - l.control)
    <3>1. PICK v \in Int, i \in Int, d \in Int :
            v = Vertices[cs[k].index] /\ i = cs[k].si /\ d = l.control /\ r + i = v
      <4>1. cs[k] \in Curves(r, angles)
        BY <1>1
      <4>2. cs[k].si \in Int
        BY <4>1, CurveIs
      <4>3. l.control \in Int
        BY DEF Locks
      <4>4. QED BY <1>3, <4>2, <4>3
    <3>2. Away(k) = Smoothing!Abs(r + cs[k].si - l.control)
      BY <2>1
    <3>3. r \in Int /\ r + i - d = v - d
      BY <3>1, SmoothConstants
    <3>4. QED BY <3>1, <3>2, <3>3
  <2>3. lock # {}
    BY <1>4
  <2>4. QED BY <2>2, <2>3
<1> HIDE DEF Away
<1>5. f \in [D -> Int]
  <2>1. ASSUME NEW k \in D PROVE (IF lock = {} THEN -cs[k].score ELSE Away(k)) \in Int
    <3>1. CASE lock = {}
      BY <1>3, <3>1
    <3>2. CASE lock # {}
      <4>1. PICK l \in Locks : lock = {l}
        BY <3>2
      <4>2. l.control \in Int
        BY DEF Locks
      <4>3. Away(k) = Smoothing!Abs(Vertices[cs[k].index] - l.control) /\ Vertices[cs[k].index] \in Int
        BY <1>3, <1>4, <4>1
      <4>4. QED BY <3>2, <4>2, <4>3, DistanceIs
    <3>3. QED BY <3>1, <3>2
  <2>2. QED BY <2>1
<1>6. x \in D /\ \A y \in D : f[x] <= f[y]
  <2> HIDE DEF f, D
  <2>1. D \subseteq 1 .. Len(cs)
    BY <1>2
  <2>2. QED BY <1>2, <1>5, <2>1, FirstIs
<1>7. Smoothing!ChosenCandidate(r, g, lock) = cs[x]
  BY DEF Smoothing!ChosenCandidate, Away
<1> HIDE DEF x
<1>8. ASSUME NEW l \in Locks, NEW k \in D, lock = {l}, l.control = Vertices[cs[k].index]
      PROVE  cs[x].index = cs[k].index
  <2>1. l.control \in Int
    BY DEF Locks
  <2>2. f[x] = Smoothing!Abs(Vertices[cs[x].index] - l.control)
        /\ f[k] = Smoothing!Abs(Vertices[cs[k].index] - l.control) /\ f[x] <= f[k]
    BY <1>4, <1>6, <1>8
  <2>3. Vertices[cs[x].index] \in Int /\ Vertices[cs[k].index] \in Int
    BY <1>3, <1>6
  <2>4. f[k] = 0
    BY <1>8, <2>1, <2>2, <2>3, DistanceIs
  <2>5. f[x] \in Nat
    BY <2>1, <2>2, <2>3, DistanceIs
  <2>6. Vertices[cs[x].index] = l.control
    <3>1. Smoothing!Abs(Vertices[cs[x].index] - l.control) = 0
      BY <2>2, <2>4, <2>5
    <3>2. QED BY <2>1, <2>3, <3>1, DistanceIs
  <2>7. QED BY <1>3, <1>6, <1>8, <2>6, AscendingIs
<1>9. \A l \in Locks : \A k \in DOMAIN g.cs :
        lock = {l} /\ l.control = Vertices[g.cs[k].index] => cs[x].index = g.cs[k].index
  BY <1>8
<1> HIDE DEF f
<1>10. QED BY <1>6, <1>7, <1>9

(* The choices of a cycle. *)
Choices(r, angles) == [lock : Nat, region : Ranges(r, angles), c : Curves(r, angles)]

RightChoice(r, rs, locks, sel, k) ==
  /\ sel[k].region = rs[k]
  /\ sel[k].lock = Smoothing!MatchedLock(r, rs[k], locks, {sel[j].lock : j \in 1 .. k - 1})
  /\ sel[k].c = Smoothing!ChosenCandidate(r, rs[k], IF sel[k].lock = 0 THEN {} ELSE {locks[sel[k].lock]})

LEMMA SelectIs ==
  ASSUME NEW r \in Robots, NEW angles \in Turns, NEW rs \in Seq(Ranges(r, angles)),
         NEW locks \in Seq(Locks), NEW sel \in Seq(Choices(r, angles)), Len(sel) < Len(rs),
         \A k \in 1 .. Len(sel) : RightChoice(r, rs, locks, sel, k)
  PROVE  LET s == Smoothing!Select(r, rs, locks, sel)
         IN  /\ s \in Seq(Choices(r, angles)) /\ Len(s) = Len(sel) + 1
             /\ \A k \in 1 .. Len(s) : RightChoice(r, rs, locks, s, k)
<1> DEFINE n == Len(sel)
           g == rs[n + 1]
           l == Smoothing!MatchedLock(r, g, locks, {sel[k].lock : k \in DOMAIN sel})
           lock == IF l = 0 THEN {} ELSE {locks[l]}
           c == Smoothing!ChosenCandidate(r, g, lock)
           x == [lock |-> l, region |-> g, c |-> c]
           s == Append(sel, x)
<1>1. Smoothing!Select(r, rs, locks, sel) = s
  BY DEF Smoothing!Select
<1>2. n \in Nat /\ DOMAIN sel = 1 .. n /\ g \in Ranges(r, angles)
  OBVIOUS
<1>3. l = 0 \/ l \in DOMAIN locks
  <2> HIDE DEF g
  <2>1. QED BY <1>2, MatchedIs
<1>4. l \in Nat /\ (lock = {} \/ \E o \in Locks : lock = {o})
  <2> HIDE DEF l
  <2>1. CASE l = 0
    BY <2>1
  <2>2. CASE l # 0
    <3>1. l \in 1 .. Len(locks) /\ locks[l] \in Locks
      BY <1>3, <2>2
    <3>2. QED BY <2>2, <3>1
  <2>3. QED BY <2>1, <2>2
<1>5. c \in Curves(r, angles)
  <2> HIDE DEF l, g, lock
  <2>1. \E k \in DOMAIN g.cs : c = g.cs[k]
    <3>1. g \in Ranges(r, angles) /\ (lock = {} \/ \E o \in Locks : lock = {o})
      BY <1>2, <1>4
    <3>2. \A h \in Ranges(r, angles) : \A m :
            (m = {} \/ \E o \in Locks : m = {o})
            => \E k \in DOMAIN h.cs : Smoothing!ChosenCandidate(r, h, m) = h.cs[k]
      BY ChosenIs
    <3>3. \E k \in DOMAIN g.cs : Smoothing!ChosenCandidate(r, g, lock) = g.cs[k]
      BY <3>1, <3>2, Zenon
    <3>4. QED BY <3>3
  <2>2. g.cs \in Seq(Curves(r, angles))
    BY <1>2, CenterIs
  <2> HIDE DEF c
  <2>3. QED BY <2>1, <2>2
<1>6. x \in Choices(r, angles)
  <2> HIDE DEF l, g, c
  <2>1. QED BY <1>2, <1>4, <1>5 DEF Choices
<1>7. s \in Seq(Choices(r, angles)) /\ Len(s) = n + 1 /\ s[n + 1] = x /\ \A k \in 1 .. n : s[k] = sel[k]
  <2> HIDE DEF x
  <2>1. QED BY <1>6, AppendIs
<1> HIDE DEF s
<1>8. ASSUME NEW k \in 1 .. n + 1 PROVE {s[j].lock : j \in 1 .. k - 1} = {sel[j].lock : j \in 1 .. k - 1}
  <2>1. \A j \in 1 .. k - 1 : s[j] = sel[j]
    BY <1>2, <1>7
  <2>2. QED BY <2>1
<1>9. ASSUME NEW k \in 1 .. n + 1 PROVE RightChoice(r, rs, locks, s, k)
  <2>1. CASE k = n + 1
    <3>1. s[k].lock = l /\ s[k].region = g /\ s[k].c = c
      <4>1. s[k] = x
        BY <1>7, <2>1
      <4> HIDE DEF l, g, c
      <4>2. QED BY <4>1
    <3>2. {sel[j].lock : j \in DOMAIN sel} = {s[j].lock : j \in 1 .. k - 1}
      <4>1. k - 1 = n
        BY <1>2, <2>1
      <4>2. QED BY <1>2, <1>8, <4>1
    <3>3. rs[k] = g
      BY <2>1
    <3>4. l = Smoothing!MatchedLock(r, g, locks, {s[j].lock : j \in 1 .. k - 1})
      BY <3>2
    <3> HIDE DEF l, g
    <3>5. QED BY <3>1, <3>3, <3>4 DEF RightChoice
  <2>2. CASE k \in 1 .. n
    <3>1. RightChoice(r, rs, locks, sel, k) /\ s[k] = sel[k]
      BY <1>7, <2>2
    <3>2. QED BY <1>8, <3>1 DEF RightChoice
  <2>3. QED BY <1>2, <2>1, <2>2
<1>10. QED BY <1>1, <1>7, <1>9

LEMMA SelectedIs ==
  ASSUME NEW r \in Robots, NEW angles \in Turns, NEW rs \in Seq(Ranges(r, angles)),
         NEW locks \in Seq(Locks)
  PROVE  LET s == Smoothing!Selected(r, rs, locks)
         IN  /\ s \in Seq(Choices(r, angles))
             /\ Len(s) = IF Len(rs) < smooth_region_max_count_ THEN Len(rs) ELSE smooth_region_max_count_
             /\ \A k \in 1 .. Len(s) : RightChoice(r, rs, locks, s, k)
<1> DEFINE N == Smoothing!Min({Len(rs), smooth_region_max_count_})
           V == {s \in Seq(Choices(r, angles)) :
                   /\ Len(s) <= Len(rs)
                   /\ \A k \in 1 .. Len(s) : RightChoice(r, rs, locks, s, k)}
           upto[k \in 0 .. N] ==
             IF k = 0 THEN <<>> ELSE Smoothing!Select(r, rs, locks, upto[k - 1])
           F == [k \in Nat |-> [v \in V |-> IF Len(v) < Len(rs) THEN Smoothing!Select(r, rs, locks, v) ELSE v]]
<1>1. /\ N = IF Len(rs) < smooth_region_max_count_ THEN Len(rs) ELSE smooth_region_max_count_
      /\ N \in Nat /\ N <= Len(rs) /\ Len(rs) \in Nat
  <2>1. PICK n \in Nat, m \in Nat : n = Len(rs) /\ m = smooth_region_max_count_
    BY SmoothConstants
  <2>2. Smoothing!Min({n, m}) = IF n < m THEN n ELSE m
    BY SmoothLeastOfTwo
  <2>3. QED BY <2>1, <2>2
<1> HIDE DEF N
<1>2. <<>> \in V
  BY <1>1
<1>3. ASSUME NEW v \in V, Len(v) < Len(rs)
      PROVE  Smoothing!Select(r, rs, locks, v) \in V /\ Len(Smoothing!Select(r, rs, locks, v)) = Len(v) + 1
  <2>1. v \in Seq(Choices(r, angles)) /\ \A k \in 1 .. Len(v) : RightChoice(r, rs, locks, v, k)
    OBVIOUS
  <2>2. LET s == Smoothing!Select(r, rs, locks, v)
        IN  /\ s \in Seq(Choices(r, angles)) /\ Len(s) = Len(v) + 1
            /\ \A k \in 1 .. Len(s) : RightChoice(r, rs, locks, s, k)
    BY <1>3, <2>1, SelectIs
  <2>3. Len(v) \in Nat
    BY <2>1
  <2>4. QED BY <1>1, <1>3, <2>2, <2>3
<1>4. StaysIn(F, V)
  BY <1>3 DEF StaysIn
<1>5. PICK g : Steps(g, N, V, <<>>, F)
  <2> HIDE DEF F, V
  <2>1. QED BY <1>1, <1>2, <1>4, Recursion
<1>6. ASSUME NEW k \in Nat, NEW v \in V
      PROVE  F[k][v] = IF Len(v) < Len(rs) THEN Smoothing!Select(r, rs, locks, v) ELSE v
  <2> HIDE DEF V
  <2>1. QED OBVIOUS
<1>7. \A v \in V : Len(v) \in Nat
  OBVIOUS
<1> HIDE DEF F, V
<1> DEFINE S == {n \in Nat : n <= N => Len(g[n]) = n}
<1>8. 0 \in S
  BY <1>5 DEF Steps
<1>9. ASSUME NEW n \in Nat, n \in S PROVE n + 1 \in S
  <2>1. CASE n + 1 <= N
    <3>1. n + 1 \in 1 .. N /\ (n + 1) - 1 = n /\ n <= N /\ n \in 0 .. N
      BY <2>1, <1>1
    <3>2. g[n] \in V /\ g[n + 1] = F[n + 1][g[n]] /\ Len(g[n]) = n
      BY <1>5, <1>9, <3>1 DEF Steps
    <3>3. Len(g[n]) < Len(rs)
      BY <1>1, <2>1, <3>2
    <3>4. g[n + 1] = Smoothing!Select(r, rs, locks, g[n])
      BY <1>6, <3>2, <3>3
    <3>5. QED BY <1>3, <3>2, <3>3, <3>4
  <2>2. CASE ~(n + 1 <= N)
    BY <2>2
  <2>3. QED BY <2>1, <2>2
<1>10. Nat \subseteq S
  <2> HIDE DEF S
  <2>1. QED BY <1>8, <1>9, SetInduction
<1>11. g = [k \in 0 .. N |-> IF k = 0 THEN <<>> ELSE Smoothing!Select(r, rs, locks, g[k - 1])]
  <2>1. ASSUME NEW k \in 1 .. N PROVE g[k] = Smoothing!Select(r, rs, locks, g[k - 1])
    <3>1. k \in Nat /\ k - 1 \in 0 .. N /\ k - 1 \in Nat /\ k - 1 < Len(rs)
      BY <1>1
    <3>2. g[k - 1] \in V /\ g[k] = F[k][g[k - 1]]
      BY <3>1, <1>5 DEF Steps
    <3>3. Len(g[k - 1]) = k - 1
      BY <1>10, <3>1
    <3>4. QED BY <1>6, <3>1, <3>2, <3>3
  <2>2. QED BY <1>1, <1>5, <2>1 DEF Steps
<1>12. upto = [k \in 0 .. N |-> IF k = 0 THEN <<>> ELSE Smoothing!Select(r, rs, locks, upto[k - 1])]
  BY <1>11, Zenon
<1>13. Smoothing!Selected(r, rs, locks) = upto[N]
  BY DEF Smoothing!Selected, upto, N
<1> HIDE DEF upto
<1> DEFINE T == {n \in Nat : n <= N => upto[n] = g[n]}
<1>14. 0 \in T
  BY <1>1, <1>11, <1>12
<1>15. ASSUME NEW n \in Nat, n \in T PROVE n + 1 \in T
  <2>1. CASE n + 1 <= N
    <3>1. n + 1 \in 0 .. N /\ (n + 1) - 1 = n /\ n <= N /\ n + 1 # 0
      BY <2>1, <1>1
    <3>2. upto[n] = g[n]
      BY <1>15, <3>1
    <3>3. QED BY <1>11, <1>12, <3>1, <3>2
  <2>2. CASE ~(n + 1 <= N)
    BY <2>2
  <2>3. QED BY <2>1, <2>2
<1>16. Nat \subseteq T
  <2> HIDE DEF T
  <2>1. QED BY <1>14, <1>15, SetInduction
<1>17. upto[N] = g[N] /\ Len(g[N]) = N /\ g[N] \in V
  BY <1>1, <1>5, <1>10, <1>16 DEF Steps
<1>18. QED BY <1>1, <1>13, <1>17 DEF V

(* The same lock, however often it was missed. *)
SameLock(a, b) == a.center = b.center /\ a.control = b.control /\ a.sign = b.sign

(* Of the locks that are not used some are kept, each once. *)
Kept(ms, locks, used, n) ==
  /\ ms \in Seq(Locks)
  /\ \A i \in 1 .. Len(ms) : \E l \in 1 .. n : l \notin used /\ SameLock(ms[i], locks[l])
  /\ \A i, j \in 1 .. Len(ms) : i < j =>
       \E l, m \in 1 .. n : /\ l < m /\ l \notin used /\ m \notin used
                            /\ SameLock(ms[i], locks[l]) /\ SameLock(ms[j], locks[m])

LEMMA MissIs ==
  ASSUME NEW l \in Locks
  PROVE  [l EXCEPT !.miss = @ + 1] \in Locks /\ SameLock([l EXCEPT !.miss = @ + 1], l)
<1>1. l.miss + 1 \in Nat
  BY DEF Locks
<1>2. [l EXCEPT !.miss = l.miss + 1] \in Locks
  BY <1>1 DEF Locks
<1>3. SameLock([l EXCEPT !.miss = l.miss + 1], l)
  BY DEF Locks, SameLock
<1>4. QED BY <1>2, <1>3

LEMMA KeptIs ==
  ASSUME NEW locks \in Seq(Locks), NEW used, NEW n \in Nat, n + 1 <= Len(locks), NEW ms,
         Kept(ms, locks, used, n)
  PROVE  /\ Kept(ms, locks, used, n + 1)
         /\ n + 1 \notin used =>
              Kept(Append(ms, [locks[n + 1] EXCEPT !.miss = @ + 1]), locks, used, n + 1)
<1>1. 1 .. n \subseteq 1 .. n + 1 /\ n + 1 \in 1 .. n + 1 /\ \A l \in 1 .. n : l < n + 1
  OBVIOUS
<1>2. Kept(ms, locks, used, n + 1)
  <2>1. \A i \in 1 .. Len(ms) : \E l \in 1 .. n + 1 : l \notin used /\ SameLock(ms[i], locks[l])
    BY <1>1 DEF Kept
  <2>2. ASSUME NEW i \in 1 .. Len(ms), NEW j \in 1 .. Len(ms), i < j
        PROVE  \E l, m \in 1 .. n + 1 : /\ l < m /\ l \notin used /\ m \notin used
                                        /\ SameLock(ms[i], locks[l]) /\ SameLock(ms[j], locks[m])
    <3>1. PICK l \in 1 .. n, m \in 1 .. n : /\ l < m /\ l \notin used /\ m \notin used
                                            /\ SameLock(ms[i], locks[l]) /\ SameLock(ms[j], locks[m])
      BY <2>2 DEF Kept
    <3>2. QED BY <1>1, <3>1
  <2>3. QED BY <2>1, <2>2 DEF Kept
<1> DEFINE x == [locks[n + 1] EXCEPT !.miss = @ + 1]
           s == Append(ms, x)
<1>3. x \in Locks /\ SameLock(x, locks[n + 1])
  <2>1. n + 1 \in 1 .. Len(locks)
    OBVIOUS
  <2>2. locks[n + 1] \in Locks
    BY <2>1
  <2>3. QED BY <2>2, MissIs
<1> HIDE DEF x
<1>4. /\ s \in Seq(Locks) /\ Len(s) = Len(ms) + 1 /\ Len(ms) \in Nat
      /\ s[Len(ms) + 1] = x /\ \A i \in 1 .. Len(ms) : s[i] = ms[i]
  <2>1. ms \in Seq(Locks)
    BY DEF Kept
  <2>2. QED BY <1>3, <2>1, AppendIs
<1> HIDE DEF s
<1>5. ASSUME n + 1 \notin used PROVE Kept(s, locks, used, n + 1)
  <2>1. ASSUME NEW i \in 1 .. Len(s)
        PROVE  \E l \in 1 .. n + 1 : l \notin used /\ SameLock(s[i], locks[l])
    <3>1. CASE i = Len(ms) + 1
      BY <1>1, <1>3, <1>4, <1>5, <3>1
    <3>2. CASE i # Len(ms) + 1
      <4>1. i \in 1 .. Len(ms) /\ s[i] = ms[i]
        BY <1>4, <3>2
      <4>2. QED BY <1>2, <4>1 DEF Kept
    <3>3. QED BY <3>1, <3>2
  <2>2. ASSUME NEW i \in 1 .. Len(s), NEW j \in 1 .. Len(s), i < j
        PROVE  \E l, m \in 1 .. n + 1 : /\ l < m /\ l \notin used /\ m \notin used
                                        /\ SameLock(s[i], locks[l]) /\ SameLock(s[j], locks[m])
    <3>1. i \in 1 .. Len(ms) /\ s[i] = ms[i]
      BY <1>4, <2>2
    <3>2. CASE j = Len(ms) + 1
      <4>1. PICK l \in 1 .. n : l \notin used /\ SameLock(ms[i], locks[l])
        BY <3>1 DEF Kept
      <4>2. l < n + 1 /\ l \in 1 .. n + 1 /\ s[j] = x
        BY <1>1, <1>4, <3>2
      <4>3. QED BY <1>1, <1>3, <1>5, <3>1, <4>1, <4>2
    <3>3. CASE j # Len(ms) + 1
      <4>1. j \in 1 .. Len(ms) /\ s[j] = ms[j]
        BY <1>4, <3>3
      <4>2. QED BY <1>2, <2>2, <3>1, <4>1 DEF Kept
    <3>4. QED BY <3>2, <3>3
  <2>3. QED BY <1>4, <2>1, <2>2 DEF Kept
<1>6. QED BY <1>2, <1>5 DEF s, x

LEMMA MissedIs ==
  ASSUME NEW locks \in Seq(Locks), NEW used
  PROVE  Kept(Smoothing!Missed(locks, used), locks, used, Len(locks))
<1> DEFINE N == Len(locks)
           V == Seq(Locks)
           Grown(l, v) ==
             IF l \in used \/ locks[l].miss >= smooth_region_max_miss_ THEN v
             ELSE Append(v, [locks[l] EXCEPT !.miss = @ + 1])
           upto[l \in 0 .. Len(locks)] ==
             IF l = 0 THEN <<>>
             ELSE IF l \in used \/ locks[l].miss >= smooth_region_max_miss_ THEN upto[l - 1]
             ELSE Append(upto[l - 1], [locks[l] EXCEPT !.miss = @ + 1])
           F == [l \in Nat |-> [v \in V |-> IF l \in 1 .. N THEN Grown(l, v) ELSE v]]
<1>1. N \in Nat /\ <<>> \in V
  OBVIOUS
<1>2. ASSUME NEW l \in 1 .. N, NEW v \in V PROVE Grown(l, v) \in V
  <2>1. locks[l] \in Locks
    OBVIOUS
  <2>2. [locks[l] EXCEPT !.miss = @ + 1] \in Locks
    BY <2>1, MissIs
  <2>3. QED BY <2>2, AppendIs
<1>3. StaysIn(F, V)
  BY <1>2 DEF StaysIn
<1>4. PICK g : Steps(g, N, V, <<>>, F)
  <2> HIDE DEF F, V, N
  <2>1. QED BY <1>1, <1>3, Recursion
<1>5. g = [l \in 0 .. N |-> IF l = 0 THEN <<>> ELSE Grown(l, g[l - 1])]
  <2>1. ASSUME NEW l \in 1 .. N PROVE g[l] = Grown(l, g[l - 1])
    <3>1. l \in Nat /\ l - 1 \in 0 .. N
      BY <1>1
    <3>2. g[l - 1] \in V /\ g[l] = F[l][g[l - 1]]
      BY <3>1, <1>4 DEF Steps
    <3> HIDE DEF Grown
    <3>3. QED BY <3>1, <3>2
  <2> HIDE DEF Grown, F, V
  <2>2. QED BY <1>1, <1>4, <2>1 DEF Steps
<1>6. upto = [l \in 0 .. N |-> IF l = 0 THEN <<>> ELSE Grown(l, upto[l - 1])]
  BY <1>5, Zenon
<1>7. Smoothing!Missed(locks, used) = upto[N]
  BY DEF Smoothing!Missed, upto
<1> HIDE DEF upto, F
<1> DEFINE S == {n \in Nat : n <= N => Kept(upto[n], locks, used, n)}
<1>8. 0 \in S
  <2>1. upto[0] = <<>>
    BY <1>1, <1>6
  <2>2. Len(<<>>) = 0 /\ 1 .. 0 = {} /\ <<>> \in Seq(Locks)
    OBVIOUS
  <2>3. Kept(<<>>, locks, used, 0)
    BY <2>2 DEF Kept
  <2>4. QED BY <2>1, <2>3
<1>9. ASSUME NEW n \in Nat, n \in S PROVE n + 1 \in S
  <2>1. CASE n + 1 <= N
    <3>1. n + 1 \in 1 .. N /\ (n + 1) - 1 = n /\ n <= N
      BY <2>1, <1>1
    <3>2. upto[n + 1] = Grown(n + 1, upto[n])
      <4> HIDE DEF Grown
      <4>1. QED BY <1>6, <3>1
    <3>3. Kept(upto[n], locks, used, n)
      BY <1>9, <3>1
    <3>4. /\ Kept(upto[n], locks, used, n + 1)
          /\ n + 1 \notin used =>
               Kept(Append(upto[n], [locks[n + 1] EXCEPT !.miss = @ + 1]), locks, used, n + 1)
      BY <2>1, <3>3, KeptIs
    <3>5. Kept(Grown(n + 1, upto[n]), locks, used, n + 1)
      BY <3>4
    <3>6. QED BY <3>2, <3>5
  <2>2. CASE ~(n + 1 <= N)
    BY <2>2
  <2>3. QED BY <2>1, <2>2
<1> HIDE DEF S
<1>10. N \in S
  BY <1>1, <1>8, <1>9, SetInduction
<1>11. QED BY <1>1, <1>7, <1>10 DEF S

(* A lock is where a region may be. *)
InPlace(l) ==
  \E a \in Smoothing!Layouts : \E k \in DOMAIN a.regions :
    l.center = Smoothing!Center(a.robot, a.regions[k]) /\ l.sign = a.regions[k].sign

(* No two locks of one side could be of the same region. *)
FarApart(locks) ==
  \A l, m \in DOMAIN locks :
    l # m /\ locks[l].sign = locks[m].sign =>
      Smoothing!Abs(locks[l].center - locks[m].center) > Spread

GoodLocks(locks) ==
  locks \in Seq(Locks) /\ (\A l \in DOMAIN locks : InPlace(locks[l])) /\ FarApart(locks)

LEMMA LockIs ==
  ASSUME NEW locks, GoodLocks(locks)
  PROVE  /\ Len(locks) \in Nat /\ DOMAIN locks = 1 .. Len(locks)
         /\ \A l \in DOMAIN locks :
              locks[l] \in Locks /\ locks[l].center \in Int /\ locks[l].sign \in {1, -1} /\ InPlace(locks[l])
<1>1. locks \in Seq(Locks)
  BY DEF GoodLocks
<1>2. ASSUME NEW l \in DOMAIN locks
      PROVE  locks[l] \in Locks /\ locks[l].center \in Int /\ locks[l].sign \in {1, -1} /\ InPlace(locks[l])
  <2>1. locks[l] \in Locks
    BY <1>1
  <2>2. QED BY <2>1 DEF GoodLocks, Locks
<1>3. QED BY <1>1, <1>2

LEMMA PlacesAre ==
  ASSUME NEW l, NEW m, InPlace(l), InPlace(m), l.sign = m.sign
  PROVE  \/ Smoothing!Abs(l.center - m.center) <= Spread
         \/ Smoothing!Abs(l.center - m.center) > 2 * Spread
<1>1. PICK a \in Smoothing!Layouts : \E j \in DOMAIN a.regions :
        l.center = Smoothing!Center(a.robot, a.regions[j]) /\ l.sign = a.regions[j].sign
  BY DEF InPlace
<1>2. PICK j \in DOMAIN a.regions :
        l.center = Smoothing!Center(a.robot, a.regions[j]) /\ l.sign = a.regions[j].sign
  BY <1>1
<1>3. PICK b \in Smoothing!Layouts : \E k \in DOMAIN b.regions :
        m.center = Smoothing!Center(b.robot, b.regions[k]) /\ m.sign = b.regions[k].sign
  BY DEF InPlace
<1>4. PICK k \in DOMAIN b.regions :
        m.center = Smoothing!Center(b.robot, b.regions[k]) /\ m.sign = b.regions[k].sign
  BY <1>3
<1>5. Smoothing!Between(a, j, b, k) <= Spread \/ Smoothing!Between(a, j, b, k) > 2 * Spread
  BY <1>2, <1>4, SpreadIs DEF WellSpaced
<1>6. QED BY <1>2, <1>4, <1>5 DEF Smoothing!Between

(* A lock that is no farther than the spread from a region is nearer than   *)
(* all others. *)
LEMMA OthersAreFarther ==
  ASSUME NEW locks, GoodLocks(locks), NEW m \in DOMAIN locks, NEW p \in Int,
         Smoothing!Abs(locks[m].center - p) <= Spread
  PROVE  /\ Smoothing!Abs(locks[m].center - p) < smooth_region_match_dist_
         /\ \A o \in DOMAIN locks \ {m} : locks[o].sign = locks[m].sign =>
              Smoothing!Abs(locks[m].center - p) < Smoothing!Abs(locks[o].center - p)
<1>1. PICK c \in Int : c = locks[m].center
  BY LockIs
<1>2. Spread \in Nat /\ Spread < smooth_region_match_dist_ /\ smooth_region_match_dist_ \in Nat
  BY SpreadIs, SmoothConstants
<1>3. Smoothing!Abs(c - p) \in Nat
  BY DistanceIs
<1>4. ASSUME NEW o \in DOMAIN locks \ {m}, locks[o].sign = locks[m].sign
      PROVE  Smoothing!Abs(c - p) < Smoothing!Abs(locks[o].center - p)
  <2>1. PICK e \in Int : e = locks[o].center
    BY LockIs
  <2>2. Smoothing!Abs(e - c) > Spread
    BY <1>1, <1>4, <2>1 DEF GoodLocks, FarApart
  <2>3. Smoothing!Abs(e - c) <= Spread \/ Smoothing!Abs(e - c) > 2 * Spread
    <3>1. InPlace(locks[o]) /\ InPlace(locks[m])
      BY LockIs
    <3>2. QED BY <1>1, <1>4, <2>1, <3>1, PlacesAre
  <2>4. Smoothing!Abs(e - c) <= Smoothing!Abs(e - p) + Smoothing!Abs(p - c)
        /\ Smoothing!Abs(p - c) = Smoothing!Abs(c - p)
        /\ Smoothing!Abs(e - c) \in Nat /\ Smoothing!Abs(e - p) \in Nat
    BY DistanceIs
  <2>5. QED BY <1>1, <1>2, <1>3, <2>1, <2>2, <2>3, <2>4
<1>5. QED BY <1>1, <1>2, <1>3, <1>4

LEMMA MissedAreGood ==
  ASSUME NEW locks, GoodLocks(locks), NEW used
  PROVE  GoodLocks(Smoothing!Missed(locks, used))
<1> DEFINE ms == Smoothing!Missed(locks, used)
<1>1. locks \in Seq(Locks) /\ DOMAIN locks = 1 .. Len(locks) /\ Len(locks) \in Nat
  BY LockIs DEF GoodLocks
<1>2. Kept(ms, locks, used, Len(locks))
  BY <1>1, MissedIs
<1> HIDE DEF ms
<1>3. ms \in Seq(Locks) /\ DOMAIN ms = 1 .. Len(ms) /\ Len(ms) \in Nat
  BY <1>2 DEF Kept
<1>4. ASSUME NEW i \in DOMAIN ms PROVE InPlace(ms[i])
  <2>1. PICK l \in 1 .. Len(locks) : SameLock(ms[i], locks[l])
    BY <1>2, <1>3 DEF Kept
  <2>2. InPlace(locks[l])
    BY <1>1, LockIs
  <2>3. QED BY <2>1, <2>2 DEF InPlace, SameLock
<1>5. ASSUME NEW i \in DOMAIN ms, NEW j \in DOMAIN ms, i < j, ms[i].sign = ms[j].sign
      PROVE  Smoothing!Abs(ms[i].center - ms[j].center) > Spread
             /\ Smoothing!Abs(ms[j].center - ms[i].center) > Spread
  <2>1. PICK l \in 1 .. Len(locks), m \in 1 .. Len(locks) :
          l < m /\ SameLock(ms[i], locks[l]) /\ SameLock(ms[j], locks[m])
    BY <1>2, <1>3, <1>5 DEF Kept
  <2>2. l # m /\ locks[l].sign = locks[m].sign
    <3>1. l \in Nat /\ m \in Nat /\ l < m
      BY <1>1, <2>1
    <3>2. ms[i].sign = locks[l].sign /\ ms[j].sign = locks[m].sign
      BY <2>1 DEF SameLock
    <3>3. l # m
      BY <3>1
    <3>4. QED BY <1>5, <3>2, <3>3
  <2>3. Smoothing!Abs(locks[l].center - locks[m].center) > Spread
        /\ Smoothing!Abs(locks[m].center - locks[l].center) > Spread
    BY <1>1, <2>2 DEF GoodLocks, FarApart
  <2>4. QED BY <2>1, <2>3 DEF SameLock
<1>6. ASSUME NEW i \in DOMAIN ms, NEW j \in DOMAIN ms, i # j, ms[i].sign = ms[j].sign
      PROVE  Smoothing!Abs(ms[i].center - ms[j].center) > Spread
  <2>1. i < j \/ j < i
    BY <1>3, <1>6
  <2>2. QED BY <1>5, <1>6, <2>1
<1>7. FarApart(ms)
  BY <1>6 DEF FarApart
<1>8. QED BY <1>3, <1>4, <1>7 DEF GoodLocks, ms

LEMMA ConcatIs ==
  ASSUME NEW A, NEW s \in Seq(A), NEW t \in Seq(A)
  PROVE  /\ s \o t \in Seq(A) /\ Len(s \o t) = Len(s) + Len(t) /\ Len(s) \in Nat /\ Len(t) \in Nat
         /\ \A i \in 1 .. Len(s) : (s \o t)[i] = s[i]
         /\ \A i \in 1 .. Len(s) + Len(t) : i > Len(s) => i - Len(s) \in 1 .. Len(t) /\ (s \o t)[i] = t[i - Len(s)]
  OBVIOUS

(* A lock that no region took is not one of theirs. *)
LEMMA UnusedIsFar ==
  ASSUME NEW a \in Smoothing!Layouts, NEW angles \in Turns,
         a.regions \in Seq(Ranges(a.robot, angles)), NEW locks, GoodLocks(locks),
         NEW sel \in Seq(Choices(a.robot, angles)), Len(sel) <= Len(a.regions),
         \A k \in 1 .. Len(sel) : RightChoice(a.robot, a.regions, locks, sel, k),
         NEW k \in 1 .. Len(sel), NEW m \in DOMAIN locks, m \notin {sel[j].lock : j \in DOMAIN sel},
         locks[m].sign = a.regions[k].sign
  PROVE  Smoothing!Abs(locks[m].center - Smoothing!Center(a.robot, a.regions[k])) > Spread
<1> DEFINE p == Smoothing!Center(a.robot, a.regions[k])
           used == {sel[j].lock : j \in 1 .. k - 1}
<1>1. Len(sel) \in Nat /\ DOMAIN sel = 1 .. Len(sel) /\ k \in DOMAIN a.regions
      /\ a.regions[k] \in Ranges(a.robot, angles) /\ a.robot \in Robots
  <2>1. Len(sel) \in Nat /\ Len(a.regions) \in Nat
    OBVIOUS
  <2>2. k \in 1 .. Len(a.regions) /\ DOMAIN sel = 1 .. Len(sel)
    BY <2>1
  <2>3. QED BY <2>1, <2>2, LayoutIs
<1>2. p \in Int
  BY <1>1, CenterIs
<1>3. locks[m].center \in Int /\ locks \in Seq(Locks)
  BY LockIs DEF GoodLocks
<1>4. Smoothing!Abs(locks[m].center - p) \in Nat /\ Spread \in Nat
  BY <1>2, <1>3, DistanceIs, SpreadIs
<1>5. m \in DOMAIN locks \ used
  <2>1. 1 .. k - 1 \subseteq DOMAIN sel
    BY <1>1
  <2>2. QED BY <2>1
<1> HIDE DEF p, used
<1>6. ASSUME Smoothing!Abs(locks[m].center - p) <= Spread PROVE FALSE
  <2>1. /\ Smoothing!Abs(locks[m].center - p) < smooth_region_match_dist_
        /\ \A o \in DOMAIN locks \ {m} : locks[o].sign = locks[m].sign =>
              Smoothing!Abs(locks[m].center - p) < Smoothing!Abs(locks[o].center - p)
    BY <1>2, <1>6, OthersAreFarther
  <2>2. Smoothing!MatchedLock(a.robot, a.regions[k], locks, used) = m
    BY <1>1, <1>3, <1>5, <2>1, MatchedIs DEF p
  <2>3. sel[k].lock = m
    BY <2>2 DEF RightChoice, used
  <2>4. QED BY <1>1, <2>3
<1>7. QED BY <1>4, <1>6 DEF p

LEMMA NewLocksAre ==
  ASSUME NEW a \in Smoothing!Layouts, NEW angles \in Turns,
         a.regions \in Seq(Ranges(a.robot, angles)), NEW locks, GoodLocks(locks),
         NEW sel \in Seq(Choices(a.robot, angles)), Len(sel) <= Len(a.regions),
         \A k \in 1 .. Len(sel) : RightChoice(a.robot, a.regions, locks, sel, k)
  PROVE  LET new == Smoothing!NewLocks(a.robot, sel, locks)
         IN  /\ GoodLocks(new) /\ Len(sel) <= Len(new)
             /\ \A k \in 1 .. Len(sel) :
                  /\ new[k].center = Smoothing!Center(a.robot, a.regions[k])
                  /\ new[k].sign = a.regions[k].sign /\ new[k].control = a.robot + sel[k].c.si
<1> DEFINE used == {sel[k].lock : k \in DOMAIN sel}
           head(k) == [center |-> Smoothing!Center(a.robot, sel[k].region), control |-> a.robot + sel[k].c.si,
                       sign |-> sel[k].region.sign, miss |-> 0]
           heads == [k \in DOMAIN sel |-> head(k)]
           ms == Smoothing!Missed(locks, used)
           new == heads \o ms
           n == Len(sel)
<1>1. Smoothing!NewLocks(a.robot, sel, locks) = new
  BY DEF Smoothing!NewLocks
<1>2. n \in Nat /\ DOMAIN sel = 1 .. n /\ Len(a.regions) \in Nat /\ 1 .. n \subseteq 1 .. Len(a.regions)
      /\ DOMAIN a.regions = 1 .. Len(a.regions) /\ a.robot \in Robots
  <2>1. n \in Nat /\ DOMAIN sel = 1 .. n /\ Len(a.regions) \in Nat /\ DOMAIN a.regions = 1 .. Len(a.regions)
    OBVIOUS
  <2>2. QED BY <2>1, LayoutIs
<1>3. ASSUME NEW k \in 1 .. n
      PROVE  /\ sel[k].region = a.regions[k] /\ Smoothing!Center(a.robot, a.regions[k]) \in Int
             /\ a.regions[k].sign \in {1, -1} /\ a.robot + sel[k].c.si \in Int
  <2>1. sel[k] \in Choices(a.robot, angles)
    BY <1>2
  <2>2. sel[k].c \in Curves(a.robot, angles)
    BY <2>1 DEF Choices
  <2>3. sel[k].c.si \in Int /\ a.robot \in Int
    <3>1. \A r \in Robots : \A c \in Curves(r, angles) : c.si \in Int
      BY CurveIs
    <3>2. a.robot \in Nat
      BY <1>2, SmoothConstants
    <3>3. QED BY <1>2, <2>2, <3>1, <3>2
  <2>4. k \in DOMAIN a.regions
    BY <1>2
  <2>5. Smoothing!Center(a.robot, a.regions[k]) \in Int /\ a.regions[k].sign \in {1, -1}
    BY <2>4, LayoutIs
  <2>6. RightChoice(a.robot, a.regions, locks, sel, k)
    OBVIOUS
  <2>7. sel[k].region = a.regions[k]
    BY <2>6 DEF RightChoice
  <2>8. a.robot + sel[k].c.si \in Int
    BY <2>3
  <2>9. QED BY <2>5, <2>7, <2>8
<1>4. ASSUME NEW k \in 1 .. n
      PROVE  /\ heads[k] \in Locks /\ heads[k].center = Smoothing!Center(a.robot, a.regions[k])
             /\ heads[k].sign = a.regions[k].sign /\ heads[k].control = a.robot + sel[k].c.si
  <2>1. heads[k] = [center |-> Smoothing!Center(a.robot, a.regions[k]), control |-> a.robot + sel[k].c.si,
                    sign |-> a.regions[k].sign, miss |-> 0]
    BY <1>2, <1>3
  <2> HIDE DEF heads
  <2>2. QED BY <1>3, <2>1 DEF Locks
<1>5. heads \in Seq(Locks) /\ Len(heads) = n
  <2>1. DOMAIN heads = 1 .. n
    BY <1>2
  <2>2. heads \in [1 .. n -> Locks]
    <3>1. heads = [k \in 1 .. n |-> heads[k]]
      BY <1>2
    <3> HIDE DEF heads
    <3>2. QED BY <1>4, <3>1
  <2> HIDE DEF heads
  <2>3. QED BY <1>2, <2>2
<1>6. GoodLocks(ms) /\ Kept(ms, locks, used, Len(locks)) /\ locks \in Seq(Locks)
      /\ DOMAIN locks = 1 .. Len(locks)
  <2>1. locks \in Seq(Locks)
    BY DEF GoodLocks
  <2>2. QED BY <2>1, MissedAreGood, MissedIs
<1> HIDE DEF heads, ms
<1>7. /\ new \in Seq(Locks) /\ Len(new) = n + Len(ms) /\ Len(ms) \in Nat
      /\ \A k \in 1 .. n : new[k] = heads[k]
      /\ \A k \in 1 .. n + Len(ms) : k > n => k - n \in 1 .. Len(ms) /\ new[k] = ms[k - n]
  <2>1. ms \in Seq(Locks)
    BY <1>6 DEF GoodLocks
  <2>2. /\ new \in Seq(Locks) /\ Len(new) = Len(heads) + Len(ms) /\ Len(ms) \in Nat
        /\ \A k \in 1 .. Len(heads) : new[k] = heads[k]
        /\ \A k \in 1 .. Len(heads) + Len(ms) :
             k > Len(heads) => k - Len(heads) \in 1 .. Len(ms) /\ new[k] = ms[k - Len(heads)]
    BY <1>5, <2>1, ConcatIs, Zenon
  <2> HIDE DEF new
  <2>3. Len(heads) = n
    BY <1>5
  <2>4. QED BY <2>2, <2>3
<1> HIDE DEF new
<1>8. DOMAIN new = 1 .. n + Len(ms) /\ DOMAIN ms = 1 .. Len(ms)
  <2>1. DOMAIN new = 1 .. Len(new)
    BY <1>7
  <2>2. ms \in Seq(Locks)
    BY <1>6 DEF GoodLocks
  <2>3. QED BY <1>7, <2>1, <2>2
<1>9. ASSUME NEW k \in DOMAIN new PROVE InPlace(new[k])
  <2>1. CASE k \in 1 .. n
    <3>1. k \in DOMAIN a.regions
      BY <1>2, <2>1
    <3>2. QED BY <1>4, <1>7, <2>1, <3>1 DEF InPlace
  <2>2. CASE k \notin 1 .. n
    <3>1. k - n \in DOMAIN ms /\ new[k] = ms[k - n]
      BY <1>2, <1>7, <1>8, <2>2
    <3>2. QED BY <1>6, <3>1 DEF GoodLocks
  <2>3. QED BY <2>1, <2>2
<1>10. ASSUME NEW j \in DOMAIN new, NEW k \in DOMAIN new, j < k, new[j].sign = new[k].sign
       PROVE  /\ Smoothing!Abs(new[j].center - new[k].center) > Spread
              /\ Smoothing!Abs(new[k].center - new[j].center) > Spread
  <2>1. new[j].center \in Int /\ new[k].center \in Int
    <3>1. new[j] \in Locks /\ new[k] \in Locks
      BY <1>7
    <3>2. QED BY <3>1 DEF Locks
  <2>2. Smoothing!Abs(new[j].center - new[k].center) = Smoothing!Abs(new[k].center - new[j].center)
    BY <2>1, DistanceIs
  <2>3. CASE k \in 1 .. n
    <3>1. j \in 1 .. n /\ j \in DOMAIN a.regions /\ k \in DOMAIN a.regions /\ j # k
      BY <1>2, <1>8, <1>10, <2>3
    <3>2. /\ new[j].center = Smoothing!Center(a.robot, a.regions[j])
          /\ new[k].center = Smoothing!Center(a.robot, a.regions[k])
          /\ a.regions[j].sign = a.regions[k].sign
      BY <1>4, <1>7, <1>10, <2>3, <3>1
    <3>3. Smoothing!Between(a, j, a, k) > Spread
      BY <3>1, <3>2, SpreadIs DEF WellSpaced
    <3>4. QED BY <2>2, <3>2, <3>3 DEF Smoothing!Between
  <2>4. CASE j \in 1 .. n /\ k \notin 1 .. n
    <3>1. k - n \in 1 .. Len(ms) /\ new[k] = ms[k - n]
      BY <1>2, <1>7, <1>8, <2>4
    <3>2. PICK m \in 1 .. Len(locks) : m \notin used /\ SameLock(ms[k - n], locks[m])
      BY <1>6, <3>1 DEF Kept
    <3>3. /\ new[j].center = Smoothing!Center(a.robot, a.regions[j])
          /\ locks[m].sign = a.regions[j].sign /\ new[k].center = locks[m].center
      BY <1>4, <1>7, <1>10, <2>4, <3>1, <3>2 DEF SameLock
    <3>4. Smoothing!Abs(locks[m].center - Smoothing!Center(a.robot, a.regions[j])) > Spread
      BY <1>6, <2>4, <3>2, <3>3, UnusedIsFar
    <3>5. QED BY <2>2, <3>3, <3>4
  <2>5. CASE j \notin 1 .. n
    <3>1. j \in Nat /\ k \in Nat /\ j < k /\ j > n /\ k > n /\ n \in Nat
          /\ j \in 1 .. n + Len(ms) /\ k \in 1 .. n + Len(ms)
      <4>1. j \in 1 .. n + Len(ms) /\ k \in 1 .. n + Len(ms)
        BY <1>8
      <4> HIDE DEF n
      <4>2. QED BY <1>2, <1>7, <1>10, <2>5, <4>1
    <3> HIDE DEF n
    <3>5. j - n \in 1 .. Len(ms) /\ k - n \in 1 .. Len(ms) /\ new[j] = ms[j - n] /\ new[k] = ms[k - n]
      BY <1>7, <3>1
    <3>6. j - n # k - n
      BY <3>1
    <3>2. Smoothing!Abs(ms[j - n].center - ms[k - n].center) > Spread
      BY <1>6, <1>8, <1>10, <3>5, <3>6 DEF GoodLocks, FarApart
    <3>3. QED BY <2>2, <3>5, <3>2
  <2>6. QED BY <2>3, <2>4, <2>5
<1>11. FarApart(new)
  <2>1. ASSUME NEW j \in DOMAIN new, NEW k \in DOMAIN new, j # k, new[j].sign = new[k].sign
        PROVE  Smoothing!Abs(new[j].center - new[k].center) > Spread
    <3>1. j < k \/ k < j
      BY <1>2, <1>7, <1>8, <2>1
    <3>2. QED BY <1>10, <2>1, <3>1
  <2>2. QED BY <2>1 DEF FarApart
<1>12. GoodLocks(new) /\ n <= Len(new)
  BY <1>2, <1>7, <1>9, <1>11 DEF GoodLocks
<1>13. QED BY <1>1, <1>4, <1>7, <1>12

(* The sides and the vertices of the regions of a layout. *)
AllContents(a) == [k \in DOMAIN a.regions |-> Smoothing!Contents(a.regions[k])]

(* The k-th lock and the k-th vertex of ch are those of the k-th region. *)
OfRegion(a, locks, ch, k) ==
  /\ locks[k].center = Smoothing!Center(a.robot, a.regions[k]) /\ locks[k].sign = a.regions[k].sign
  /\ locks[k].control = Vertices[ch[k]]
  /\ \E j \in DOMAIN a.regions[k].cs : ch[k] = a.regions[k].cs[j].index

(* The locks that come first remember what was chosen in the last cycle. *)
Remembered(locks, rgs, ch) ==
  /\ ch \in Seq(Nat) /\ Len(rgs) \in Nat
  /\ Len(ch) = IF Len(rgs) < smooth_region_max_count_ THEN Len(rgs) ELSE smooth_region_max_count_
  /\ Len(rgs) > 0 =>
       \E a \in Smoothing!Layouts :
         /\ rgs = AllContents(a) /\ Len(ch) <= Len(locks)
         /\ \A k \in 1 .. Len(ch) : OfRegion(a, locks, ch, k)

SmoothInv ==
  /\ GoodLocks(locked_smooth_regions_)
  /\ Remembered(locked_smooth_regions_, regions, chosen)

LEMMA ChoiceIs ==
  ASSUME NEW a \in Smoothing!Layouts, NEW angles \in Turns,
         a.regions \in Seq(Ranges(a.robot, angles)), NEW locks, GoodLocks(locks),
         NEW sel, sel = Smoothing!Selected(a.robot, a.regions, locks)
  PROVE  /\ sel \in Seq(Choices(a.robot, angles)) /\ Len(sel) \in Nat /\ DOMAIN sel = 1 .. Len(sel)
         /\ Len(sel) = IF Len(a.regions) < smooth_region_max_count_ THEN Len(a.regions)
                       ELSE smooth_region_max_count_
         /\ Len(sel) <= Len(a.regions)
         /\ DOMAIN a.regions = 1 .. Len(a.regions) /\ Len(a.regions) \in Nat
         /\ a.robot \in Robots /\ locks \in Seq(Locks)
         /\ \A k \in 1 .. Len(sel) :
              /\ RightChoice(a.robot, a.regions, locks, sel, k)
              /\ k \in DOMAIN a.regions /\ a.regions[k] \in Ranges(a.robot, angles)
              /\ sel[k].c \in Curves(a.robot, angles) /\ sel[k].c.index \in 1 .. Len(Vertices) - 1
              /\ sel[k].c.index \in Nat /\ a.robot + sel[k].c.si = Vertices[sel[k].c.index]
<1>1. a.robot \in Robots /\ locks \in Seq(Locks)
  BY LayoutIs DEF GoodLocks
<1>2. /\ sel \in Seq(Choices(a.robot, angles))
      /\ Len(sel) = IF Len(a.regions) < smooth_region_max_count_ THEN Len(a.regions)
                    ELSE smooth_region_max_count_
      /\ \A k \in 1 .. Len(sel) : RightChoice(a.robot, a.regions, locks, sel, k)
  BY <1>1, SelectedIs
<1>3. Len(a.regions) \in Nat /\ DOMAIN a.regions = 1 .. Len(a.regions)
  OBVIOUS
<1>4. Len(sel) \in Nat /\ DOMAIN sel = 1 .. Len(sel)
  BY <1>2
<1>5. Len(sel) <= Len(a.regions)
  BY <1>2, <1>3, <1>4, SmoothConstants
<1>6. ASSUME NEW k \in 1 .. Len(sel)
      PROVE  /\ k \in DOMAIN a.regions /\ a.regions[k] \in Ranges(a.robot, angles)
             /\ sel[k].c \in Curves(a.robot, angles) /\ sel[k].c.index \in 1 .. Len(Vertices) - 1
             /\ sel[k].c.index \in Nat /\ a.robot + sel[k].c.si = Vertices[sel[k].c.index]
  <2>1. k \in DOMAIN a.regions
    BY <1>3, <1>4, <1>5
  <2>2. a.regions[k] \in Ranges(a.robot, angles)
    BY <2>1
  <2>3. sel[k] \in Choices(a.robot, angles)
    BY <1>2, <1>4
  <2>4. sel[k].c \in Curves(a.robot, angles)
    BY <2>3 DEF Choices
  <2>5. sel[k].c.index \in 1 .. Len(Vertices) - 1 /\ a.robot + sel[k].c.si = Vertices[sel[k].c.index]
    BY <1>1, <2>4, CurveIs
  <2>6. sel[k].c.index \in Nat
    BY <2>5, VerticesAre
  <2>7. QED BY <2>1, <2>2, <2>4, <2>5, <2>6
<1>7. QED BY <1>1, <1>2, <1>3, <1>4, <1>5, <1>6

(* A lock is of a corner of its region. *)
LEMMA ChosenFromRegion ==
  ASSUME NEW a \in Smoothing!Layouts, NEW angles \in Turns,
         a.regions \in Seq(Ranges(a.robot, angles)), NEW locks, GoodLocks(locks),
         NEW sel, sel = Smoothing!Selected(a.robot, a.regions, locks)
  PROVE  \A k \in 1 .. Len(sel) :
           /\ \E j \in DOMAIN a.regions[k].cs : sel[k].c = a.regions[k].cs[j]
           /\ sel[k].lock # 0 => \A j \in DOMAIN a.regions[k].cs :
                locks[sel[k].lock].control = Vertices[a.regions[k].cs[j].index]
                => sel[k].c.index = a.regions[k].cs[j].index
<1> SUFFICES ASSUME NEW k \in 1 .. Len(sel)
             PROVE  /\ \E j \in DOMAIN a.regions[k].cs : sel[k].c = a.regions[k].cs[j]
                    /\ sel[k].lock # 0 => \A j \in DOMAIN a.regions[k].cs :
                         locks[sel[k].lock].control = Vertices[a.regions[k].cs[j].index]
                         => sel[k].c.index = a.regions[k].cs[j].index
  OBVIOUS
<1> DEFINE g == a.regions[k]
           l == sel[k].lock
           lock == IF l = 0 THEN {} ELSE {locks[l]}
<1>1. /\ a.robot \in Robots /\ locks \in Seq(Locks) /\ g \in Ranges(a.robot, angles)
      /\ RightChoice(a.robot, a.regions, locks, sel, k)
  BY ChoiceIs
<1>2. /\ l = Smoothing!MatchedLock(a.robot, g, locks, {sel[j].lock : j \in 1 .. k - 1})
      /\ sel[k].c = Smoothing!ChosenCandidate(a.robot, g, lock)
  BY <1>1 DEF RightChoice
<1> HIDE DEF g, l
<1>3. l = 0 \/ l \in DOMAIN locks
  BY <1>1, <1>2, MatchedIs
<1>4. lock = {} \/ \E o \in Locks : lock = {o}
  BY <1>1, <1>3
<1> HIDE DEF lock
<1>5. /\ \E j \in DOMAIN g.cs : sel[k].c = g.cs[j]
      /\ \A o \in Locks : \A j \in DOMAIN g.cs :
           lock = {o} /\ o.control = Vertices[g.cs[j].index] => sel[k].c.index = g.cs[j].index
  BY <1>1, <1>2, <1>4, ChosenIs
<1>6. l # 0 => locks[l] \in Locks /\ lock = {locks[l]}
  BY <1>1, <1>3 DEF lock
<1>7. QED BY <1>3, <1>5, <1>6 DEF g, l

(* What a cycle with candidates leaves. *)
LEMMA CycleIs ==
  ASSUME NEW a \in Smoothing!Layouts, NEW angles \in Turns,
         a.regions \in Seq(Ranges(a.robot, angles)), NEW locks, GoodLocks(locks),
         NEW sel, sel = Smoothing!Selected(a.robot, a.regions, locks)
  PROVE  /\ GoodLocks(Smoothing!NewLocks(a.robot, sel, locks))
         /\ Remembered(Smoothing!NewLocks(a.robot, sel, locks), AllContents(a),
                       [k \in DOMAIN sel |-> sel[k].c.index])
<1> DEFINE new == Smoothing!NewLocks(a.robot, sel, locks)
           ch == [k \in DOMAIN sel |-> sel[k].c.index]
<1>1. /\ sel \in Seq(Choices(a.robot, angles)) /\ Len(sel) \in Nat /\ DOMAIN sel = 1 .. Len(sel)
      /\ Len(sel) = IF Len(a.regions) < smooth_region_max_count_ THEN Len(a.regions)
                    ELSE smooth_region_max_count_
      /\ Len(sel) <= Len(a.regions)
      /\ DOMAIN a.regions = 1 .. Len(a.regions) /\ Len(a.regions) \in Nat
      /\ \A k \in 1 .. Len(sel) :
           /\ RightChoice(a.robot, a.regions, locks, sel, k)
           /\ sel[k].c.index \in Nat /\ a.robot + sel[k].c.si = Vertices[sel[k].c.index]
  BY ChoiceIs
<1>2. /\ GoodLocks(new) /\ Len(sel) <= Len(new)
      /\ \A k \in 1 .. Len(sel) :
           /\ new[k].center = Smoothing!Center(a.robot, a.regions[k])
           /\ new[k].sign = a.regions[k].sign /\ new[k].control = a.robot + sel[k].c.si
  BY <1>1, NewLocksAre
<1> HIDE DEF new
<1>3. ch = [k \in 1 .. Len(sel) |-> sel[k].c.index]
  BY <1>1
<1> HIDE DEF ch
<1>4. ch \in Seq(Nat) /\ Len(ch) = Len(sel)
  <2>1. ch \in [1 .. Len(sel) -> Nat]
    BY <1>1, <1>3
  <2>2. QED BY <1>1, <2>1
<1>5. Len(AllContents(a)) = Len(a.regions)
  <2>1. DOMAIN AllContents(a) = 1 .. Len(a.regions)
    BY <1>1 DEF AllContents
  <2>2. AllContents(a) = [k \in 1 .. Len(a.regions) |-> Smoothing!Contents(a.regions[k])]
    BY <1>1 DEF AllContents
  <2>3. QED BY <1>1, <2>2
<1>6. ASSUME NEW k \in 1 .. Len(ch) PROVE OfRegion(a, new, ch, k)
  <2>1. k \in 1 .. Len(sel) /\ ch[k] = sel[k].c.index
    BY <1>3, <1>4
  <2>2. \E j \in DOMAIN a.regions[k].cs : sel[k].c = a.regions[k].cs[j]
    <3>1. \A i \in 1 .. Len(sel) : \E j \in DOMAIN a.regions[i].cs : sel[i].c = a.regions[i].cs[j]
      BY ChosenFromRegion
    <3>2. QED BY <2>1, <3>1
  <2>3. \E j \in DOMAIN a.regions[k].cs : ch[k] = a.regions[k].cs[j].index
    BY <2>1, <2>2
  <2>4. new[k].control = Vertices[ch[k]]
    BY <1>1, <1>2, <2>1
  <2>5. QED BY <1>2, <2>1, <2>3, <2>4 DEF OfRegion
<1>7. Remembered(new, AllContents(a), ch)
  BY <1>1, <1>2, <1>4, <1>5, <1>6 DEF Remembered
<1>8. QED BY <1>2, <1>7 DEF new, ch

(* Regions that stay the same take the locks that are theirs, one by one:  *)
(* the k-th region takes the k-th lock, which is nearer to it than all     *)
(* others of its side, and with it its corner. *)
LEMMA ChoiceIsKept ==
  ASSUME NEW a \in Smoothing!Layouts, NEW angles \in Turns,
         a.regions \in Seq(Ranges(a.robot, angles)), NEW locks, GoodLocks(locks),
         NEW sel, sel = Smoothing!Selected(a.robot, a.regions, locks),
         NEW old, Remembered(locks, AllContents(a), old)
  PROVE  [k \in DOMAIN sel |-> sel[k].c.index] = old
<1> DEFINE n == Len(sel)
           ch == [k \in DOMAIN sel |-> sel[k].c.index]
<1>1. /\ n \in Nat /\ DOMAIN sel = 1 .. n
      /\ n = IF Len(a.regions) < smooth_region_max_count_ THEN Len(a.regions)
             ELSE smooth_region_max_count_
      /\ n <= Len(a.regions)
      /\ DOMAIN a.regions = 1 .. Len(a.regions) /\ Len(a.regions) \in Nat
      /\ a.robot \in Robots /\ locks \in Seq(Locks)
      /\ \A k \in 1 .. n :
           /\ RightChoice(a.robot, a.regions, locks, sel, k)
           /\ k \in DOMAIN a.regions /\ a.regions[k] \in Ranges(a.robot, angles)
           /\ sel[k].c.index \in Nat
  BY ChoiceIs
<1> HIDE DEF n
<1>2. Len(AllContents(a)) = Len(a.regions) /\ DOMAIN AllContents(a) = 1 .. Len(a.regions)
  <2>1. AllContents(a) = [k \in 1 .. Len(a.regions) |-> Smoothing!Contents(a.regions[k])]
    BY <1>1 DEF AllContents
  <2>2. QED BY <1>1, <2>1
<1>3. old \in Seq(Nat) /\ Len(old) = n
  BY <1>1, <1>2 DEF Remembered
<1>4. ch = [k \in 1 .. n |-> sel[k].c.index]
  BY <1>1
<1>5. old = [k \in 1 .. n |-> old[k]]
  BY <1>1, <1>3
<1>6. ASSUME n > 0 PROVE \A k \in 1 .. n : sel[k].c.index = old[k]
  <2>1. PICK b \in Smoothing!Layouts :
          /\ AllContents(a) = AllContents(b) /\ Len(old) <= Len(locks)
          /\ \A k \in 1 .. Len(old) : OfRegion(b, locks, old, k)
    <3>1. Len(AllContents(a)) > 0
      BY <1>1, <1>2, <1>6
    <3>2. QED BY <3>1, Zenon DEF Remembered
  <2>2. /\ n <= Len(locks) /\ DOMAIN locks = 1 .. Len(locks) /\ Len(locks) \in Nat
        /\ \A k \in 1 .. n : OfRegion(b, locks, old, k) /\ k \in DOMAIN locks
    <3>1. DOMAIN locks = 1 .. Len(locks) /\ Len(locks) \in Nat
      BY <1>1
    <3>2. n <= Len(locks) /\ \A k \in 1 .. n : OfRegion(b, locks, old, k)
      BY <1>3, <2>1
    <3>3. QED BY <1>1, <3>1, <3>2
  <2>3. ASSUME NEW k \in 1 .. n
        PROVE  /\ k \in DOMAIN b.regions /\ k \in DOMAIN a.regions
               /\ Smoothing!Contents(a.regions[k]) = Smoothing!Contents(b.regions[k])
    <3>1. k \in DOMAIN a.regions
      BY <1>1
    <3>2. DOMAIN b.regions = DOMAIN a.regions
      <4>1. DOMAIN AllContents(b) = DOMAIN b.regions /\ DOMAIN AllContents(a) = DOMAIN a.regions
        BY DEF AllContents
      <4>2. QED BY <2>1, <4>1
    <3>3. AllContents(a)[k] = Smoothing!Contents(a.regions[k])
          /\ AllContents(b)[k] = Smoothing!Contents(b.regions[k])
      BY <3>1, <3>2 DEF AllContents
    <3>4. QED BY <2>1, <3>1, <3>2, <3>3
  <2>4. ASSUME NEW k \in 1 .. n
        PROVE  /\ locks[k].sign = a.regions[k].sign
               /\ Smoothing!Abs(locks[k].center - Smoothing!Center(a.robot, a.regions[k])) <= Spread
    <3>1. b.regions[k].sign = a.regions[k].sign
      BY <2>3 DEF Smoothing!Contents
    <3>2. Smoothing!Between(b, k, a, k) <= Spread
      BY <2>3, <3>1, SpreadIs DEF WellSpaced
    <3>3. locks[k].center = Smoothing!Center(b.robot, b.regions[k]) /\ locks[k].sign = b.regions[k].sign
      BY <2>2 DEF OfRegion
    <3>4. QED BY <3>1, <3>2, <3>3 DEF Smoothing!Between
  <2>5. ASSUME NEW k \in 1 .. n, \A j \in 1 .. k - 1 : sel[j].lock = j
        PROVE  sel[k].lock = k
    <3> DEFINE g == a.regions[k]
               p == Smoothing!Center(a.robot, g)
               used == {sel[j].lock : j \in 1 .. k - 1}
    <3>1. p \in Int /\ g \in Ranges(a.robot, angles)
      BY <1>1, CenterIs
    <3>2. k \in DOMAIN locks \ used
      <4>1. k \in Nat
        BY <1>1
      <4>2. k \notin used
        BY <2>5, <4>1
      <4>3. QED BY <2>2, <4>2
    <3>3. locks[k].sign = g.sign /\ Smoothing!Abs(locks[k].center - p) <= Spread
      BY <2>4
    <3>4. RightChoice(a.robot, a.regions, locks, sel, k)
      BY <1>1
    <3> HIDE DEF used
    <3>5. sel[k].lock = Smoothing!MatchedLock(a.robot, g, locks, used)
      BY <3>4 DEF RightChoice, used
    <3> HIDE DEF p
    <3>6. /\ Smoothing!Abs(locks[k].center - p) < smooth_region_match_dist_
          /\ \A o \in DOMAIN locks \ {k} : locks[o].sign = locks[k].sign =>
               Smoothing!Abs(locks[k].center - p) < Smoothing!Abs(locks[o].center - p)
      BY <2>2, <3>1, <3>3, OthersAreFarther
    <3> HIDE DEF g
    <3>7. Smoothing!MatchedLock(a.robot, g, locks, used) = k
      BY <1>1, <3>1, <3>2, <3>3, <3>6, MatchedIs DEF p
    <3>8. QED BY <3>5, <3>7
  <2>6. \A k \in 1 .. n : sel[k].lock = k
    <3> DEFINE S == {m \in Nat : \A j \in 1 .. m : j <= n => sel[j].lock = j}
    <3>1. 0 \in S
      OBVIOUS
    <3>2. ASSUME NEW m \in Nat, m \in S PROVE m + 1 \in S
      <4>1. ASSUME m + 1 <= n PROVE sel[m + 1].lock = m + 1
        <5>1. m + 1 \in 1 .. n /\ \A j \in 1 .. (m + 1) - 1 : sel[j].lock = j
          <6>1. (m + 1) - 1 = m /\ m + 1 \in 1 .. n
            BY <1>1, <4>1
          <6>2. \A j \in 1 .. m : j <= n
            BY <1>1, <4>1
          <6>3. \A j \in 1 .. m : sel[j].lock = j
            BY <3>2, <6>2
          <6>4. QED BY <6>1, <6>3
        <5>2. QED BY <2>5, <5>1
      <4>2. \A j \in 1 .. m : j <= n => sel[j].lock = j
        BY <3>2
      <4>3. \A j \in 1 .. m + 1 : j \in 1 .. m \/ j = m + 1
        OBVIOUS
      <4>4. QED BY <4>1, <4>2, <4>3
    <3> HIDE DEF S
    <3>3. Nat \subseteq S
      BY <3>1, <3>2, SetInduction
    <3>4. \A j \in 1 .. n : j <= n => sel[j].lock = j
      BY <1>1, <3>3 DEF S
    <3>5. QED BY <1>1, <3>4
  <2>7. ASSUME NEW k \in 1 .. n PROVE sel[k].c.index = old[k]
    <3>1. sel[k].lock = k /\ k # 0
      BY <1>1, <2>6
    <3>2. locks[k].control = Vertices[old[k]]
      BY <2>2 DEF OfRegion
    <3>3. PICK j \in DOMAIN a.regions[k].cs : a.regions[k].cs[j].index = old[k]
      <4>1. PICK i \in DOMAIN b.regions[k].cs : old[k] = b.regions[k].cs[i].index
        BY <2>2 DEF OfRegion
      <4>2. {a.regions[k].cs[j].index : j \in DOMAIN a.regions[k].cs}
              = {b.regions[k].cs[j].index : j \in DOMAIN b.regions[k].cs}
        BY <2>3 DEF Smoothing!Contents
      <4>3. QED BY <4>1, <4>2
    <3>4. \A i \in 1 .. Len(sel) : sel[i].lock # 0 => \A q \in DOMAIN a.regions[i].cs :
             locks[sel[i].lock].control = Vertices[a.regions[i].cs[q].index]
             => sel[i].c.index = a.regions[i].cs[q].index
      BY ChosenFromRegion
    <3>5. QED BY <3>1, <3>2, <3>3, <3>4 DEF n
  <2>8. QED BY <2>7
<1>7. \A k \in 1 .. n : sel[k].c.index = old[k]
  BY <1>1, <1>6
<1>8. QED BY <1>4, <1>5, <1>7

LEMMA SmoothInvInit == Smoothing!Init => SmoothInv
<1> SUFFICES ASSUME Smoothing!Init PROVE SmoothInv
  OBVIOUS
<1>1. locked_smooth_regions_ = <<>> /\ regions = <<>> /\ chosen = <<>>
  BY DEF Smoothing!Init
<1>2. GoodLocks(locked_smooth_regions_)
  BY <1>1 DEF GoodLocks, FarApart
<1>3. Remembered(locked_smooth_regions_, regions, chosen)
  BY <1>1, SmoothConstants DEF Remembered
<1>4. QED BY <1>2, <1>3 DEF SmoothInv

LEMMA SmoothInvStep ==
  ASSUME SmoothInv, NEW r \in Robots, NEW angles \in Turns,
         NEW free \in SUBSET (1 .. Len(Vertices) - 1), Smoothing!Smooth(r, angles, free)
  PROVE  SmoothInv' /\ (regions' = regions => chosen' = chosen)
<1> DEFINE cs == Smoothing!Candidates(r, angles, free)
           rs == Smoothing!RegionsOf(cs)
           locks == locked_smooth_regions_
           sel == Smoothing!Selected(r, rs, locks)
           a == [robot |-> r, regions |-> rs]
<1>1. \/ /\ cs = <<>> /\ locked_smooth_regions_' = Smoothing!Missed(locks, {})
         /\ regions' = <<>> /\ chosen' = <<>>
      \/ /\ locked_smooth_regions_' = Smoothing!NewLocks(r, sel, locks)
         /\ regions' = [k \in DOMAIN rs |-> Smoothing!Contents(rs[k])]
         /\ chosen' = [k \in DOMAIN sel |-> sel[k].c.index]
  BY DEF Smoothing!Smooth
<1>2. GoodLocks(locks) /\ Remembered(locks, regions, chosen)
  BY DEF SmoothInv
<1>3. a \in Smoothing!Layouts
  BY DEF Smoothing!Layouts, Smoothing!Smooth
<1>4. rs \in Seq(Ranges(r, angles))
  BY CandidatesAre, RegionsAre
<1> HIDE DEF cs, rs
<1>5. CASE /\ locked_smooth_regions_' = Smoothing!Missed(locks, {})
           /\ regions' = <<>> /\ chosen' = <<>>
  <2>1. GoodLocks(locked_smooth_regions_')
    BY <1>2, <1>5, MissedAreGood
  <2>2. Remembered(locked_smooth_regions_', regions', chosen')
    BY <1>5, SmoothConstants DEF Remembered
  <2>3. ASSUME regions = <<>> PROVE chosen = <<>>
    <3>1. chosen \in Seq(Nat) /\ Len(chosen) = 0
      BY <1>2, <2>3, SmoothConstants DEF Remembered
    <3>2. QED BY <3>1
  <2>4. SmoothInv'
    BY <2>1, <2>2 DEF SmoothInv
  <2>5. QED BY <1>5, <2>3, <2>4
<1>6. CASE /\ locked_smooth_regions_' = Smoothing!NewLocks(r, sel, locks)
           /\ regions' = [k \in DOMAIN rs |-> Smoothing!Contents(rs[k])]
           /\ chosen' = [k \in DOMAIN sel |-> sel[k].c.index]
  <2>1. a.robot = r /\ a.regions = rs
    OBVIOUS
  <2>2. regions' = AllContents(a)
    BY <1>6 DEF AllContents
  <2> HIDE DEF a
  <2>3. a.regions \in Seq(Ranges(a.robot, angles)) /\ sel = Smoothing!Selected(a.robot, a.regions, locks)
    BY <1>4, <2>1
  <2> HIDE DEF sel
  <2>4. /\ GoodLocks(Smoothing!NewLocks(a.robot, sel, locks))
        /\ Remembered(Smoothing!NewLocks(a.robot, sel, locks), AllContents(a),
                      [k \in DOMAIN sel |-> sel[k].c.index])
    BY <1>2, <1>3, <2>3, CycleIs
  <2>5. SmoothInv'
    BY <1>6, <2>1, <2>2, <2>4 DEF SmoothInv
  <2>6. ASSUME regions' = regions PROVE chosen' = chosen
    <3>1. Remembered(locks, AllContents(a), chosen)
      BY <1>2, <2>2, <2>6
    <3>2. QED BY <1>2, <1>3, <1>6, <2>3, <3>1, ChoiceIsKept
  <2>7. QED BY <2>5, <2>6
<1>7. QED BY <1>1, <1>5, <1>6

(* Cycles without lost corners: while the regions that a cycle finds stay  *)
(* the same, with the same vertices, the corners of the path that become   *)
(* curves stay the same, whatever becomes of their scores and of the locks *)
(* that other regions left. *)
THEOREM ChoicesAreKept == Smoothing!Init /\ [][Smoothing!Next]_smoothingVars => ChoiceIsSteady
<1>1. Smoothing!Init => SmoothInv
  BY SmoothInvInit
<1>2. SmoothInv /\ [Smoothing!Next]_smoothingVars => SmoothInv' /\ [regions' = regions => chosen' = chosen]_smoothingVars
  <2>1. ASSUME SmoothInv, Smoothing!Next PROVE SmoothInv' /\ (regions' = regions => chosen' = chosen)
    BY <2>1, SmoothInvStep DEF Smoothing!Next
  <2>2. ASSUME SmoothInv, UNCHANGED smoothingVars PROVE SmoothInv'
    BY <2>2 DEF SmoothInv, smoothingVars
  <2>3. QED BY <2>1, <2>2
<1>3. [][regions' = regions => chosen' = chosen]_smoothingVars => ChoiceIsSteady
  BY DEF ChoiceIsSteady, Smoothing!ChoiceIsSteady, Smoothing!vars, smoothingVars
<1>4. QED BY <1>1, <1>2, <1>3, PTL
==============================================================================
