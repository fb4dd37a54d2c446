----------------------------- MODULE PathSmoothing -----------------------------
(***************************************************************************)
(* softSmoothPathCorners of the controller: in the local path some corners *)
(* are replaced by curves, one corner in every region of nearby turns.     *)
(* The choice is remembered (locked_smooth_regions_) and matched with the  *)
(* regions of the next cycles.                                             *)
(*                                                                         *)
(* Lengths are centimetres along the path and the way is straight enough   *)
(* for them to be distances, too; angles are degrees, weights percent.     *)
(* Vertices keep their places while the robot advances; their angles, and  *)
(* whether a curve is free of obstacles, change from cycle to cycle.       *)
(***************************************************************************)
EXTENDS Integers, Sequences, SequencesExt, FiniteSetsExt

CONSTANTS
  Vertices,                   \* places of the vertices along the way, ascending; the last is the end
  Turns,                      \* turning angles at the vertices, negative to the other side
  Robots,                     \* places of the robot
  smooth_region_match_dist_,
  smooth_region_max_miss_,
  smooth_region_max_count_

VertexAssumption ==
  /\ Vertices \in Seq(Nat) /\ Len(Vertices) > 1
  /\ \A i \in 2 .. Len(Vertices) : Vertices[i - 1] < Vertices[i]
  /\ Turns \subseteq [1 .. Len(Vertices) - 1 -> -180 .. 180] /\ Robots \subseteq Nat
RegionAssumption ==
  /\ {smooth_region_match_dist_, smooth_region_max_miss_} \subseteq Nat
  /\ smooth_region_max_count_ \in Nat \ {0}

max_smooth_radius == 20
max_num_interpolation == 8
min_turn_angle == 15
full_turn_angle == 60
judge_window_dist == 25
min_point_spacing == 5
min_interpolation_points == 2
min_valid_len == 3
min_smooth_distance == 4
min_output_s_gap == 2
region_group_gap == 30

VARIABLES
  robot,                    \* place of the robot, where the path starts
  locked_smooth_regions_,   \* [center, control, sign, miss]
  smoothed,                 \* the path returned: [s, of, k], of a vertex (k = 0) or of a curve
  regions,                  \* regions of this cycle: their sides and vertices
  chosen                    \* the vertices that became curves

vars == <<robot, locked_smooth_regions_, smoothed, regions, chosen>>

Abs(n) == IF n < 0 THEN -n ELSE n
Clamp(n, lo, hi) == IF n < lo THEN lo ELSE IF n > hi THEN hi ELSE n

(* The first of the least. *)
First(S, rank) ==
  CHOOSE x \in S : \A y \in S \ {x} : rank[x] < rank[y] \/ (rank[x] = rank[y] /\ x < y)

-----------------------------------------------------------------------------
(* Candidates. *)

Ahead(r) == {i \in DOMAIN Vertices : Vertices[i] > r}
At(r, i) == Vertices[i] - r
Total(r) == At(r, Len(Vertices))

Percent(p, n) == (p * n) \div 100

(* smoothstep of the turning angle *)
Weight(turn) ==
  LET x == Clamp((100 * (Abs(turn) - min_turn_angle)) \div (full_turn_angle - min_turn_angle), 0, 100)
  IN  (x * x * (300 - 2 * x)) \div 10000

(* calc_interpolation_count *)
InterpolationCount(weight, span) ==
  LET score == max_num_interpolation * (3500 + 65 * weight) * Clamp((span * 100) \div 40, 0, 100)
      n == Min({max_num_interpolation, (score + 999999) \div 1000000, span \div min_point_spacing - 1})
  IN  IF weight < 5 \/ span < (min_interpolation_points + 1) * min_point_spacing
           \/ n < min_interpolation_points
      THEN 0 ELSE n

(* How far before and behind its vertex a curve reaches. *)
Reach(r, i, turn) ==
  LET s == At(r, i)
  IN  Min({Percent(45 + Percent(55, Weight(turn)), max_smooth_radius),
           Percent(45, Min({s, judge_window_dist})),
           Percent(45, Min({Total(r) - s, judge_window_dist})),
           s - min_output_s_gap,
           Total(r) - s - min_output_s_gap})

Candidate(r, i, turn) ==
  LET d == Reach(r, i, turn)
  IN  [index |-> i, si |-> At(r, i), start |-> At(r, i) - d, end |-> At(r, i) + d,
       sign |-> IF turn >= 0 THEN 1 ELSE -1,
       score |-> Abs(turn) * (50 + Weight(turn) \div 2),
       n |-> InterpolationCount(Weight(turn), 2 * d)]

IsCandidate(r, i, turn, safe) ==
  /\ At(r, i) >= min_valid_len /\ Total(r) - At(r, i) >= min_valid_len
  /\ Abs(turn) >= min_turn_angle
  /\ Weight(turn) > 0
  /\ Reach(r, i, turn) >= min_smooth_distance
  /\ Candidate(r, i, turn).n >= min_interpolation_points
  /\ safe

(* The candidates in the order of the path, when the vertices turn by turn *)
(* and the curves of the vertices in free are free of obstacles. *)
Candidates(r, turn, free) ==
  LET upto[i \in 0 .. Len(Vertices) - 1] ==
        IF i = 0 THEN <<>>
        ELSE IF IsCandidate(r, i, turn[i], i \in free)
        THEN Append(upto[i - 1], Candidate(r, i, turn[i])) ELSE upto[i - 1]
  IN  upto[Len(Vertices) - 1]

-----------------------------------------------------------------------------
(* Regions: neighbouring candidates that turn to the same side. *)

Joined(rs, c) ==
  LET last == rs[Len(rs)]
  IN  IF rs = <<>> \/ last.sign # c.sign \/ c.si - last.end > region_group_gap
      THEN Append(rs, [cs |-> <<c>>, start |-> c.start, end |-> c.end, sign |-> c.sign])
      ELSE [rs EXCEPT ![Len(rs)] =
             [last EXCEPT !.cs = Append(@, c), !.start = Min({@, c.start}), !.end = Max({@, c.end})]]

RegionsOf(cs) ==
  LET upto[k \in 0 .. Len(cs)] == IF k = 0 THEN <<>> ELSE Joined(upto[k - 1], cs[k])
  IN  upto[Len(cs)]

Center(r, region) == r + (region.start + region.end) \div 2
Contents(region) == <<region.sign, {region.cs[k].index : k \in DOMAIN region.cs}>>

(* The regions that a cycle may find. *)
Layouts ==
  {[robot |-> r, regions |-> RegionsOf(Candidates(r, turn, free))] :
     r \in {x \in Robots : Cardinality(Ahead(x)) >= 2}, turn \in Turns, free \in SUBSET (1 .. Len(Vertices) - 1)}

Between(a, j, b, k) == Abs(Center(a.robot, a.regions[j]) - Center(b.robot, b.regions[k]))

(* Regions of one side lie at most d from each other or more than twice as *)
(* far, and never so close in one cycle; one that keeps its vertices moves *)
(* by no more than d while the robot and the angles change. *)
SpacingAssumption ==
  \E d \in 0 .. smooth_region_match_dist_ - 1 :
    \A a, b \in Layouts : \A j \in DOMAIN a.regions, k \in DOMAIN b.regions :
      a.regions[j].sign = b.regions[k].sign =>
        /\ Between(a, j, b, k) <= d \/ Between(a, j, b, k) > 2 * d
        /\ Contents(a.regions[j]) = Contents(b.regions[k]) => Between(a, j, b, k) <= d
        /\ a = b /\ j # k => Between(a, j, b, k) > d

(* The lock a region takes: the nearest of its side, not taken by a region *)
(* before it; 0 when there is none. *)
MatchedLock(r, region, locks, used) ==
  LET Away(l) == Abs(locks[l].center - Center(r, region))
      near == {l \in DOMAIN locks \ used : locks[l].sign = region.sign /\ Away(l) < smooth_region_match_dist_}
  IN  IF near = {} THEN 0 ELSE First(near, [l \in near |-> Away(l)])

(* A mutant: the lock is matched, but the choice is made anew. *)
ChosenCandidate_Best(r, region, lock) ==
  region.cs[First(DOMAIN region.cs, [k \in DOMAIN region.cs |-> -region.cs[k].score])]

(* The corner of a region: the one nearest to the corner of the lock (a    *)
(* set, empty without a lock), or the sharpest. *)
ChosenCandidate(r, region, lock) ==
  LET cs == region.cs
      Away(k) == Abs(r + cs[k].si - (CHOOSE l \in lock : TRUE).control)
  IN  cs[First(DOMAIN cs, [k \in DOMAIN cs |-> IF lock = {} THEN -cs[k].score ELSE Away(k)])]

(* The choice for the region after those of sel. *)
Select(r, rs, locks, sel) ==
  LET region == rs[Len(sel) + 1]
      l == MatchedLock(r, region, locks, {sel[k].lock : k \in DOMAIN sel})
  IN  Append(sel, [lock |-> l, region |-> region,
                   c |-> ChosenCandidate(r, region, IF l = 0 THEN {} ELSE {locks[l]})])

Selected(r, rs, locks) ==
  LET n == Min({Len(rs), smooth_region_max_count_})
      upto[k \in 0 .. n] == IF k = 0 THEN <<>> ELSE Select(r, rs, locks, upto[k - 1])
  IN  upto[n]

(* A lock that found no region is kept for some cycles. *)
Missed(locks, used) ==
  LET upto[l \in 0 .. Len(locks)] ==
        IF l = 0 THEN <<>>
        ELSE IF l \in used \/ locks[l].miss >= smooth_region_max_miss_ THEN upto[l - 1]
        ELSE Append(upto[l - 1], [locks[l] EXCEPT !.miss = @ + 1])
  IN  upto[Len(locks)]

NewLocks(r, sel, locks) ==
  [k \in DOMAIN sel |-> [center |-> Center(r, sel[k].region), control |-> r + sel[k].c.si,
                         sign |-> sel[k].region.sign, miss |-> 0]]
    \o Missed(locks, {sel[k].lock : k \in DOMAIN sel})

-----------------------------------------------------------------------------
(* Output.  o is [out, last]: the path so far and last_output_s. *)

(* append_at_s *)
AppendAt(o, p) ==
  IF p.s <= o.last + min_output_s_gap THEN o ELSE [o EXCEPT !.out = Append(@, p), !.last = p.s]

CurvePoints(c) ==
  [k \in 1 .. c.n + 2 |-> [of |-> <<"curve", c.index>>, k |-> k,
                           s |-> c.start + ((k - 1) * (c.end - c.start)) \div (c.n + 1)]]

AppendCurve(o, c) ==
  IF c.start <= o.last + min_output_s_gap THEN o
  ELSE LET done == FoldLeft(AppendAt, o, CurvePoints(c)) IN [done EXCEPT !.last = Max({@, c.end})]

(* A vertex, after the curves that start before it and are next in turn. *)
AppendVertex(o, s, i, curves) ==
  LET later == {k \in o.next .. Len(curves) : curves[k].start > s} \cup {Len(curves) + 1}
      with == FoldLeft(AppendCurve, o, SubSeq(curves, o.next, Min(later) - 1))
  IN  IF s <= o.last + min_output_s_gap THEN o
      ELSE [AppendAt(with, [s |-> s, of |-> <<"vertex", i>>, k |-> 0]) EXCEPT !.next = Min(later)]

Path(r) ==
  LET is == SetToSortSeq(Ahead(r), <)
  IN  <<[s |-> 0, of |-> <<"vertex", 0>>, k |-> 0]>>
        \o [j \in DOMAIN is |-> [s |-> At(r, is[j]), of |-> <<"vertex", is[j]>>, k |-> 0]]

Output(r, sel) ==
  LET curves == [k \in DOMAIN sel |-> sel[k].c]
      path == Path(r)
      o == FoldLeft(LAMBDA acc, p : AppendVertex(acc, p.s, p.of[2], curves),
                    [out |-> <<path[1]>>, last |-> 0, next |-> 1], Tail(path))
  IN  IF o.out[Len(o.out)].s = Total(r) THEN o.out ELSE Append(o.out, path[Len(path)])

-----------------------------------------------------------------------------
Init ==
  /\ robot \in Robots
  /\ locked_smooth_regions_ = <<>>
  /\ smoothed = <<>>
  /\ regions = <<>>
  /\ chosen = <<>>

(* One call, with the robot at r. *)
Smooth(r, turn, free) ==
  /\ Cardinality(Ahead(r)) >= 2         \* else the path is returned as it is
  /\ robot' = r
  /\ \E cs \in {Candidates(r, turn, free)} :
       \/ /\ cs = <<>>
          /\ locked_smooth_regions_' = Missed(locked_smooth_regions_, {})
          /\ smoothed' = Path(r)
          /\ regions' = <<>> /\ chosen' = <<>>
       \/ /\ cs # <<>>
          /\ \E rs \in {RegionsOf(cs)} : \E sel \in {Selected(r, rs, locked_smooth_regions_)} :
               /\ locked_smooth_regions_' = NewLocks(r, sel, locked_smooth_regions_)
               /\ smoothed' = Output(r, sel)
               /\ regions' = [k \in DOMAIN rs |-> Contents(rs[k])]
               /\ chosen' = [k \in DOMAIN sel |-> sel[k].c.index]

Next ==
  \E r \in Robots, free \in SUBSET (1 .. Len(Vertices) - 1) :
    \E turn \in Turns : r >= robot /\ Smooth(r, turn, free)

Spec == Init /\ [][Next]_vars

-----------------------------------------------------------------------------
(* While the regions stay the same, so do the corners that are smoothed,   *)
(* however their scores change: a robot between two corners does not see   *)
(* its path jump from cycle to cycle. *)
ChoiceIsSteady == [][regions' = regions => chosen' = chosen]_vars
=============================================================================
