------------------------------ MODULE LidarMerge ------------------------------
(***************************************************************************)
(* Two lidars into one (lidar_output/src/lidar.cpp).  The synchronizer     *)
(* hands over pairs of frames; the node estimates by how much the clock of *)
(* the second lidar is ahead of the first's, moves the second frame by it  *)
(* and publishes the points of both on one time base.                      *)
(*                                                                         *)
(* The synchronizer may pair a frame with the one before or after its      *)
(* partner.  Times are in units of 0.1 ms.                                 *)
(***************************************************************************)
EXTENDS Integers

CONSTANTS
  Bases,        \* timebases of the first lidar's frames; 0 is a frame without one
  ClockOffset,  \* the second lidar's clock ahead of the first's
  Period,       \* from one frame of a lidar to the next
  Jitters,      \* deviations of a pair from its true distance
  MaxJump,      \* rebase_max_jump
  Smoothing,    \* 1 / rebase_alpha
  Frames,       \* frames of points: where they are and when in the frame they were taken
  MaxOffset     \* the largest offset the message can carry

(* A point is where the sensor is, in the strip before and behind it, in   *)
(* the box around the robot's own parts, or farther away. *)
Places == {"near", "strip", "box", "far"}

LidarMergeAssumption ==
  /\ Bases \subseteq Nat /\ Jitters \subseteq Int
  /\ \A f \in Frames : f \subseteq [place : Places, time : Nat]
  /\ ClockOffset \in Nat /\ Period \in Nat \ {0} /\ Smoothing \in Nat \ {0}
  /\ MaxJump \in Nat /\ MaxOffset \in Nat

None == [kind |-> 9]   \* no pair merged yet

VARIABLES
  transform_initialized,      \* the second lidar's pose is known
  clock_offset_initialized,
  estimated_clock_offset,
  output,                     \* the frame published last
  kinds                       \* history: kinds of the pairs whose points were merged

vars == <<transform_initialized, clock_offset_initialized, estimated_clock_offset, output, kinds>>

Init ==
  /\ transform_initialized = FALSE
  /\ clock_offset_initialized = FALSE /\ estimated_clock_offset = 0
  /\ output = None /\ kinds = {}

-----------------------------------------------------------------------------
(* The test for the strip makes the one for the box superfluous. *)
Filter1(place) == place \notin {"near", "strip", "box"}
Filter2(place) == place \notin {"near", "box"}

(* llround of n / d. *)
Rounded(n, d) == IF n >= 0 THEN (2 * n + d) \div (2 * d) ELSE -((d - 2 * n) \div (2 * d))

Distance(a, b) == IF a > b THEN a - b ELSE b - a

(* A mutant: every measurement is taken. *)
Accepts_Any(measured) == TRUE

(* A measurement is refused if it is farther than MaxJump from the estimate. *)
Accepts(measured) ==
  clock_offset_initialized => Distance(measured, estimated_clock_offset) <= MaxJump

UpdateClockOffset(measured) ==
  /\ clock_offset_initialized' = TRUE
  /\ estimated_clock_offset' =
       IF clock_offset_initialized
       THEN estimated_clock_offset + Rounded(measured - estimated_clock_offset, Smoothing)
       ELSE measured

(* The points of a frame on the time base of the output; points that are   *)
(* too late for the field are left out. *)
Rebased(points, base, output_base) ==
  {[place |-> p.place, time |-> base - output_base + p.time] :
     p \in {q \in points : base >= output_base /\ base - output_base + q.time <= MaxOffset}}

(* sync_callback for a pair without a timebase, or without the transform:  *)
(* dropped before the estimate is touched. *)
DropPair == UNCHANGED vars

(* The transform is looked up until it is there, and then kept. *)
LookupTransform == transform_initialized' = TRUE

RefusePair(measured) ==
  /\ LookupTransform
  /\ ~Accepts(measured)
  /\ UNCHANGED <<clock_offset_initialized, estimated_clock_offset, output, kinds>>

MergePair(kind, base1, base2, points1, points2) ==
  /\ LookupTransform
  /\ Accepts(base2 - base1)
  /\ UpdateClockOffset(base2 - base1)
  /\ \E corrected \in {base2 - estimated_clock_offset'} :
       \E output_base \in {IF base1 < corrected THEN base1 ELSE corrected} :
         \E points \in {Rebased({p \in points1 : Filter1(p.place)}, base1, output_base) \cup
                        Rebased({p \in points2 : Filter2(p.place)}, corrected, output_base)} :
           IF output_base < 0 \/ points = {}
           THEN UNCHANGED <<output, kinds>>
           ELSE /\ output' = [kind |-> kind, timebase |-> output_base, points |-> points]
                /\ kinds' = kinds \cup {kind}

(* A pair is of frames taken together, or one period apart. *)
SyncCallback ==
  \E base1 \in Bases, kind \in {-1, 0, 1}, jitter \in Jitters :
    \E base2 \in {base1 + ClockOffset + kind * Period + jitter} :
      \/ (base1 = 0 \/ base2 <= 0 \/ ~transform_initialized) /\ DropPair
      \/ base1 # 0 /\ base2 > 0 /\ RefusePair(base2 - base1)
      \/ /\ base1 # 0 /\ base2 > 0
         /\ \E points1, points2 \in Frames : MergePair(kind, base1, base2, points1, points2)

Next == SyncCallback

-----------------------------------------------------------------------------
(* Frames that were taken one period apart are never merged into a stream  *)
(* of frames taken together: the merged pairs are all of one kind, however *)
(* the estimate follows the jitter.  The first pair is accepted unchecked  *)
(* and decides for good which kind that is. *)
PairsAgree == \A k1, k2 \in kinds : k1 = k2
=============================================================================
