------------------------------- MODULE PointLio -------------------------------
(***************************************************************************)
(* Scans and IMU samples in the odometry (point_lio): the two callbacks    *)
(* with their buffers, sync_packages, the initialisation of the IMU and    *)
(* the order in which the main loop feeds samples and points to the        *)
(* filter.  Callbacks and loop share one thread, so that an iteration of   *)
(* the loop is one step.                                                   *)
(*                                                                         *)
(* Modelled with the parameters of bringup: imu_en, neither con_frame nor  *)
(* cut_frame, prop_at_freq_of_imu, the filter with the IMU as output.      *)
(* Empty scans are not queued then, and flg_reset is never set.  Times are *)
(* in ms.                                                                  *)
(***************************************************************************)
EXTENDS Integers, Sequences, SequencesExt, FiniteSetsExt

CONSTANTS
  ImuStep,          \* from one IMU sample to the next, at least
  ScanStep,         \* from one scan to the next
  Bins,             \* the offsets of the points of a scan, in order
  lidar_time_inte,
  MAX_INI_COUNT,
  Modes,            \* values of use_batch
  MaxTime           \* bound: time of samples and scans

PointLioAssumption ==
  /\ ImuStep \in Nat \ {0} /\ ScanStep \in Nat \ {0} /\ lidar_time_inte \in Nat
  /\ Bins \in Seq(0 .. ScanStep - 1) /\ Bins # <<>>
  /\ \A i, j \in 1 .. Len(Bins) : i < j => Bins[i] <= Bins[j]
  /\ Modes \subseteq BOOLEAN
  /\ MAX_INI_COUNT \in Nat /\ MaxTime \in Nat

VARIABLES
  use_batch,
  imu_deque, last_timestamp_imu,
  lidar_buffer, last_timestamp_lidar,
  count,          \* samples in meas.imu, which is never emptied
  init_iter_num,  \* samples seen by IMU_init, 0 before the first frame
  phase,          \* "init" until enough samples, then "map" until there is a map, "run"
  imu_next,
  is_first_frame,
  time_current, time_predict,  \* time_predict_last_const
  sparse,         \* history: a scan had too few points to correct the state
  flaws,          \* history: "empty" (a pop from an empty deque), "back" (the filter's
                  \* time went back), "again" (a sample used out of order)
  last_used,      \* history: the sample used last
  delay           \* history: the largest error of the time used for a point

buffers == <<imu_deque, last_timestamp_imu, lidar_buffer, last_timestamp_lidar>>
filter == <<imu_next, is_first_frame, time_current, time_predict>>
history == <<sparse, flaws, last_used, delay>>
vars == <<use_batch, buffers, count, init_iter_num, phase, filter, history>>

Init ==
  /\ use_batch \in Modes
  /\ imu_deque = <<>> /\ last_timestamp_imu = -1
  /\ lidar_buffer = <<>> /\ last_timestamp_lidar = 0
  /\ count = 0 /\ init_iter_num = 0 /\ phase = "init"
  /\ imu_next = 0 /\ is_first_frame = TRUE
  /\ time_current = 0 /\ time_predict = 0
  /\ sparse = FALSE /\ flaws = {} /\ last_used = -1 /\ delay = 0

-----------------------------------------------------------------------------
(* The callbacks. *)

(* Samples with impossible values are dropped, as are those with an        *)
(* earlier stamp than the last; the deque is not emptied then. *)
ImuCallback(stamp) ==
  /\ stamp >= last_timestamp_imu
  /\ imu_deque' = Append(imu_deque, stamp)
  /\ last_timestamp_imu' = stamp
  /\ UNCHANGED <<use_batch, lidar_buffer, last_timestamp_lidar, count, init_iter_num, phase, filter,
                 history>>

(* livox_pcl_cbk. *)
LidarCallback(stamp, dense) ==
  /\ stamp >= last_timestamp_lidar
  /\ lidar_buffer' = Append(lidar_buffer, [begin |-> stamp, dense |-> dense])
  /\ last_timestamp_lidar' = stamp
  /\ UNCHANGED <<use_batch, imu_deque, last_timestamp_imu, count, init_iter_num, phase, filter,
                 history>>

-----------------------------------------------------------------------------
(* The loops over the deque, on records of what they change.  The deque is *)
(* in the order of the stamps. *)

State == [deque |-> imu_deque, next |-> imu_next, first |-> is_first_frame,
          current |-> time_current, predict |-> time_predict,
          flaws |-> flaws, used |-> last_used, delay |-> delay]

(* How many samples a loop pops that stops at the first of these. *)
Pops(deque, stops) ==
  CHOOSE n \in 0 .. Len(deque) :
    (\A i \in 1 .. n : i \notin stops) /\ (n < Len(deque) => n + 1 \in stops)

Earlier(deque, time) == Pops(deque, {i \in 1 .. Len(deque) : deque[i] >= time})
From(deque, time) == SubSeq(deque, Earlier(deque, time) + 1, Len(deque))
Before(deque, time) == SubSeq(deque, 1, Earlier(deque, time))

(* imu_next after pops that left rest: its front, or the sample looked at last. *)
NextOf(rest, popped, next) == IF rest # <<>> THEN Head(rest) ELSE Last(<<next>> \o popped)

(* Pop while imu_next is before the time: the first pop is of the front    *)
(* whether it is imu_next or not. *)
Popped(s, time) ==
  IF s.next >= time THEN s
  ELSE IF s.deque = <<>> THEN [s EXCEPT !.flaws = @ \cup {"empty"}]
  ELSE LET rest == From(Tail(s.deque), time)
       IN [s EXCEPT !.deque = rest, !.next = NextOf(rest, Before(Tail(s.deque), time), @)]

(* The first frame starts the clocks of the filter at its first point. *)
FirstFrame(s, time) ==
  IF ~s.first THEN s
  ELSE [Popped(s, time) EXCEPT !.first = FALSE, !.predict = time, !.current = time]

(* Samples from before the filter's time are skipped; an imu_next that is  *)
(* not the front any more is replaced by the front. *)
CatchUp(s) ==
  IF s.next >= s.predict THEN s
  ELSE IF s.next # Head(s.deque) THEN [s EXCEPT !.next = Head(s.deque)]
  ELSE LET rest == From(s.deque, s.predict)
       IN [s EXCEPT !.deque = rest, !.next = NextOf(rest, Before(s.deque, s.predict), @)]

(* The filter is moved to each sample before the time: first imu_next,     *)
(* with a pop of the front, then the samples behind the front. *)
UseSamples(s, time) ==
  IF s.next >= time THEN s
  ELSE LET behind == IF s.deque = <<>> THEN <<>> ELSE Tail(s.deque)
           last == Last(<<s.next>> \o Before(behind, time))
       IN [s EXCEPT !.deque = From(behind, time),
                    !.next = NextOf(From(behind, time), Before(behind, time), @),
                    !.predict = last, !.used = last,
                    !.flaws = @ \cup (IF s.deque = <<>> THEN {"empty"} ELSE {})
                                \cup (IF s.next < s.predict THEN {"back"} ELSE {})
                                \cup (IF s.next <= s.used THEN {"again"} ELSE {})]

(* The points of a bin correct the filter at this time. *)
Correct(s, time, true_time) ==
  [s EXCEPT !.current = time, !.predict = time,
            !.flaws = @ \cup (IF time < s.predict THEN {"back"} ELSE {}),
            !.delay = Max({@, true_time - time})]

(* The end of the bin of an offset, as the main loop computes it: the bins *)
(* carry seconds, and are divided by 1000 once more. *)
BinTime(offset) == IF use_batch THEN offset \div 1000 ELSE offset

Bin(s, begin, offset) ==
  LET time == begin + BinTime(offset)
      ready == FirstFrame(s, time)
      fed == IF ready.deque = <<>> THEN ready ELSE UseSamples(CatchUp(ready), time)
  IN Correct(fed, time, begin + offset)

DenseScan(s, begin) ==
  LET fed[i \in 0 .. Len(Bins)] ==
        IF i = 0 THEN s
        ELSE CHOOSE t \in {Bin(u, begin, Bins[i]) : u \in {fed[i - 1]}} : TRUE
  IN fed[Len(Bins)]

(* Too few points: the clocks follow the samples up to lidar_time_inte     *)
(* after the scan's begin; the samples are not used. *)
SparseScan(s, begin) ==
  IF s.deque = <<>> THEN s
  ELSE LET d == s.deque
           n == Pops(d, {i \in 1 .. Len(d) :
                           \/ d[i] >= begin + lidar_time_inte
                           \/ d[i] <= IF i = 1 THEN s.current ELSE d[i - 1]})
           rest == SubSeq(d, n + 1, Len(d))
       IN IF n = 0 THEN [s EXCEPT !.next = Head(d)]
          ELSE [s EXCEPT !.deque = rest, !.next = IF rest = <<>> THEN d[n] ELSE Head(rest),
                         !.first = FALSE, !.current = d[n], !.predict = d[n]]

-----------------------------------------------------------------------------
(* The main loop. *)

EndOf(scan) == scan.begin + Last(Bins)

(* A mutant: the samples up to the end of the scan are not waited for. *)
Covered_Unwaited(scan) == TRUE

(* The samples reach to the end of the scan. *)
Covered(scan) == last_timestamp_imu >= EndOf(scan)

(* sync_packages. *)
Synced == lidar_buffer # <<>> /\ imu_deque # <<>> /\ Covered(Head(lidar_buffer))

Store(s) ==
  /\ imu_deque' = s.deque /\ imu_next' = s.next /\ is_first_frame' = s.first
  /\ time_current' = s.current /\ time_predict' = s.predict
  /\ flaws' = s.flaws /\ last_used' = s.used /\ delay' = s.delay

TakeScan ==
  /\ Synced
  /\ lidar_buffer' = Tail(lidar_buffer)
  /\ UNCHANGED <<use_batch, last_timestamp_imu, last_timestamp_lidar>>

(* The points of the scan complete the first map or not. *)
AfterMapScan(enough) == IF enough THEN "run" ELSE "map"

(* During the initialisation the samples of a scan are moved to meas.imu;  *)
(* IMU_init counts all that were ever moved, so that the first count more  *)
(* than once.  The first scan drops samples from before its begin. *)
InitialiseImu(enough) ==
  /\ phase = "init"
  /\ TakeScan
  /\ \E scan \in {Head(lidar_buffer)} :
       \E moved \in {Before(imu_deque, EndOf(scan))}, rest \in {From(imu_deque, EndOf(scan))} :
         \E s \in {[State EXCEPT !.deque = rest, !.next = NextOf(rest, moved, @), !.current = 0]} :
           /\ count' = count + Len(moved)
           /\ Store(IF init_iter_num = 0 THEN Popped(s, scan.begin) ELSE s)
           /\ init_iter_num' = CASE count' = 0 -> 0
                                 [] count' > 0 -> Max({init_iter_num, 1}) + count'
           /\ phase' = IF init_iter_num' <= MAX_INI_COUNT THEN "init" ELSE AfterMapScan(enough)
  /\ UNCHANGED sparse

(* The first scans fill the map. *)
InitialiseMap(enough) ==
  /\ phase = "map"
  /\ TakeScan
  /\ phase' = AfterMapScan(enough)
  /\ UNCHANGED <<count, init_iter_num, imu_deque, filter, history>>

RunFilter ==
  /\ phase = "run"
  /\ TakeScan
  /\ \E scan \in {Head(lidar_buffer)} :
       /\ Store(IF scan.dense THEN DenseScan(State, scan.begin) ELSE SparseScan(State, scan.begin))
       /\ sparse' = (sparse \/ ~scan.dense)
  /\ UNCHANGED <<count, init_iter_num, phase>>

(* No two samples and no two scans have the same stamp. *)
Next ==
  \/ \E stamp \in {t \in 0 .. MaxTime : t % ImuStep = 0} \ {last_timestamp_imu} : ImuCallback(stamp)
  \/ \E stamp \in {t \in 0 .. MaxTime : t % ScanStep = 0} \ {last_timestamp_lidar}, dense \in BOOLEAN :
       LidarCallback(stamp, dense)
  \/ \E enough \in BOOLEAN : InitialiseImu(enough) \/ InitialiseMap(enough)
  \/ RunFilter

-----------------------------------------------------------------------------
(* No sample is ever taken from an empty deque; and until a scan has too   *)
(* few points, the filter's time never goes back and no sample is used     *)
(* twice or out of order - however samples and scans arrive. *)
FedInOrder == "empty" \notin flaws /\ (~sparse => flaws = {})

(* "Reading timebase+offset_time, Point-LIO restores the time each point   *)
(* was taken at" (docs/technical_document.md, 1.4). *)
TimesAreRestored == delay = 0
=============================================================================
