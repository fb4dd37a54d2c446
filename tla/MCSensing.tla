------------------------------- MODULE MCSensing -------------------------------
(***************************************************************************)
(* From the lidars' packets to the robot's place on the map.  In the       *)
(* driver: the handshake, the packets made into frames, the IMU samples    *)
(* and the publishers.  Behind it: the merge of the two lidars, the order  *)
(* of scans and samples in the odometry, its map, and the initial          *)
(* relocalization.  The modules share no variable (each takes what it gets *)
(* from the others as input), so one run takes them in turn: turn says     *)
(* which one moves.                                                        *)
(***************************************************************************)
EXTENDS LivoxConfig, Integers

CONSTANTS
  Turns,        \* the modules a run looks at
  lidar, data_type, pattern,
  Senders, Interval, Tolerance, Skew, HostMaxTime, MaxQueue, FramePoints, Never,
  NumLidars, Settings, MaxList,
  Bases, ClockOffset, Period, Jitters, MaxJump, Smoothing, Frames, MaxOffset,
  ImuStep, ScanStep, Bins, lidar_time_inte, MAX_INI_COUNT, Modes, MaxTime,
  Voxels, Origin, InitMapSize, LeastValid, LeastMapped, MaxSize, MapScans,
  ScanSizes, MinScans, MinPoints, MaxScans, MaxPoints, MaxAccumulation, MaxClouds, MaxTransit

VARIABLES
  turn,
  now, synced, queue, cloud, base, recent, drawn, turned, imu_turn, last_pub, checking, quit,
  received, emitted,
  list, imu_count, sampling, ppc, pl, cpc, skipped, exit, setting, made, null_used,
  transform_initialized, clock_offset_initialized, estimated_clock_offset, output, kinds,
  use_batch, imu_deque, last_timestamp_imu, lidar_buffer, last_timestamp_lidar, count,
  init_iter_num, phase, imu_next, is_first_frame, time_current, time_predict, sparse, flaws,
  last_used, delay,
  init_feats, init_map, world, map, pending, scan, hits, confirmed,
  target, started, waited, scans, accumulated, points, done, attempted, failed, timers, result,
  transit, tf, latched, clouds

Packets == INSTANCE PubHandler WITH
  Lidars <- Senders, MaxTime <- HostMaxTime, MaxPoints <- FramePoints, points <- drawn
Samples == INSTANCE Lddc
Merge == INSTANCE LidarMerge
Lio == INSTANCE PointLio
Map == INSTANCE LocalMap WITH MaxScans <- MapScans
Reloc == INSTANCE Relocalization

ASSUME MCAssumption ==
  /\ Packets!PubHandlerAssumption /\ Samples!LddcAssumption /\ Lio!PointLioAssumption
  /\ Merge!LidarMergeAssumption /\ Map!LocalMapAssumption /\ Reloc!RelocalizationAssumption

packetVars == <<now, synced, queue, cloud, base, recent, drawn, turned, imu_turn, last_pub,
                checking, quit, received, emitted>>
sampleVars == <<list, imu_count, sampling, ppc, pl, cpc, skipped, exit, setting, made, null_used>>
mergeVars == <<transform_initialized, clock_offset_initialized, estimated_clock_offset, output, kinds>>
lioVars == <<use_batch, imu_deque, last_timestamp_imu, lidar_buffer, last_timestamp_lidar, count,
             init_iter_num, phase, imu_next, is_first_frame, time_current, time_predict, sparse,
             flaws, last_used, delay>>
mapVars == <<init_feats, init_map, world, map, pending, scan, hits, confirmed>>
relocVars == <<target, started, waited, scans, accumulated, points, done, attempted, failed, timers,
               result, transit, tf, latched, clouds>>
driverVars == <<vars, packetVars, sampleVars>>
allVars == <<turn, driverVars, mergeVars, lioVars, mapVars, relocVars>>

-----------------------------------------------------------------------------
(* A lidar with two parameters to set, listed in the file or not. *)
MCLidars == {lidar}
MCFiles == {{}, {lidar}}
MCParams == {data_type, pattern}
MCWanted == [l \in MCLidars |-> MCParams]

MCSettings == ({"All", "Custom"} \X BOOLEAN) \cup {<<"PointCloud2", FALSE>>}

(* Periods of 40 ms in units of 0.1 ms, 3 ms of jitter, and frames seen    *)
(* whole, or only where the robot is. *)
MCJitters == {-30, 0, 30}
MCFrames ==
  {[place : {"near", "strip", "box", "far"}, time : {100}], [place : {"near", "box"}, time : {100}]}

MCBins == <<10, 30>>

-----------------------------------------------------------------------------
MCInit ==
  /\ turn \in Turns
  /\ Init /\ Packets!Init /\ Samples!Init /\ Merge!Init /\ Lio!Init /\ Map!Init /\ Reloc!Init
  /\ turn # "config" => listed = {}
  /\ turn # "samples" => setting = <<"All", TRUE>>
  /\ turn # "lio" => ~use_batch
  /\ turn # "reloc" => target

MCNext ==
  /\ UNCHANGED turn
  /\ \/ /\ turn = "config" /\ Next
        /\ UNCHANGED <<packetVars, sampleVars, mergeVars, lioVars, mapVars, relocVars>>
     \/ /\ turn = "packets" /\ Packets!Next
        /\ UNCHANGED <<vars, sampleVars, mergeVars, lioVars, mapVars, relocVars>>
     \/ /\ turn = "samples" /\ Samples!Next
        /\ UNCHANGED <<vars, packetVars, mergeVars, lioVars, mapVars, relocVars>>
     \/ turn = "merge" /\ Merge!Next /\ UNCHANGED <<driverVars, lioVars, mapVars, relocVars>>
     \/ turn = "lio" /\ Lio!Next /\ UNCHANGED <<driverVars, mergeVars, mapVars, relocVars>>
     \/ turn = "map" /\ Map!Next /\ UNCHANGED <<driverVars, mergeVars, lioVars, relocVars>>
     \/ turn = "reloc" /\ Reloc!Next /\ UNCHANGED <<driverVars, mergeVars, lioVars, mapVars>>
     \/ turn # "config" /\ UNCHANGED allVars   \* the bounds are reached, or nothing arrives

(* Clouds arrive, the clock runs and the timer fires; the odometry may stop. *)
RelocStep(A) == turn = "reloc" /\ A /\ UNCHANGED <<turn, driverVars, mergeVars, lioVars, mapVars>>

RelocFairness ==
  /\ WF_allVars(RelocStep(Reloc!Tick))
  /\ WF_allVars(RelocStep(Reloc!RegisteredPcdCallback))
  /\ WF_allVars(RelocStep(Reloc!RegisterTimer))

MCSpec == MCInit /\ [][MCNext]_allVars /\ Fairness /\ RelocFairness
-----------------------------------------------------------------------------
(* Every point is published once and in order (PubHandler). *)
EveryPointOnce == Packets!EveryPointOnce

(* The IMU thread does not sleep over a sample (Lddc). *)
NoSampleStranded == Samples!NoSampleStranded

(* No message is published through a null pointer (Lddc). *)
HasPublisher == Samples!HasPublisher

(* Samples and points reach the filter in order (PointLio). *)
FedInOrder == Lio!FedInOrder

(* The points of a scan are used at the times they were taken (PointLio). *)
TimesAreRestored == Lio!TimesAreRestored

(* The merged pairs are all of one kind (LidarMerge). *)
PairsAgree == Merge!PairsAgree

(* A voxel is added to the map after two scans that hit it (LocalMap). *)
ConfirmedByTwoScans == Map!ConfirmedByTwoScans

(* The odometry moves its clouds by the registered transform only (Relocalization). *)
OdometryUsesResult == Reloc!OdometryUsesResult

(* The first cloud is followed by an end of the relocalization. *)
RelocalizationEnds == Reloc!RelocalizationEnds
=============================================================================
