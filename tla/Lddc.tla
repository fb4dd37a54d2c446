--------------------------------- MODULE Lddc ---------------------------------
(***************************************************************************)
(* What the Livox driver does besides the rings of LdsQueue: the IMU       *)
(* samples, which the SDK's thread puts into a locked list per lidar       *)
(* (Lds::StorageImuData) and a poll thread of their own takes out          *)
(* (Lddc::DistributeImuData), and the publishers, which are created when a *)
(* message is published first.                                             *)
(*                                                                         *)
(* The poll thread serves the first lidar of the table only; the lists of  *)
(* the others grow for ever.                                               *)
(***************************************************************************)
EXTENDS Naturals

CONSTANTS
  NumLidars,   \* lidars with a place in the table
  Settings,    \* pairs of a format ("PointCloud2", "Custom", "All") and one topic per lidar
  MaxList      \* bound: samples in a list

LddcAssumption ==
  /\ NumLidars \in Nat \ {0} /\ MaxList \in Nat \ {0}
  /\ Settings \subseteq {"PointCloud2", "Custom", "All"} \X BOOLEAN

Handles == 0 .. NumLidars - 1

VARIABLES
  list,        \* length of imu_data per lidar
  imu_count,   \* count_ of imu_semaphore_
  sampling,    \* lidars with connect_state kConnectStateSampling
  ppc, pl,     \* where the SDK's thread is in StorageImuData, and its lidar
  cpc,         \* where the poll thread is
  skipped,     \* history: its last pass found the first lidar not sampling
  exit,        \* how far the destructor of the node has come
  setting,     \* transfer_format_ and use_multi_topic_
  made,        \* the publishers that exist
  null_used    \* a message was published through a null pointer

producer == <<ppc, pl>>
consumer == <<cpc, skipped>>
publishers == <<setting, made, null_used>>
vars == <<list, imu_count, sampling, producer, consumer, exit, publishers>>

Init ==
  /\ list = [l \in Handles |-> 0] /\ imu_count = 0
  /\ sampling = {}
  /\ ppc = "idle" /\ pl = 0
  /\ cpc = "distribute" /\ skipped = FALSE
  /\ exit = "no"
  /\ setting \in Settings /\ made = {} /\ null_used = FALSE

-----------------------------------------------------------------------------
(* The publishers: private to a lidar, or global and shared by all. *)

Format == setting[1]
MultiTopic == setting[2]

Private(l) == <<"private_pub_", l>>
Private2(l) == <<"private_pub_2", l>>
Global == <<"global_pub_", 0>>
Global2 == <<"global_pub_2_", 0>>

(* What a publisher was created for. *)
TypeOf(pub) ==
  CASE pub[1] = "private_pub_" -> "Custom"
    [] pub[1] = "global_pub_" -> IF Format = "All" THEN "Custom" ELSE Format
    [] OTHER -> "PointCloud2"

WithGlobals(pubs) ==
  IF Global \in pubs THEN pubs ELSE pubs \cup {Global} \cup (IF Format = "All" THEN {Global2} ELSE {})

(* GetCurrentPublisher: what exists after it, and what it returns. *)
MadeBy1(pubs, l) == IF MultiTopic THEN pubs \cup {Private(l)} ELSE WithGlobals(pubs)
Publisher1(l) == IF MultiTopic THEN Private(l) ELSE Global

(* GetCurrentPublisher2 creates its publisher while there is no custom one. *)
MadeBy2(pubs, l) ==
  IF MultiTopic
  THEN IF Private(l) \notin pubs /\ Format = "All" THEN pubs \cup {Private2(l)} ELSE pubs
  ELSE WithGlobals(pubs)
Publisher2(l) == IF MultiTopic THEN Private2(l) ELSE Global2

(* The dynamic cast gives null for a publisher of another message. *)
IsNull(pubs, pub, type) == pub \notin pubs \/ TypeOf(pub) # type

(* The publishers after a message and whether it had none. *)
PublishPointcloud2Data(pubs, l) ==
  IF Format = "All"
  THEN [made |-> MadeBy2(pubs, l), null |-> IsNull(MadeBy2(pubs, l), Publisher2(l), "PointCloud2")]
  ELSE [made |-> MadeBy1(pubs, l), null |-> IsNull(MadeBy1(pubs, l), Publisher1(l), "PointCloud2")]

PublishCustomPointData(pubs, l) ==
  [made |-> MadeBy1(pubs, l), null |-> IsNull(MadeBy1(pubs, l), Publisher1(l), "Custom")]

(* PublishPointcloud2 and PublishCustomPointcloud, for a packet. *)
PublishOne(l) ==
  \E one \in {IF Format = "Custom" THEN PublishCustomPointData(made, l)
                                   ELSE PublishPointcloud2Data(made, l)} :
    /\ made' = one.made
    /\ null_used' = (null_used \/ one.null)

(* A mutant: the custom message first. *)
PublishBoth_CustomFirst(l) ==
  \E first \in {PublishCustomPointData(made, l)} :
    \E second \in {PublishPointcloud2Data(first.made, l)} :
      /\ made' = second.made
      /\ null_used' = (null_used \/ first.null \/ second.null)

(* PublishPointcloud2AndCustomMsg, for a packet. *)
PublishBoth(l) ==
  \E first \in {PublishPointcloud2Data(made, l)} :
    \E second \in {PublishCustomPointData(first.made, l)} :
      /\ made' = second.made
      /\ null_used' = (null_used \/ first.null \/ second.null)

(* PollingLidarPointCloudData has taken a packet from a ring. *)
PublishPacket(l) ==
  /\ l \in sampling
  /\ IF Format = "All" THEN PublishBoth(l) ELSE PublishOne(l)
  /\ UNCHANGED <<setting, list, imu_count, sampling, producer, consumer, exit>>

-----------------------------------------------------------------------------
(* StorageImuData. *)

Push(l) ==
  /\ ppc = "idle" /\ list[l] < MaxList
  /\ list' = [list EXCEPT ![l] = @ + 1]
  /\ ppc' = "empty" /\ pl' = l
  /\ UNCHANGED <<imu_count, sampling, consumer, exit, publishers>>

CheckEmpty ==
  /\ ppc = "empty"
  /\ ppc' = IF list[pl] = 0 THEN "idle" ELSE "count"
  /\ UNCHANGED <<list, imu_count, sampling, pl, consumer, exit, publishers>>

GetCount ==
  /\ ppc = "count"
  /\ ppc' = IF imu_count = 0 THEN "signal" ELSE "idle"
  /\ UNCHANGED <<list, imu_count, sampling, pl, consumer, exit, publishers>>

Signal ==
  /\ ppc = "signal"
  /\ imu_count' = imu_count + 1
  /\ ppc' = "idle"
  /\ UNCHANGED <<list, sampling, pl, consumer, exit, publishers>>

-----------------------------------------------------------------------------
(* The poll thread of the IMU. *)

Distribute ==
  /\ cpc = "distribute"
  /\ cpc' = IF exit = "no" THEN "wait" ELSE "future"
  /\ UNCHANGED <<list, imu_count, sampling, producer, skipped, exit, publishers>>

Wait ==
  /\ cpc = "wait" /\ imu_count > 0
  /\ imu_count' = imu_count - 1
  /\ skipped' = (0 \notin sampling)
  /\ cpc' = IF 0 \in sampling THEN "poll" ELSE "future"
  /\ UNCHANGED <<list, sampling, producer, exit, publishers>>

(* A mutant: one sample for each wake-up. *)
AfterSample_Once == "future"

(* PollingLidarImuData goes on until the list is empty. *)
AfterSample == "poll"

(* PublishImuData; the publisher of the samples, private or global, is     *)
(* created here and nowhere else. *)
PublishSample ==
  /\ cpc = "poll" /\ exit = "no" /\ list[0] > 0
  /\ list' = [list EXCEPT ![0] = @ - 1]
  /\ cpc' = AfterSample
  /\ UNCHANGED <<imu_count, sampling, producer, skipped, exit, publishers>>

EndPolling ==
  /\ cpc = "poll" /\ (exit # "no" \/ list[0] = 0)
  /\ cpc' = "future"
  /\ UNCHANGED <<list, imu_count, sampling, producer, skipped, exit, publishers>>

(* ImuDataPollThread looks at the exit signal. *)
PollFuture ==
  /\ cpc = "future"
  /\ cpc' = IF exit = "set" THEN "done" ELSE "distribute"
  /\ UNCHANGED <<list, imu_count, sampling, producer, skipped, exit, publishers>>

-----------------------------------------------------------------------------
StartSampling(l) ==
  /\ l \notin sampling
  /\ sampling' = sampling \cup {l}
  /\ UNCHANGED <<list, imu_count, producer, consumer, exit, publishers>>

Exit ==
  /\ exit # "set"
  /\ exit' = IF exit = "no" THEN "requested" ELSE "set"
  /\ UNCHANGED <<list, imu_count, sampling, producer, consumer, publishers>>

Next ==
  \/ \E l \in Handles : Push(l) \/ PublishPacket(l) \/ StartSampling(l)
  \/ CheckEmpty \/ GetCount \/ Signal
  \/ Distribute \/ Wait \/ PublishSample \/ EndPolling \/ PollFuture
  \/ Exit

-----------------------------------------------------------------------------
(* The poll thread never sleeps over a sample of the first lidar that it   *)
(* had a chance to see: a missed wake-up would hold samples back until     *)
(* the lidar sends again. *)
NoSampleStranded ==
  (cpc = "wait" /\ imu_count = 0 /\ ppc = "idle" /\ exit = "no" /\ ~skipped) => list[0] = 0

(* No message is published through a null pointer, although one look-up of *)
(* a publisher tests for the other's; this is so for the settings the      *)
(* launch files use, not for point clouds alone on a topic per lidar. *)
HasPublisher == ~null_used
=============================================================================
