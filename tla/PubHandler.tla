------------------------------ MODULE PubHandler ------------------------------
(***************************************************************************)
(* From packets to frames in the Livox driver (comm/pub_handler.cpp).  The *)
(* SDK's thread queues the packets of all lidars; one thread takes them,   *)
(* collects their points per lidar and from time to time publishes what it *)
(* has collected.  When is decided by the clock of the lidar if the packet *)
(* received last - of any lidar - was stamped by a synchronised clock, and *)
(* by the clock of the host if not.                                        *)
(*                                                                         *)
(* A packet stands for its points and carries a number, so that points     *)
(* that are lost, doubled or out of order show.  Packets of a data type    *)
(* the driver does not know have no points and are left out.               *)
(***************************************************************************)
EXTENDS Integers, Sequences

CONSTANTS
  Lidars,       \* handles of the lidars
  Interval,     \* publish_interval_, in ms
  Tolerance,    \* publish_interval_tolerance_
  Skew,         \* the host's clock ahead of a synchronised lidar's
  MaxTime,      \* bound: time of the host
  MaxQueue,     \* bound: packets in the queue
  MaxPoints,    \* bound: numbered points of a lidar
  Never         \* no time yet, no lidar

PubHandlerAssumption ==
  /\ Interval \in Nat \ {0} /\ Tolerance \in 0 .. Interval
  /\ Skew \in Nat /\ MaxTime \in Nat /\ MaxQueue \in Nat \ {0} /\ MaxPoints \in Nat \ {0}
  /\ Never \notin Lidars \cup Nat

VARIABLES
  now,          \* the clock of the host
  synced,       \* is_timestamp_sync_
  queue,        \* raw_packet_queue_
  cloud,        \* points_clouds_ of each handler: the numbers of its points,
  base, recent, \* and the times of the first and the last, 0 without points
  points,       \* points_, the buffer last handed out, per lidar
  turned,       \* lidars whose handler has its extrinsics
  imu_turn,     \* extrinsic_global: the lidar whose extrinsics turn the IMU samples
  last_pub,     \* last_pub_time_
  checking,     \* the lidar whose timer is checked next, or Never
  quit,         \* "no", is_quit_ "requested", thread "joined"
  received,     \* history: points received per lidar
  emitted       \* history: points published per lidar

host == <<now, synced>>
collected == <<cloud, base, recent>>
history == <<received, emitted>>
vars == <<host, queue, collected, points, turned, imu_turn, last_pub, checking, quit, history>>

Init ==
  /\ now = Skew + 1 /\ synced = FALSE
  /\ queue = <<>>
  /\ cloud = [l \in Lidars |-> <<>>] /\ points = cloud
  /\ base = [l \in Lidars |-> 0] /\ recent = base
  /\ turned = {} /\ imu_turn = Never
  /\ last_pub = Never /\ checking = Never /\ quit = "no"
  /\ received = [l \in Lidars |-> 0] /\ emitted = [l \in Lidars |-> 0]

-----------------------------------------------------------------------------
(* The SDK's thread. *)

(* GetEthPacketTimestamp. *)
Stamp(sync) == IF sync THEN now - Skew ELSE now

(* A packet of the point cloud. *)
OnPacket(l, sync) ==
  /\ quit = "no"
  /\ Len(queue) < MaxQueue /\ received[l] < MaxPoints
  /\ synced' = sync
  /\ received' = [received EXCEPT ![l] = @ + 1]
  /\ queue' = Append(queue, [lidar |-> l, time |-> Stamp(sync), number |-> received[l] + 1])
  /\ UNCHANGED <<now, collected, points, turned, imu_turn, last_pub, checking, quit, emitted>>

(* A packet of the IMU goes on at once, but its stamp decides as well. *)
OnImuPacket(sync) ==
  /\ quit = "no"
  /\ synced' = sync
  /\ UNCHANGED <<now, queue, collected, points, turned, imu_turn, last_pub, checking, quit, history>>

Tick ==
  /\ now < MaxTime
  /\ now' = now + 1
  /\ UNCHANGED <<synced, queue, collected, points, turned, imu_turn, last_pub, checking, quit, history>>

-----------------------------------------------------------------------------
(* The thread of the point processing. *)

(* SetLidarsExtParam takes effect at a handler's first packet, for the     *)
(* points of its lidar and for the IMU samples of all. *)
SetExtrinsics(l) ==
  /\ turned' = turned \cup {l}
  /\ imu_turn' = IF l \in turned THEN imu_turn ELSE l

(* ProcessCartesianHighPoint and its like: the points of a packet, in order *)
(* behind those of the packets before.                                     *)
WithPoints(collection, packet) == Append(collection, packet.number)

(* The points of a packet join those of its lidar. *)
PointCloudProcess(packet) ==
  LET l == packet.lidar
  IN /\ cloud' = [cloud EXCEPT ![l] = WithPoints(@, packet)]
     /\ base' = [base EXCEPT ![l] = IF cloud[l] = <<>> THEN packet.time ELSE @]
     /\ recent' = [recent EXCEPT ![l] = packet.time]

(* RawDataProcess, up to the check of the timer. *)
Process ==
  /\ quit # "joined" /\ checking = Never
  /\ queue # <<>>
  /\ \E packet \in {Head(queue)} :
       /\ PointCloudProcess(packet)
       /\ SetExtrinsics(packet.lidar)
       /\ checking' = packet.lidar
  /\ queue' = Tail(queue)
  /\ UNCHANGED <<host, points, last_pub, quit, history>>

(* A mutant: the buffer is not emptied before the exchange. *)
HandOut_Uncleared(ready) ==
  LET Exchanged(f, g) == [l \in Lidars |-> IF l \in ready THEN g[l] ELSE f[l]] IN
  /\ points' = Exchanged(points, cloud)
  /\ cloud' = Exchanged(cloud, points)
  /\ base' = Exchanged(base, [l \in Lidars |-> 0])
  /\ recent' = Exchanged(recent, [l \in Lidars |-> 0])
  /\ emitted' = [l \in Lidars |-> emitted[l] + IF l \in ready THEN Len(cloud[l]) ELSE 0]

(* The collected points of these lidars become the frame that is published: *)
(* GetLidarPointClouds exchanges them with the buffer of the frame before, *)
(* emptied first. *)
HandOut(ready) ==
  LET Exchanged(f, g) == [l \in Lidars |-> IF l \in ready THEN g[l] ELSE f[l]] IN
  /\ points' = Exchanged(points, cloud)
  /\ cloud' = Exchanged(cloud, [l \in Lidars |-> <<>>])
  /\ base' = Exchanged(base, [l \in Lidars |-> 0])
  /\ recent' = Exchanged(recent, [l \in Lidars |-> 0])
  /\ emitted' = [l \in Lidars |-> emitted[l] + IF l \in ready THEN Len(cloud[l]) ELSE 0]

(* The difference of two unsigned times is large when it is negative. *)
LongEnough(l) ==
  recent[l] < base[l] \/ recent[l] - base[l] >= Tolerance

(* CheckTimer by the lidar's clock: at a multiple of the interval the lidar *)
(* of the packet alone is published. *)
DueByLidar(l) == recent[l] # 0 /\ recent[l] % Interval = 0 /\ LongEnough(l)

(* CheckTimer by the host's clock: once an interval all lidars are          *)
(* published; the time of the last frame is moved by one interval only, so  *)
(* that after a pause a frame is published with every packet. *)
DueByHost == last_pub # Never /\ now - last_pub >= Interval

CheckTimer ==
  /\ checking # Never
  /\ checking' = Never
  /\ IF synced
     THEN /\ HandOut({l \in {checking} : DueByLidar(l)})
          /\ UNCHANGED last_pub
     ELSE /\ HandOut(IF DueByHost THEN Lidars ELSE {})
          /\ last_pub' = CASE last_pub = Never -> now
                           [] last_pub # Never -> IF DueByHost THEN last_pub + Interval ELSE last_pub
  /\ UNCHANGED <<host, queue, turned, imu_turn, quit, received>>

(* Uninit: no more packets, and the thread ends at the head of its loop,   *)
(* which it reaches within 500 ms without a packet too. *)
RequestExit ==
  /\ quit = "no"
  /\ quit' = "requested"
  /\ UNCHANGED <<host, queue, collected, points, turned, imu_turn, last_pub, checking, history>>

Join ==
  /\ quit = "requested" /\ checking = Never
  /\ quit' = "joined"
  /\ UNCHANGED <<host, queue, collected, points, turned, imu_turn, last_pub, checking, history>>

Next ==
  \/ \E l \in Lidars, sync \in BOOLEAN : OnPacket(l, sync)
  \/ \E sync \in BOOLEAN : OnImuPacket(sync)
  \/ Tick
  \/ Process
  \/ CheckTimer
  \/ RequestExit
  \/ Join

-----------------------------------------------------------------------------
(* The places of a lidar's packets in the queue. *)
Waiting(l) == {i \in DOMAIN queue : queue[i].lidar = l}

(* Every point of a lidar is in exactly one place and in its order: it has *)
(* been published, or it is collected, or it waits in the queue - whichever *)
(* clock decides and however the packets of the lidars alternate. *)
EveryPointOnce ==
  \A l \in Lidars :
    /\ cloud[l] = [i \in 1 .. Len(cloud[l]) |-> emitted[l] + i]
    /\ {queue[i].number : i \in Waiting(l)} = emitted[l] + Len(cloud[l]) + 1 .. received[l]
    /\ \A i, j \in Waiting(l) : i < j => queue[i].number < queue[j].number
=============================================================================
