------------------------------ MODULE LdsQueue ------------------------------
(***************************************************************************)
(* The hand-over of point packets in the Livox driver: the thread of the   *)
(* point cloud processing (Lds::PushLidarData) writes a ring per lidar,    *)
(* the poll thread (Lddc::DistributePointCloudData) empties the rings and  *)
(* publishes, and a counting semaphore wakes it.  Neither the ring nor the *)
(* look at the semaphore's count is under a lock.                          *)
(*                                                                         *)
(* The indices of a ring are free-running uint32 counters; IndexModulus    *)
(* stands for 2^32.  They are volatile and not atomic: the compiler keeps  *)
(* their order, the machine (x86) may keep the producer's store of wr_idx  *)
(* in its store buffer until the next locked instruction, so the store     *)
(* becomes visible in an action of its own.  The consumer's store of       *)
(* rd_idx is made visible at once: a late one only lets the producer see a *)
(* fuller ring than it is.                                                 *)
(***************************************************************************)
EXTENDS Integers, Sequences

CONSTANTS
  NumLidars,      \* lidars the poll thread scans, lidar_count_
  Size,           \* slots of a ring, a power of two
  IndexModulus,   \* values of an index
  Packets,        \* what a packet may contain
  Blank,          \* the packet without points
  Torn,           \* a slot that is being written
  Nothing         \* no packet, no lidar

ASSUME LidarAssumption == NumLidars \in Nat \ {0}
ASSUME RingAssumption ==
  /\ Size \in Nat \ {0}
  /\ IndexModulus \in Nat \ {0}
  /\ IndexModulus > Size
  /\ IndexModulus % Size = 0
ASSUME PacketAssumption == Torn \notin Packets /\ Nothing \notin Packets /\ Torn # Nothing
ASSUME NoLidarAssumption == Nothing \notin 1 .. NumLidars

Lidars == 1 .. NumLidars
Indices == 0 .. IndexModulus - 1

VARIABLES
  slot,       \* per lidar, storage_packet: the packet in each slot
  wr, rd,     \* per lidar, wr_idx and rd_idx as the other thread sees them
  pending,    \* the lidar whose wr_idx is still in the producer's store buffer
  count,      \* count_ of pcd_semaphore_
  sampling,   \* per lidar, connect_state is kConnectStateSampling
  ppc,        \* where the producer is in PushLidarData
  pl,         \* the lidar it pushes to, or pushed to last
  packet,     \* the packet it pushes
  cpc,        \* where the poll thread is
  ci,         \* the lidar it looks at
  pkg,        \* its copy of the packet
  published,  \* per lidar, the packet published last
  exit,       \* how far the destructor of the node has come
  skipped     \* history: the last scan passed the lidar by

ring == <<slot, wr, rd, pending>>
producer == <<ppc, pl, packet>>
consumer == <<cpc, ci, pkg, published, skipped>>
vars == <<ring, count, sampling, producer, consumer, exit>>

-----------------------------------------------------------------------------
(* The ring (comm/ldq.cpp). *)

(* A mutant: the index is masked when it is stepped, not when it is used. *)
Inc_Masked(i) == (i + 1) % Size

(* idx++ on a uint32. *)
Inc(i) == (i + 1) % IndexModulus

Used(w, r) == (w - r) % IndexModulus

(* A mutant: one packet more than slots. *)
IsFull_OffByOne(w, r) == Used(w, r) > Size

(* QueueIsFull: (wr_idx - rd_idx) > mask. *)
IsFull(w, r) == Used(w, r) > Size - 1

IsEmpty(l) == rd[l] = wr[l]

(* wr_idx as the producer itself reads it. *)
OwnWr(l) == IF pending = l THEN Inc(wr[l]) ELSE wr[l]

(* idx & mask. *)
SlotOf(i) == i % Size

(* A mutant: signal only when the ring was empty. *)
MustSignal_FirstOnly == count <= 0 /\ Used(OwnWr(pl), rd[pl]) = 1

(* PushLidarData and Signal: the semaphore is signalled only when its count *)
(* was seen exhausted. *)
MustSignal == count <= 0

(* A mutant: a packet that is dropped wakes nobody. *)
OnFull_Silent == "idle"

(* A packet that finds the ring full is dropped, and the producer still    *)
(* looks whether the poll thread must be woken. *)
OnFull == "count"

TypeOK ==
  /\ slot \in [Lidars -> [0 .. Size - 1 -> Packets \cup {Torn, Nothing}]]
  /\ wr \in [Lidars -> Indices]
  /\ rd \in [Lidars -> Indices]
  /\ pending \in Lidars \cup {Nothing}
  /\ count \in {0, 1}
  /\ sampling \in [Lidars -> BOOLEAN]
  /\ ppc \in {"idle", "write", "bump", "check", "count", "signal"}
  /\ pl \in Lidars
  /\ packet \in Packets \cup {Nothing}
  /\ cpc \in {"distribute", "wait", "scan", "poll", "drain", "copy", "update", "future", "done"}
  /\ ci \in 1 .. NumLidars + 1
  /\ pkg \in Packets \cup {Torn, Nothing}
  /\ published \in [Lidars -> Packets \cup {Torn, Nothing}]
  /\ exit \in {"no", "requested", "set"}
  /\ skipped \in [Lidars -> BOOLEAN]

(* A ring that InitQueue has not allocated yet has no packets either, so   *)
(* every ring starts allocated and empty. *)
Init ==
  /\ slot = [l \in Lidars |-> [i \in 0 .. Size - 1 |-> Nothing]]
  /\ wr = [l \in Lidars |-> 0]
  /\ rd = [l \in Lidars |-> 0]
  /\ pending = Nothing
  /\ count = 0
  /\ sampling = [l \in Lidars |-> FALSE]
  /\ ppc = "idle" /\ pl = 1 /\ packet = Nothing
  /\ cpc = "distribute" /\ ci = 1 /\ pkg = Nothing
  /\ published = [l \in Lidars |-> Nothing]
  /\ exit = "no"
  /\ skipped = [l \in Lidars |-> TRUE]

-----------------------------------------------------------------------------
(* The producer: Lds::StoragePointData calls PushLidarData for each packet *)
(* of a frame.  The look-up of the lidar's index before it takes a mutex,  *)
(* which empties the store buffer. *)

BeginPush(l, p) ==
  /\ ppc = "idle"
  /\ pending = Nothing
  /\ pl' = l
  /\ IF IsFull(OwnWr(l), rd[l])
     THEN ppc' = OnFull /\ UNCHANGED <<slot, packet>>
     ELSE /\ ppc' = "write"
          /\ packet' = p
          /\ slot' = [slot EXCEPT ![l][SlotOf(wr[l])] = Torn]
  /\ UNCHANGED <<wr, rd, pending, count, sampling, consumer, exit>>

(* QueuePushAny has copied the points into the slot ... *)
EndWrite ==
  /\ ppc = "write"
  /\ ppc' = "bump"
  /\ slot' = [slot EXCEPT ![pl][SlotOf(wr[pl])] = packet]
  /\ UNCHANGED <<wr, rd, pending, count, sampling, pl, packet, consumer, exit>>

(* ... and steps wr_idx. *)
StepWr ==
  /\ ppc = "bump"
  /\ ppc' = "check"
  /\ pending' = pl
  /\ packet' = Nothing
  /\ UNCHANGED <<slot, wr, rd, count, sampling, pl, consumer, exit>>

(* The store of wr_idx reaches the other thread. *)
StoreVisible ==
  /\ pending # Nothing
  /\ wr' = [wr EXCEPT ![pending] = Inc(@)]
  /\ pending' = Nothing
  /\ UNCHANGED <<slot, rd, count, sampling, producer, consumer, exit>>

CheckEmpty ==
  /\ ppc = "check"
  /\ ppc' = IF rd[pl] = OwnWr(pl) THEN "idle" ELSE "count"
  /\ UNCHANGED <<ring, count, sampling, pl, packet, consumer, exit>>

(* GetCount reads the count without the semaphore's mutex. *)
GetCount ==
  /\ ppc = "count"
  /\ ppc' = IF MustSignal THEN "signal" ELSE "idle"
  /\ UNCHANGED <<ring, count, sampling, pl, packet, consumer, exit>>

(* Signal takes the mutex, which empties the store buffer first. *)
Signal ==
  /\ ppc = "signal"
  /\ pending = Nothing
  /\ ppc' = "idle"
  /\ count' = count + 1
  /\ UNCHANGED <<ring, sampling, pl, packet, consumer, exit>>

-----------------------------------------------------------------------------
(* The poll thread: PointCloudDataPollThread calls Distribute until the    *)
(* exit future is ready. *)

Distribute ==
  /\ cpc = "distribute"
  /\ cpc' = IF exit = "no" THEN "wait" ELSE "future"
  /\ UNCHANGED <<ring, count, sampling, producer, ci, pkg, published, skipped, exit>>

Wait ==
  /\ cpc = "wait"
  /\ count > 0
  /\ count' = count - 1
  /\ cpc' = "scan"
  /\ ci' = 1
  /\ UNCHANGED <<ring, sampling, producer, pkg, published, skipped, exit>>

Scan ==
  /\ cpc = "scan"
  /\ ci \in Lidars
  /\ skipped' = [skipped EXCEPT ![ci] = ~sampling[ci]]
  /\ IF sampling[ci] THEN cpc' = "poll" /\ UNCHANGED ci
                     ELSE ci' = ci + 1 /\ UNCHANGED cpc
  /\ UNCHANGED <<ring, count, sampling, producer, pkg, published, exit>>

EndScan ==
  /\ cpc = "scan"
  /\ ci \notin Lidars
  /\ cpc' = "future"
  /\ UNCHANGED <<ring, count, sampling, producer, ci, pkg, published, skipped, exit>>

(* PollingLidarPointCloudData looks at the exit flag and at the ring. *)
Poll ==
  /\ cpc = "poll"
  /\ IF exit # "no" \/ IsEmpty(ci) THEN cpc' = "scan" /\ ci' = ci + 1
                                   ELSE cpc' = "drain" /\ UNCHANGED ci
  /\ UNCHANGED <<ring, count, sampling, producer, pkg, published, skipped, exit>>

(* The loop of PublishCustomPointcloud and of its siblings: until empty,    *)
(* whatever the exit flag says. *)
Drain ==
  /\ cpc = "drain"
  /\ cpc' = IF IsEmpty(ci) THEN "poll" ELSE "copy"
  /\ UNCHANGED <<ring, count, sampling, producer, ci, pkg, published, skipped, exit>>

PrePop ==
  /\ cpc = "copy"
  /\ cpc' = "update"
  /\ pkg' = slot[ci][SlotOf(rd[ci])]
  /\ UNCHANGED <<ring, count, sampling, producer, ci, published, skipped, exit>>

(* QueuePopUpdate, then the message is published unless it has no points. *)
PopUpdate ==
  /\ cpc = "update"
  /\ cpc' = "drain"
  /\ rd' = [rd EXCEPT ![ci] = Inc(@)]
  /\ published' = IF pkg = Blank THEN published ELSE [published EXCEPT ![ci] = pkg]
  /\ pkg' = Nothing
  /\ UNCHANGED <<slot, wr, pending, count, sampling, producer, ci, skipped, exit>>

PollFuture ==
  /\ cpc = "future"
  /\ cpc' = IF exit = "set" THEN "done" ELSE "distribute"
  /\ UNCHANGED <<ring, count, sampling, producer, ci, pkg, published, skipped, exit>>

-----------------------------------------------------------------------------
(* A lidar reports its last outstanding setting done (livox_lidar_callback). *)
(* No code takes a lidar back out of the sampling state. *)
StartSampling(l) ==
  /\ ~sampling[l]
  /\ sampling' = [sampling EXCEPT ![l] = TRUE]
  /\ UNCHANGED <<ring, count, producer, consumer, exit>>

(* ~DriverNode: request the exit, set the promise, join the thread. *)
RequestExit ==
  /\ exit = "no"
  /\ exit' = "requested"
  /\ UNCHANGED <<ring, count, sampling, producer, consumer>>

SetExitSignal ==
  /\ exit = "requested"
  /\ exit' = "set"
  /\ UNCHANGED <<ring, count, sampling, producer, consumer>>

Push == \E l \in Lidars, p \in Packets : BeginPush(l, p)
Finish == EndWrite \/ StepWr \/ CheckEmpty \/ GetCount \/ Signal
PollThread == \/ Distribute \/ Wait \/ Scan \/ EndScan \/ Poll \/ Drain
              \/ PrePop \/ PopUpdate \/ PollFuture

Next == \/ Push \/ Finish \/ StoreVisible \/ PollThread
        \/ \E l \in Lidars : StartSampling(l)
        \/ RequestExit \/ SetExitSignal

Spec == Init /\ [][Next]_vars

(* Both threads and the destructor run on; the lidars keep sending. *)
Fairness == /\ WF_vars(Push)
            /\ WF_vars(Finish)
            /\ WF_vars(StoreVisible)
            /\ WF_vars(PollThread)
            /\ WF_vars(SetExitSignal)

FairSpec == Spec /\ Fairness

-----------------------------------------------------------------------------
(* The producer never writes a slot while the poll thread copies it, across *)
(* the wrap-around of the indices as well. *)
SlotExclusive ==
  ~ /\ ppc \in {"write", "bump"}
    /\ cpc \in {"copy", "update"}
    /\ pl = ci
    /\ SlotOf(wr[pl]) = SlotOf(rd[ci])

Asleep == cpc = "wait" /\ count = 0

(* When the poll thread sleeps and the producer is between two packets, the *)
(* rings the last scan did not pass by hold at worst one packet together:  *)
(* its store of wr_idx came too late for the scan and its look at the      *)
(* count too early for the signal. *)
AtMostOneStranded ==
  Asleep /\ ppc = "idle" /\ pending = Nothing
    => \A l, m \in {k \in Lidars : ~skipped[k] /\ ~IsEmpty(k)} :
         l = m /\ Used(wr[l], rd[l]) = 1

(* The rings behave as bounded first-in first-out channels: nothing that    *)
(* was accepted is lost, duplicated, reordered or torn. *)
Contents(l) ==
  [i \in 1 .. Used(wr[l], rd[l]) |-> slot[l][SlotOf((rd[l] + i - 1) % IndexModulus)]]

Channel == INSTANCE PacketChannel WITH
  Capacity <- Size, buffer <- [l \in Lidars |-> Contents(l)]

IsChannel == Channel!Spec

(* The poll thread leaves every ring again and again: it is faster than     *)
(* the lidar that fills the ring. *)
KeepsUp == []<>(cpc \notin {"poll", "drain", "copy", "update"})

(* While the lidars keep sending, a packet of a sampling lidar is popped,   *)
(* whatever happened before the lidar began to sample, unless the node is  *)
(* asked to exit. *)
PacketsArePopped ==
  KeepsUp => \A l \in Lidars :
    (sampling[l] /\ ~IsEmpty(l)) ~> (exit # "no" \/ (cpc = "update" /\ ci = l))

(* While the lidars keep sending, the destructor's join of the poll thread  *)
(* returns: a sleeping poll thread is woken by the next packet only. *)
ExitIsJoined == KeepsUp => (exit = "set" ~> cpc = "done")
=============================================================================
