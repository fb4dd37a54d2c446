---------------------------- MODULE Relocalization ----------------------------
(***************************************************************************)
(* The initial relocalization (small_gicp_relocalization.cpp) and the part *)
(* of the odometry that waits for it (laserMapping.cpp).  The odometry     *)
(* publishes its clouds; the node accumulates them, registers them once    *)
(* against the stored map and publishes the result as the transform from   *)
(* odom_init to camera_init.  The odometry looks the transform up with     *)
(* each cloud until it has it, and keeps it for good.                      *)
(*                                                                         *)
(* A cloud carries the transform it was moved by.  Clouds and transforms   *)
(* travel on their own; the callbacks of the node do not overlap.          *)
(***************************************************************************)
EXTENDS Naturals, Sequences

CONSTANTS
  ScanSizes,       \* points of a cloud
  MinScans, MinPoints, MaxScans, MaxPoints, \* min_accumulated_..., max_relocalization_...
  MaxAccumulation, \* max_accumulation_time_sec
  MaxClouds,       \* bound: clouds the odometry publishes
  MaxTransit       \* bound: clouds on their way (depth of the subscription)

RelocalizationAssumption ==
  /\ ScanSizes \subseteq Nat
  /\ {MinScans, MinPoints, MaxScans, MaxPoints, MaxAccumulation, MaxClouds} \subseteq Nat
  /\ MaxTransit \in Nat \ {0}

VARIABLES
  target,      \* the stored map was loaded: target_ and target_tree_
  started,     \* accumulation_started_
  waited,      \* time since accumulation_start_time_
  scans,       \* accumulated_scan_count_
  accumulated, \* the clouds in accumulated_cloud_: the transforms they carry
  points,      \* its size
  done, attempted, failed, \* initial_registration_..., relocalization_failed_
  timers,      \* the timers that run
  result,      \* result_t_: the pose given as a parameter, or the registered one
  transit,     \* clouds on their way to the node
  tf,          \* transforms published
  latched,     \* T_odom_init_camera_init, "identity" until got_reloc_tf
  clouds       \* clouds published, to bound them

pile == <<started, waited, scans, accumulated, points>>
verdict == <<done, attempted, failed, timers, result>>
odometry == <<latched, clouds>>
vars == <<target, pile, verdict, transit, tf, odometry>>

Init ==
  /\ target \in BOOLEAN
  /\ started = FALSE /\ waited = 0 /\ scans = 0 /\ accumulated = {} /\ points = 0
  /\ done = FALSE /\ attempted = FALSE /\ failed = FALSE
  /\ timers = {"register", "transform"} /\ result = "init_pose"
  /\ transit = <<>> /\ tf = {} /\ latched = "identity" /\ clouds = 0

-----------------------------------------------------------------------------
(* The odometry. *)

(* getOdomInitToCameraInit: what is there now, but never again once found. *)
LookupTransform ==
  latched' = IF latched = "identity" /\ tf # {} THEN CHOOSE t \in tf : TRUE ELSE latched

PublishFrameWorld(size) ==
  /\ clouds < MaxClouds /\ Len(transit) < MaxTransit
  /\ clouds' = clouds + 1
  /\ LookupTransform
  /\ transit' = Append(transit, [size |-> size, frame |-> latched'])
  /\ UNCHANGED <<target, pile, verdict, tf>>

-----------------------------------------------------------------------------
(* The node. *)

(* The times that matter are those up to the limit. *)
Tick ==
  /\ started /\ waited < MaxAccumulation
  /\ waited' = waited + 1
  /\ UNCHANGED <<target, started, scans, accumulated, points, verdict, transit, tf, odometry>>

CancelRelocalization ==
  /\ failed' = TRUE
  /\ accumulated' = {} /\ points' = 0
  /\ timers' = {}

(* A cloud starts the clock even if it is empty.  It is taken in also      *)
(* after the attempt was given up for lack of points, or without a map. *)
RegisteredPcdCallback ==
  /\ transit # <<>>
  /\ transit' = Tail(transit)
  /\ UNCHANGED <<target, waited, done, attempted, result, tf, odometry>>
  /\ LET scan == Head(transit) IN
     IF done \/ failed
     THEN UNCHANGED <<started, scans, accumulated, points, failed, timers>>
     ELSE /\ started' = TRUE
          /\ IF scan.size = 0
             THEN UNCHANGED <<scans, accumulated, points, failed, timers>>
             ELSE /\ scans' = scans + 1
                  /\ IF points + scan.size > MaxPoints \/ scans' > MaxScans
                     THEN CancelRelocalization
                     ELSE /\ accumulated' = accumulated \cup {scan.frame}
                          /\ points' = points + scan.size
                          /\ UNCHANGED <<failed, timers>>

Enough == scans >= MinScans /\ points >= MinPoints

(* A mutant: without a limit on the time. *)
IsDue_Patient == Enough

IsDue == Enough \/ waited >= MaxAccumulation

CanAttempt ==
  /\ "register" \in timers
  /\ ~done /\ ~attempted /\ target /\ started
  /\ IsDue

(* performRegistration without a point gives up, but not as failed. *)
AbortRegistration ==
  /\ CanAttempt /\ points = 0
  /\ attempted' = TRUE
  /\ timers' = {}
  /\ UNCHANGED <<target, pile, done, failed, result, transit, tf, odometry>>

(* The registration converges, or its error is small, or it fails. *)
PerformRegistration(converges) ==
  /\ CanAttempt /\ points > 0
  /\ attempted' = TRUE
  /\ IF converges
     THEN /\ result' = "registered" /\ done' = TRUE
          /\ accumulated' = {} /\ points' = 0
          /\ timers' = timers \ {"register"}
          /\ UNCHANGED failed
     ELSE /\ CancelRelocalization
          /\ UNCHANGED <<result, done>>
  /\ UNCHANGED <<target, started, waited, scans, transit, tf, odometry>>

(* The register timer fires when an attempt is due. *)
RegisterTimer == AbortRegistration \/ \E converges \in BOOLEAN : PerformRegistration(converges)

(* A mutant: the transform is published before the registration too. *)
MayPublish_Always == TRUE

MayPublish == done

PublishTransform ==
  /\ "transform" \in timers /\ MayPublish
  /\ tf' = {result}
  /\ UNCHANGED <<target, pile, verdict, transit, odometry>>

Next ==
  \/ \E size \in ScanSizes : PublishFrameWorld(size)
  \/ Tick
  \/ RegisteredPcdCallback
  \/ RegisterTimer
  \/ PublishTransform

(* Clouds arrive and the timers fire; the odometry may stop. *)
Fairness ==
  /\ WF_vars(Tick)
  /\ WF_vars(RegisteredPcdCallback)
  /\ WF_vars(RegisterTimer)

-----------------------------------------------------------------------------
(* The odometry never moves its clouds by anything but the registered      *)
(* transform once it has stopped asking, and the clouds that were          *)
(* registered were all moved by none, whatever was on its way when the     *)
(* registration ended. *)
OdometryUsesResult ==
  /\ latched # "identity" => done /\ latched = "registered"
  /\ accumulated \subseteq {"identity"}

(* With a map loaded, the first cloud is followed by an end: registered,   *)
(* given up or cancelled - also when the odometry falls silent. *)
RelocalizationEnds == (started /\ target) ~> (attempted \/ failed)
=============================================================================
