----------------------------- MODULE LivoxConfig -----------------------------
(***************************************************************************)
(* The handshake of the Livox driver with its lidars: when the SDK         *)
(* announces a lidar the driver asks it for the parameters of its          *)
(* configuration, and the lidar counts as sampling - its packets are       *)
(* published - once no parameter is open.  Answers come in any order, or   *)
(* as a timeout or a refusal, and a lidar is announced again after a       *)
(* reconnection while older requests are still open.                       *)
(*                                                                         *)
(* A lidar that is not in the user's file gets a zeroed configuration,     *)
(* which asks for every parameter, and only from its second announcement.  *)
(***************************************************************************)
EXTENDS Naturals, FiniteSets

CONSTANTS
  Lidars,      \* the lidars on the network
  Files,       \* the sets of lidars a user's file may list
  Params,      \* parameters: data type, scan pattern, blind spot, dual emit
  Wanted,      \* the parameters a file sets for a lidar it lists
  TableSize,   \* kMaxSourceLidar
  MaxOpen      \* bound: open requests of one kind

ASSUME LidarAssumption == Files \subseteq SUBSET Lidars /\ IsFiniteSet(Lidars)
ASSUME WantedAssumption == Wanted \in [Lidars -> SUBSET Params]
ASSUME TableAssumption == TableSize \in Nat /\ \A F \in Files : Cardinality(F) <= TableSize
ASSUME OpenAssumption == MaxOpen \in Nat \ {0}

(* The other requests of an announcement. *)
Others == {"attitude", "mode", "imu"}
Kinds == Params \cup Others

ASSUME KindAssumption == Params \cap Others = {}

VARIABLES
  listed,         \* the lidars of the user's file
  known,          \* lidars with an index in the table
  set_bits,       \* livox_config.set_bits
  connect_state,  \* "off" or "sampling"
  open,           \* open requests of each kind
  announced,      \* history: lidars that were announced
  applied,        \* history: parameters acknowledged once
  refused,        \* history: parameters refused since the last announcement
  normal          \* history: lidars that acknowledged the normal mode

vars == <<listed, known, set_bits, connect_state, open, announced, applied, refused, normal>>
history == <<announced, applied, refused, normal>>

TypeOK ==
  /\ listed \in Files
  /\ known \subseteq Lidars /\ announced \subseteq Lidars /\ normal \subseteq Lidars
  /\ set_bits \in [Lidars -> SUBSET Params]
  /\ applied \in [Lidars -> SUBSET Params]
  /\ refused \in [Lidars -> SUBSET Params]
  /\ connect_state \in [Lidars -> {"off", "sampling"}]
  /\ open \in [Lidars -> [Kinds -> 0 .. MaxOpen]]

(* InitLivoxLidar gives the listed lidars their place. *)
Init ==
  /\ listed \in Files
  /\ known = listed
  /\ set_bits = [l \in Lidars |-> {}]
  /\ connect_state = [l \in Lidars |-> "off"]
  /\ open = [l \in Lidars |-> [k \in Kinds |-> 0]]
  /\ announced = {} /\ normal = {}
  /\ applied = [l \in Lidars |-> {}]
  /\ refused = [l \in Lidars |-> {}]

-----------------------------------------------------------------------------
ConfigOf(l) == IF l \in listed THEN Wanted[l] ELSE Params

Ask(l, kinds) ==
  /\ \A k \in kinds : open[l][k] < MaxOpen
  /\ open' = [open EXCEPT ![l] = [k \in Kinds |-> IF k \in kinds THEN @[k] + 1 ELSE @[k]]]

(* LidarInfoChangeCallback for a lidar of the table, under config_mutex_ as *)
(* far as the bits go. *)
InfoChange(l) ==
  /\ l \in known
  /\ Ask(l, ConfigOf(l) \cup Others)
  /\ set_bits' = [set_bits EXCEPT ![l] = @ \cup ConfigOf(l)]
  /\ announced' = announced \cup {l}
  /\ refused' = [refused EXCEPT ![l] = {}]
  /\ UNCHANGED <<listed, known, connect_state, applied, normal>>

(* GetFreeIndex finds a place that no lidar has. *)
HasPlace == Cardinality(known) < TableSize

(* LidarInfoChangeCallback for a new one; a full table ignores it. *)
AddLidar(l) ==
  /\ l \notin known
  /\ HasPlace
  /\ known' = known \cup {l}
  /\ Ask(l, {"mode", "imu"})
  /\ announced' = announced \cup {l}
  /\ UNCHANGED <<listed, set_bits, connect_state, applied, refused, normal>>

(* An answer ends a request. *)
Close(l, k) ==
  /\ open[l][k] > 0
  /\ open' = [open EXCEPT ![l][k] = @ - 1]

(* A mutant: any acknowledgement starts the sampling. *)
StateAfter_FirstAck(l, bits) == "sampling"

(* The state once a parameter is acknowledged. *)
StateAfter(l, bits) == IF bits = {} THEN "sampling" ELSE connect_state[l]

(* A mutant: the bit is toggled, so a late answer to an older request, *)
(* which finds it cleared, sets it again. *)
BitsAfter_Toggled(l, p) == (set_bits[l] \ {p}) \cup ({p} \ set_bits[l])

(* The acknowledged bit is cleared. *)
BitsAfter(l, p) == set_bits[l] \ {p}

(* SetDataTypeCallback and its three siblings, successful. *)
Acknowledge(l, p) ==
  /\ Close(l, p)
  /\ set_bits' = [set_bits EXCEPT ![l] = BitsAfter(l, p)]
  /\ connect_state' = [connect_state EXCEPT ![l] = StateAfter(l, BitsAfter(l, p))]
  /\ applied' = [applied EXCEPT ![l] = @ \cup {p}]
  /\ UNCHANGED <<listed, known, announced, refused, normal>>

(* A request that timed out is sent again. *)
Resend(l, k) == open[l][k] > 0 /\ UNCHANGED open

(* The callbacks of parameters and attitude on a timeout, and of the work  *)
(* mode on any failure. *)
Timeout(l, k) ==
  /\ k # "imu"
  /\ Resend(l, k)
  /\ UNCHANGED <<listed, known, set_bits, connect_state, history>>

(* The callbacks of the parameters on another failure. *)
Refuse(l, p) ==
  /\ Close(l, p)
  /\ refused' = [refused EXCEPT ![l] = @ \cup {p}]
  /\ UNCHANGED <<listed, known, set_bits, connect_state, announced, applied, normal>>

(* SetAttitudeCallback, successful or refused. *)
EndAttitude(l) ==
  /\ Close(l, "attitude")
  /\ UNCHANGED <<listed, known, set_bits, connect_state, history>>

(* WorkModeChangedCallback, successful. *)
ModeChanged(l) ==
  /\ Close(l, "mode")
  /\ normal' = normal \cup {l}
  /\ UNCHANGED <<listed, known, set_bits, connect_state, announced, applied, refused>>

(* EnableLivoxLidarImuDataCallback: a timeout is sent again only if the SDK *)
(* passes a response with it. *)
ImuAnswered(l, timeout, response) ==
  /\ IF timeout /\ response THEN Resend(l, "imu") ELSE Close(l, "imu")
  /\ UNCHANGED <<listed, known, set_bits, connect_state, history>>

Next == \E l \in Lidars :
          \/ InfoChange(l)
          \/ AddLidar(l)
          \/ \E p \in Params : Acknowledge(l, p) \/ Refuse(l, p)
          \/ \E k \in Kinds : Timeout(l, k)
          \/ EndAttitude(l)
          \/ ModeChanged(l)
          \/ \E timeout, response \in BOOLEAN : ImuAnswered(l, timeout, response)

Spec == Init /\ [][Next]_vars

(* A lidar that is asked again and again answers at last. *)
Fairness == \A l \in Lidars : /\ \A p \in Params : SF_vars(Acknowledge(l, p))
                              /\ SF_vars(ModeChanged(l))

FairSpec == Spec /\ Fairness

-----------------------------------------------------------------------------
(* A listed lidar samples only when each parameter of its configuration    *)
(* has been acknowledged: no interleaving of answers with a second         *)
(* announcement starts it early. *)
SamplingIsConfigured ==
  \A l \in listed : connect_state[l] = "sampling" => Wanted[l] \subseteq applied[l]

(* A bit never waits for an answer nobody will give: a request is open for *)
(* it, or the lidar has refused it since it was announced. *)
NoLostBit ==
  \A l \in Lidars : \A p \in set_bits[l] : open[l][p] > 0 \/ p \in refused[l]

(* An announced lidar of the file with a parameter to set starts sampling, *)
(* through timeouts and later announcements, unless it refuses for good or *)
(* is announced anew for ever. *)
AnnouncedSamples ==
  \A l \in {m \in Lidars : Wanted[m] # {}} :
    \/ []<>(refused[l] # {})
    \/ []<><<InfoChange(l)>>_vars
    \/ l \in announced \cap listed ~> connect_state[l] = "sampling"

=============================================================================
