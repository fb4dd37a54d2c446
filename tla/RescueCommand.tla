---------------------------- MODULE RescueCommand ----------------------------
(***************************************************************************)
(* The bypass that drives the robot out of an obstacle: special_area asks  *)
(* for the global costmap on a timer and publishes a status and a velocity *)
(* on two topics; the serial driver sends the board that velocity while    *)
(* its last status says so and the controller's velocity otherwise.        *)
(*                                                                         *)
(* The direction of a rescue velocity does not matter here, only whether   *)
(* it is zero and, as history, to which rescue it and the status belong.   *)
(* Messages of a topic arrive in order; a full topic drops its oldest.     *)
(***************************************************************************)
EXTENDS Naturals, Sequences

CONSTANTS
  Depth,        \* depth of a subscription's queue
  MaxRequests,  \* bound: unanswered costmap requests
  MaxRescues    \* bound: rescues in a behaviour

ASSUME DepthAssumption == Depth \in Nat \ {0}
ASSUME BoundAssumption == MaxRequests \in Nat \ {0} /\ MaxRescues \in Nat

VARIABLES
  stuck,             \* what the costmap says of the robot's cell
  service,           \* the costmap service is there
  requests,          \* unanswered costmap requests
  rescue,            \* history: number of the last rescue begun
  rescuing,          \* history: the last verdict was that the robot is stuck
  publishing,        \* velocities the response handler has yet to publish
  topic,             \* the queues of the serial driver's subscriptions
  ready,             \* what the executor's last wait found
  port,              \* open, or failed: the executor sleeps in reopenPort
  speed_save,        \* the last rescue velocity received
  self_save_status,  \* the last status received
  sent,              \* whose velocity the board was told last
  overflowed         \* history: a full topic dropped a message of the present backlog

world == <<stuck, service>>
area == <<requests, rescue, rescuing, publishing>>
serial == <<ready, port, speed_save, self_save_status, sent>>
vars == <<world, area, topic, serial, overflowed>>

-----------------------------------------------------------------------------
Verdicts == [stuck : BOOLEAN, rescue : 0 .. MaxRescues]
Velocities == [drive : BOOLEAN, rescue : 0 .. MaxRescues]
Subscriptions == {"save", "status"}

TypeOK ==
  /\ stuck \in BOOLEAN /\ service \in BOOLEAN /\ rescuing \in BOOLEAN
  /\ requests \in 0 .. MaxRequests
  /\ rescue \in 0 .. MaxRescues
  /\ publishing \in Seq(Velocities) /\ Len(publishing) <= 1
  /\ topic.save \in Seq(Velocities) /\ topic.status \in Seq(Verdicts)
  /\ \A s \in Subscriptions : Len(topic[s]) <= Depth
  /\ ready \subseteq Subscriptions
  /\ port \in {"open", "failed"}
  /\ speed_save \in Velocities
  /\ self_save_status \in Verdicts
  /\ sent \in {"cmd", "save"}
  /\ overflowed \in BOOLEAN

Standing == [drive |-> FALSE, rescue |-> 0]
Free == [stuck |-> FALSE, rescue |-> 0]

Init ==
  /\ stuck = FALSE /\ service = TRUE
  /\ requests = 0 /\ rescue = 0 /\ rescuing = FALSE /\ publishing = <<>>
  /\ topic = [save |-> <<>>, status |-> <<>>]
  /\ ready = {} /\ port = "open"
  /\ speed_save = Standing /\ self_save_status = Free
  /\ sent = "cmd"
  /\ overflowed = FALSE

(* A topic keeps its last Depth messages. *)
KeepLast(q, m) == IF Len(q) < Depth THEN Append(q, m) ELSE Append(Tail(q), m)

Publish(s, m) ==
  /\ topic' = [topic EXCEPT ![s] = KeepLast(@, m)]
  /\ overflowed' = (overflowed \/ Len(topic[s]) = Depth)

-----------------------------------------------------------------------------
(* special_area *)

(* save: the timer asks for the costmap if the service is there. *)
Save ==
  /\ service
  /\ requests < MaxRequests
  /\ requests' = requests + 1
  /\ UNCHANGED <<world, rescue, rescuing, publishing, topic, serial, overflowed>>

(* A mutant: a robot that is free gets no velocity any more. *)
VelocityOf_NoZero(v) == IF v.stuck THEN << [drive |-> TRUE, rescue |-> v.rescue] >> ELSE <<>>

(* The velocity the handler publishes after the status. *)
VelocityOf(v) == << [drive |-> v.stuck, rescue |-> v.rescue] >>

(* A mutant: being free is not published. *)
PublishesStatus_StuckOnly(v) == v.stuck

(* Every verdict is published. *)
PublishesStatus(v) == TRUE

(* parseCostmapAndQuery as far as the status. *)
Judge ==
  LET begins == stuck /\ ~rescuing
      number == IF begins THEN rescue + 1 ELSE rescue
      verdict == [stuck |-> stuck, rescue |-> number]
  IN  /\ service
      /\ requests > 0
      /\ publishing = <<>>
      /\ number <= MaxRescues
      /\ requests' = requests - 1
      /\ rescue' = number
      /\ rescuing' = stuck
      /\ publishing' = VelocityOf(verdict)
      /\ IF PublishesStatus(verdict) THEN Publish("status", verdict) ELSE UNCHANGED <<topic, overflowed>>
      /\ UNCHANGED <<world, serial>>

(* Without a pose the exception of the lookup ends the handler. *)
JudgeWithoutPose ==
  /\ service
  /\ requests > 0
  /\ publishing = <<>>
  /\ requests' = requests - 1
  /\ UNCHANGED <<world, rescue, rescuing, publishing, topic, serial, overflowed>>

(* The rest of the handler. *)
PublishVelocity ==
  /\ publishing # <<>>
  /\ Publish("save", Head(publishing))
  /\ publishing' = <<>>
  /\ UNCHANGED <<world, requests, rescue, rescuing, serial>>

-----------------------------------------------------------------------------
(* The serial driver *)

(* The executor waits, and executes what it found before it waits again. *)
Wait ==
  /\ port = "open"
  /\ ready = {}
  /\ ready' = {s \in Subscriptions : topic[s] # <<>>}
  /\ ready' # {}
  /\ UNCHANGED <<world, area, topic, port, speed_save, self_save_status, sent, overflowed>>

Take(s) ==
  /\ port = "open"
  /\ s \in ready
  /\ ready' = ready \ {s}
  /\ topic' = [topic EXCEPT ![s] = Tail(@)]
  /\ overflowed' = (overflowed /\ \E t \in Subscriptions : topic'[t] # <<>>)
  /\ UNCHANGED <<world, area, port, sent>>

(* cmd_save_Data, whose subscription was created first. *)
TakeVelocity ==
  /\ Take("save")
  /\ speed_save' = Head(topic["save"])
  /\ UNCHANGED self_save_status

(* saveData *)
TakeStatus ==
  /\ "save" \notin ready
  /\ Take("status")
  /\ self_save_status' = Head(topic["status"])
  /\ UNCHANGED speed_save

(* What sendData puts into the packet. *)
Packet == [source |-> IF self_save_status.stuck THEN "save" ELSE "cmd",
           speed |-> speed_save, status |-> self_save_status]

(* sendData: the timer goes before the subscriptions the wait found. *)
SendData ==
  /\ port = "open"
  /\ sent' = Packet.source
  /\ UNCHANGED <<world, area, topic, ready, port, speed_save, self_save_status, overflowed>>

(* A send that fails leaves the executor in reopenPort. *)
SendFails ==
  /\ port = "open"
  /\ port' = "failed"
  /\ UNCHANGED <<world, area, topic, ready, speed_save, self_save_status, sent, overflowed>>

ReopenPort ==
  /\ port = "failed"
  /\ port' = "open"
  /\ UNCHANGED <<world, area, topic, ready, speed_save, self_save_status, sent, overflowed>>

-----------------------------------------------------------------------------
(* The environment. *)

StuckChanges == stuck' = ~stuck /\ UNCHANGED <<service, area, topic, serial, overflowed>>

(* The server goes away with the requests it has not answered. *)
ServiceDown ==
  /\ service
  /\ service' = FALSE
  /\ requests' = 0
  /\ UNCHANGED <<stuck, rescue, rescuing, publishing, topic, serial, overflowed>>

ServiceUp ==
  /\ ~service
  /\ service' = TRUE
  /\ UNCHANGED <<stuck, area, topic, serial, overflowed>>

Next == \/ Save \/ Judge \/ JudgeWithoutPose \/ PublishVelocity
        \/ Wait \/ TakeVelocity \/ TakeStatus \/ SendData \/ SendFails \/ ReopenPort
        \/ StuckChanges \/ ServiceDown \/ ServiceUp

Spec == Init /\ [][Next]_vars

(* The nodes run on; service, pose and port are there again and again. *)
Fairness == /\ WF_vars(ServiceUp) /\ SF_vars(Save) /\ SF_vars(Judge)
            /\ WF_vars(PublishVelocity) /\ WF_vars(ReopenPort)
            /\ SF_vars(Wait) /\ SF_vars(TakeVelocity) /\ SF_vars(TakeStatus) /\ SF_vars(SendData)

FairSpec == Spec /\ Fairness

-----------------------------------------------------------------------------
(* The board is never told to drive with the velocity of a rescue that is  *)
(* over when the next one begins, although status and velocity come over   *)
(* two topics and a packet may be sent between them - unless a full queue  *)
(* has dropped messages of the backlog that is being worked off. *)
RescueNotStale ==
  ~overflowed /\ Packet.source = "save" /\ Packet.speed.drive
    => Packet.speed.rescue = Packet.status.rescue

(* A robot that stays free is given back to the controller, whatever was   *)
(* lost with the service, the pose or the port in between. *)
RescueReleased == <>[](~stuck) => <>[](sent = "cmd")
=============================================================================
