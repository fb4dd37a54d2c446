----------------------------- MODULE SerialPort ------------------------------
(***************************************************************************)
(* The two threads on the serial port: the receive thread reads frames and *)
(* publishes them, the executor's send timer writes packets. Either one    *)
(* runs reopenPort when its call fails, without a lock, and the port may   *)
(* be closed by one while the other has just opened it.                    *)
(*                                                                         *)
(* A frame is its header and whether its checksum holds. Of the packet the *)
(* field nav_enable is kept, which the driver overrides.                   *)
(***************************************************************************)
EXTENDS Naturals, FiniteSets

VARIABLES
  device, silent,    \* the device node is there; the board has stopped sending
  port,              \* is_open
  pc,                \* what each thread is doing
  published,         \* the topics that the last frame was published on
  ok,                \* rclcpp::ok()
  exited,            \* the node does not exist: refused its parameters or destroyed
  nav_enable, aim_force_nav_enable_, force_nav_enable_  \* what the packet's nav_enable is made of

threads == <<port, pc, published>>
nav == <<nav_enable, aim_force_nav_enable_, force_nav_enable_>>
vars == <<device, silent, threads, ok, exited, nav>>

-----------------------------------------------------------------------------
Threads == {"receive", "send"}
Headers == {"A5", "A3", "A6", "invalid"}
Reopening == {"check", "close", "open", "sleep"}

TopicsOf(h) ==
  CASE h = "A5" -> {"receive_pack"}
    [] h = "A3" -> {"receiveLLC_pack", "self_speed", "decision_change", "goal_pose_op"}
    [] h = "A6" -> {"lidar_pack"}
    [] OTHER -> {}

TypeOK ==
  /\ {device, silent, ok, exited, force_nav_enable_, nav_enable, aim_force_nav_enable_} \subseteq BOOLEAN
  /\ port \in {"open", "closed"}
  /\ pc.receive \in Headers \cup Reopening \cup {"run", "header", "done"}
  /\ pc.send \in Reopening \cup {"run"}
  /\ \E h \in Headers : published = TopicsOf(h)

(* getParams: the texts it takes for flow control, parity and stop bits. *)
Accepts(flow_control, parity, stop_bits) ==
  /\ flow_control \in {"none", "hardware", "software"}
  /\ parity \in {"none", "odd", "even"}
  /\ stop_bits \in {"1", "1.0", "1.5", "2", "2.0"}

(* The constructor opens the port and starts the receive thread, or throws. *)
Init ==
  /\ device = TRUE /\ silent = FALSE
  /\ \E flow \in {"none", "rts"}, par \in {"odd", "mark"}, stop \in {"1", "3"} : exited = ~Accepts(flow, par, stop)
  /\ ok = TRUE
  /\ port = IF exited THEN "closed" ELSE "open"
  /\ pc = [receive |-> IF exited THEN "done" ELSE "run", send |-> "run"]
  /\ published = {}
  /\ nav_enable = FALSE /\ aim_force_nav_enable_ = FALSE /\ force_nav_enable_ = FALSE

Goto(t, l) == pc' = [pc EXCEPT ![t] = l]

-----------------------------------------------------------------------------
(* receiveData looks at ok() between two frames only. *)
Loop ==
  /\ pc.receive = "run"
  /\ Goto("receive", IF ok THEN "header" ELSE "done")
  /\ UNCHANGED <<device, silent, port, published, ok, exited, nav>>

(* It waits for a header, ... *)
ReceiveHeader(h) ==
  /\ pc.receive = "header"
  /\ port = "open" /\ device /\ ~silent
  /\ Goto("receive", h)
  /\ published' = {}
  /\ UNCHANGED <<device, silent, port, ok, exited, nav>>

(* ... the rest of its frame, which is published if it is intact, ... *)
Publish(h, intact) ==
  /\ pc.receive = h
  /\ h \in {"A5", "A3", "A6"}
  /\ port = "open" /\ device /\ ~silent
  /\ published' = IF intact THEN TopicsOf(h) ELSE {}
  /\ Goto("receive", IF ~intact /\ h = "A3" THEN "check" ELSE "run")
  /\ UNCHANGED <<device, silent, port, ok, exited, nav>>

(* ... or, of something else, as many bytes as come, and a new start. *)
SkipInvalid ==
  /\ pc.receive = "invalid"
  /\ ~silent \/ port = "closed" \/ ~device
  /\ Goto("receive", "check")
  /\ UNCHANGED <<device, silent, port, published, ok, exited, nav>>

(* Any receive may throw, and does on a port that is closed or gone. *)
ReceiveError ==
  /\ pc.receive \in Headers \cup {"header"}
  /\ Goto("receive", "check")
  /\ UNCHANGED <<device, silent, port, published, ok, exited, nav>>

-----------------------------------------------------------------------------
(* sendData: nothing changes but what the board is told. *)
Packet == [nav_enable |-> force_nav_enable_ \/ aim_force_nav_enable_ \/ nav_enable]

SendFails ==
  /\ ok /\ ~exited /\ pc.send = "run"
  /\ Goto("send", "check")
  /\ UNCHANGED <<device, silent, port, published, ok, exited, nav>>

(* navData, aimEnableNavData and the other subscriptions keep the last value. *)
Hear ==
  /\ ok /\ ~exited /\ pc.send = "run"
  /\ \/ nav_enable' \in BOOLEAN /\ UNCHANGED aim_force_nav_enable_
     \/ aim_force_nav_enable_' \in BOOLEAN /\ UNCHANGED nav_enable
  /\ UNCHANGED <<device, silent, threads, ok, exited, force_nav_enable_>>

(* updateNavForceArea: a wider rectangle to leave than to enter; without a *)
(* pose the flag stays, as it does when the timer is late. *)
UpdateNavForceArea(at) ==
  /\ ok /\ ~exited /\ pc.send = "run"
  /\ force_nav_enable_' = (at = "in" \/ (at = "margin" /\ force_nav_enable_))
  /\ UNCHANGED <<device, silent, threads, ok, exited, nav_enable, aim_force_nav_enable_>>

-----------------------------------------------------------------------------
(* reopenPort, by either thread. *)
IsOpen(t) ==
  /\ pc[t] = "check"
  /\ Goto(t, IF port = "open" THEN "close" ELSE "open")
  /\ UNCHANGED <<device, silent, port, published, ok, exited, nav>>

Close(t) ==
  /\ pc[t] = "close"
  /\ port' = "closed"
  /\ Goto(t, "open")
  /\ UNCHANGED <<device, silent, published, ok, exited, nav>>

(* A mutant: a port that could not be opened is tried again by the caller. *)
AfterFailure_GiveUp == "run"

(* A mutant: it is tried again whether or not the node is to end. *)
AfterFailure_Always == "sleep"

(* A port that could not be opened is tried again while the node runs. *)
AfterFailure == IF ok THEN "sleep" ELSE "run"

(* Opening fails without the device, and on a port that is open already. *)
Open(t) ==
  /\ pc[t] = "open"
  /\ IF device /\ port = "closed"
     THEN port' = "open" /\ Goto(t, "run")
     ELSE Goto(t, AfterFailure) /\ UNCHANGED port
  /\ UNCHANGED <<device, silent, published, ok, exited, nav>>

Retry(t) ==
  /\ pc[t] = "sleep"
  /\ Goto(t, "check")
  /\ UNCHANGED <<device, silent, port, published, ok, exited, nav>>

(* The destructor runs when the executor has returned, and joins the thread. *)
Destroy ==
  /\ ~ok /\ ~exited
  /\ pc.send = "run" /\ pc.receive = "done"
  /\ port' = "closed"
  /\ exited' = TRUE
  /\ UNCHANGED <<device, silent, pc, published, ok, nav>>

-----------------------------------------------------------------------------
(* The environment: the device comes and goes, the board falls silent, the *)
(* process is told to end. *)
DeviceChanges == device' = ~device /\ UNCHANGED <<silent, threads, ok, exited, nav>>
FallSilent == silent' = ~silent /\ UNCHANGED <<device, threads, ok, exited, nav>>
Shutdown == ok /\ ok' = FALSE /\ UNCHANGED <<device, silent, threads, exited, nav>>

Next ==
  \/ Loop
  \/ \E h \in Headers : ReceiveHeader(h)
  \/ \E h \in Headers, intact \in BOOLEAN : Publish(h, intact)
  \/ SkipInvalid \/ ReceiveError
  \/ SendFails \/ Hear
  \/ \E at \in {"in", "margin", "out"} : UpdateNavForceArea(at)
  \/ \E t \in Threads : IsOpen(t) \/ Close(t) \/ Open(t) \/ Retry(t)
  \/ Destroy
  \/ DeviceChanges \/ FallSilent \/ Shutdown

Spec == Init /\ [][Next]_vars

(* Both threads run on; a receive on a closed or missing port returns. *)
Fairness ==
  /\ WF_vars(Loop) /\ WF_vars(SkipInvalid) /\ WF_vars(Destroy)
  /\ WF_vars(ReceiveError /\ (port = "closed" \/ ~device))
  /\ SF_vars(\E h \in Headers : ReceiveHeader(h))
  /\ SF_vars(\E h \in Headers, intact \in BOOLEAN : Publish(h, intact))
  /\ \A t \in Threads : WF_vars(IsOpen(t)) /\ WF_vars(Close(t)) /\ WF_vars(Open(t)) /\ WF_vars(Retry(t))

-----------------------------------------------------------------------------
(* Although either thread may close the port the other has just opened, the *)
(* port is open whenever neither is in reopenPort: nobody returns from it   *)
(* to a port that stays closed while the node runs. *)
PortOpenAtRest ==
  ok /\ ~exited /\ (\A t \in Threads : pc[t] \notin Reopening) => port = "open"

(* The node ends when it is told to, with the device there or not, unless   *)
(* the board falls silent: the receive thread then waits in its  *)
(* call and the destructor for the thread. *)
ShutdownCompletes == <>[](~silent) /\ <>(~ok) => <>exited
=============================================================================
