----------------------------- MODULE SpecialArea -----------------------------
(***************************************************************************)
(* special_area watches where the robot is and tells the serial driver     *)
(* over two topics in which area it stands and where the gimbal has to     *)
(* point there; the driver keeps the last message of each topic and sends  *)
(* both to the board.                                                      *)
(*                                                                         *)
(* A position is one of AllPlaces: inside an area, in the margin that keeps a *)
(* latch set but does not set it, or outside. An angle is the formula it   *)
(* was computed with. Time passes in units between runs of the timer.      *)
(***************************************************************************)
EXTENDS Naturals, Sequences, FiniteSetsExt

CONSTANTS
  Places,                \* the positions the robot is moved to
  Tasks,                 \* the tasks that are announced
  FightOutpostOnIsland,  \* parameter fight_outpost_on_island
  ResetInterval,         \* special_reset_interval_sec_
  Duration,              \* special_active_duration_sec_
  MaxLate,               \* bound: units between two runs of the timer
  Depth                  \* depth of a subscription's queue

TimesAssumption ==
  /\ Duration \in Nat \ {0} /\ ResetInterval \in Nat /\ ResetInterval > Duration
  /\ MaxLate \in Nat \ {0} /\ Depth \in Nat \ {0}
FightAssumption == FightOutpostOnIsland \in BOOLEAN /\ Tasks \subseteq Nat

VARIABLES
  place, pose,              \* where the robot is; whether tf knows
  rm_task_value_,           \* the last task heard
  sinceReset, sinceTrigger, \* time since special_last_reset_sec_, special_trigger_start_sec_, read while active
  inside,                   \* the areas whose latch is set
  special_area_has_triggered_,
  angle,                    \* the angle checkRobotPosition has yet to publish
  topic,                    \* queues of the driver's two subscriptions
  field                     \* the driver's last values

areaVars == <<sinceReset, sinceTrigger, inside, special_area_has_triggered_, angle>>
vars == <<place, pose, rm_task_value_, areaVars, topic, field>>

-----------------------------------------------------------------------------
Areas == {"first", "third", "special"}
AllPlaces == ({"in", "margin"} \X Areas) \cup {<<"out", "west">>, <<"out", "east">>}
PlacesAssumption == Places \subseteq AllPlaces /\ <<"out", "west">> \in Places

Status == 0 .. 3
Angles == {"plain", "plus90", "minus90", "plus10", "special"}

TypeOK ==
  /\ place \in Places /\ pose \in BOOLEAN /\ rm_task_value_ \in Tasks \cup {0}
  /\ sinceReset \in 0 .. ResetInterval /\ sinceTrigger \in 0 .. Duration
  /\ inside \subseteq {"first", "third", "special"}
  /\ special_area_has_triggered_ \in BOOLEAN
  /\ angle \in Angles \cup {"none"}
  /\ topic.status \in Seq(Status) /\ topic.angle \in Seq(Angles)
  /\ field.status \in Status /\ field.angle \in Angles

(* The nodes as they are constructed: the clock is far past the first reset. *)
Init ==
  /\ place = <<"out", "west">> /\ pose = TRUE
  /\ rm_task_value_ = 0
  /\ sinceReset = ResetInterval /\ sinceTrigger = Duration
  /\ inside = {} /\ special_area_has_triggered_ = FALSE
  /\ angle = "none"
  /\ topic = [status |-> <<>>, angle |-> <<>>]
  /\ field = [status |-> 0, angle |-> "plain"]

In(a) == place = <<"in", a>>
InLarge(a) == place \in {<<"in", a>>, <<"margin", a>>}
West == place \in {<<"out", "west">>} \cup {"in", "margin"} \X {"first", "special"}

KeepLast(q, m) == IF Len(q) < Depth THEN Append(q, m) ELSE Append(Tail(q), m)

-----------------------------------------------------------------------------
(* checkRobotPosition *)

(* The latches of the two rectangles. *)
Latched(a) == In(a) \/ (InLarge(a) /\ a \in inside)

(* A mutant: the special area fires whenever the robot stands in it. *)
Triggers_Always(triggered) == In("special")

(* The special area fires once until the next reset. *)
Triggers(triggered) == In("special") /\ ~triggered

(* The special area stays active until the robot has left or the time is up. *)
SpecialActive(triggers, since) ==
  /\ triggers \/ "special" \in inside
  /\ InLarge("special")
  /\ since < Duration

(* A task outranks the areas, and the special area the two rectangles. *)
AreaStatus(areas) ==
  LET special == rm_task_value_ = 4 \/ (~FightOutpostOnIsland /\ "special" \in areas)
      free == rm_task_value_ \notin {1, 2}
  IN  CASE rm_task_value_ = 2 -> 3
        [] rm_task_value_ = 1 -> 1
        [] free /\ special -> 2
        [] free /\ ~special /\ areas \cap {"first", "third"} # {} -> 1
        [] OTHER -> 0

AngleFor(status) ==
  CASE status = 3 -> IF West THEN "plus90" ELSE "minus90"
    [] status = 2 -> IF rm_task_value_ = 4 THEN "plus10" ELSE "special"
    [] status = 1 -> "plain"
    [] OTHER -> "none"

(* The timer's run as far as the status. The reset comes before the pose is *)
(* looked up; without a pose nothing else happens. *)
CheckRobotPosition ==
  /\ angle = "none"
  /\ \E dt \in 1 .. MaxLate :
       LET resets == sinceReset + dt >= ResetInterval
           triggered == special_area_has_triggered_ /\ ~resets
           triggers == Triggers(triggered)
           since == IF triggers THEN 0 ELSE Min({sinceTrigger + dt, Duration})
           areas == {a \in {"first", "third"} : Latched(a)}
                      \cup (IF SpecialActive(triggers, since) THEN {"special"} ELSE {})
           status == AreaStatus(areas)
       IN  /\ sinceReset' = IF resets THEN 0 ELSE sinceReset + dt
           /\ IF pose
              THEN /\ special_area_has_triggered_' = (triggered \/ triggers)
                   /\ sinceTrigger' = IF "special" \in areas THEN since ELSE Duration
                   /\ inside' = areas
                   /\ topic' = [topic EXCEPT !.status = KeepLast(@, status)]
                   /\ angle' = AngleFor(status)
              ELSE /\ special_area_has_triggered_' = triggered
                   /\ sinceTrigger' = Min({sinceTrigger + dt, Duration})
                   /\ UNCHANGED <<inside, topic, angle>>
  /\ UNCHANGED <<place, pose, rm_task_value_, field>>

(* Its last statement, on a topic of its own. *)
PublishAngle ==
  /\ angle # "none"
  /\ topic' = [topic EXCEPT !.angle = KeepLast(@, angle)]
  /\ angle' = "none"
  /\ UNCHANGED <<place, pose, rm_task_value_, sinceReset, sinceTrigger, inside,
                 special_area_has_triggered_, field>>

HearTask(t) ==
  /\ angle = "none"
  /\ rm_task_value_' = t
  /\ UNCHANGED <<place, pose, areaVars, topic, field>>

-----------------------------------------------------------------------------
(* The serial driver *)

(* areaStatusData and gimbalAngleData: the last message of a topic counts. *)
Receive(t) ==
  /\ topic[t] # <<>>
  /\ field' = [field EXCEPT ![t] = Head(topic[t])]
  /\ topic' = [topic EXCEPT ![t] = Tail(@)]
  /\ UNCHANGED <<place, pose, rm_task_value_, areaVars>>

(* The angle that sendData puts into a packet, with the area it reports: the *)
(* aiming node's outside the areas. *)
PacketAngle == IF field.status \in 1 .. 3 THEN field.angle ELSE "aim"

-----------------------------------------------------------------------------
(* The environment: the robot is moved, its pose gets lost and found. *)
Move(p) ==
  /\ place' = p
  /\ UNCHANGED <<pose, rm_task_value_, areaVars, topic, field>>

LosePose ==
  /\ pose
  /\ pose' = FALSE
  /\ UNCHANGED <<place, rm_task_value_, areaVars, topic, field>>

FindPose ==
  /\ ~pose
  /\ pose' = TRUE
  /\ UNCHANGED <<place, rm_task_value_, areaVars, topic, field>>

Next ==
  \/ CheckRobotPosition \/ PublishAngle
  \/ \E t \in Tasks : HearTask(t)
  \/ \E t \in {"status", "angle"} : Receive(t)
  \/ \E p \in Places : Move(p)
  \/ LosePose \/ FindPose

Spec == Init /\ [][Next]_vars

(* The timer runs on. *)
Fairness ==
  /\ SF_vars(CheckRobotPosition)
  /\ WF_vars(PublishAngle)

-----------------------------------------------------------------------------
(* The special area does not hold the robot in its mode: one that stays    *)
(* there is released when its time is up, although the reset, which follows *)
(* the clock and not the visit, lets the area fire again. *)
SpecialEnds == <>[]pose => []<>("special" \notin inside)
=============================================================================
