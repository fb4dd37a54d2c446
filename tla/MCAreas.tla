------------------------------- MODULE MCAreas -------------------------------
(***************************************************************************)
(* special_area, the static layer and the serial driver. What they say to  *)
(* each other is inside the four modules; the modules themselves share     *)
(* nothing, so one run takes them in turn: turn says which one moves.      *)
(***************************************************************************)
EXTENDS RescueCommand

CONSTANTS Places, Tasks, FightOutpostOnIsland, ResetInterval, Duration, MaxLate, Cells

VARIABLES
  turn,
  place, pose, rm_task_value_, sinceReset, sinceTrigger, inside,
  special_area_has_triggered_, angle, areaTopic, field,
  flag, callback, has_updated_data_, current_, phase, bounds, between, open, crossed,
  device, silent, serialPort, pc, published, ok, exited,
  nav_enable, aim_force_nav_enable_, force_nav_enable_

Special == INSTANCE SpecialArea WITH topic <- areaTopic, Depth <- 1
Static == INSTANCE StaticXxLayer
Serial == INSTANCE SerialPort WITH port <- serialPort

ASSUME MCAssumption == Special!TimesAssumption /\ Special!FightAssumption /\ Special!PlacesAssumption

specialVars == <<place, pose, rm_task_value_, sinceReset, sinceTrigger, inside,
                 special_area_has_triggered_, angle, areaTopic, field>>
staticVars == <<flag, callback, has_updated_data_, current_, phase, bounds, between, open, crossed>>
serialVars == <<device, silent, serialPort, pc, published, ok, exited,
                nav_enable, aim_force_nav_enable_, force_nav_enable_>>

MCPlaces == {<<"out", "west">>, <<"in", "third">>, <<"in", "special">>, <<"margin", "special">>}

MCInit ==
  /\ turn \in {"rescue", "special", "static", "serial"}
  /\ Init /\ Special!Init /\ Static!Init /\ Serial!Init
  /\ turn # "serial" => ~exited

allVars == <<turn, vars, specialVars, staticVars, serialVars>>

MCNext ==
  /\ UNCHANGED turn
  /\ \/ turn = "rescue" /\ Next /\ UNCHANGED <<specialVars, staticVars, serialVars>>
     \/ turn = "special" /\ Special!Next /\ UNCHANGED <<vars, staticVars, serialVars>>
     \/ turn = "static" /\ Static!Next /\ UNCHANGED <<vars, specialVars, serialVars>>
     \/ turn = "serial" /\ Serial!Next /\ UNCHANGED <<vars, specialVars, staticVars>>

MCFairness ==
  \/ turn = "rescue" /\ Fairness
  \/ turn = "special" /\ Special!Fairness
  \/ turn = "static"
  \/ turn = "serial" /\ Serial!Fairness

MCSpec == MCInit /\ [][MCNext]_allVars /\ MCFairness

(* A robot that stays in the special area is released (SpecialArea). *)
SpecialEnds == Special!SpecialEnds

(* The drawn area is that of the last flags (StaticXxLayer). *)
AreaFollowsFlags == Static!AreaFollowsFlags

(* The port is open when both threads have left it (SerialPort). *)
PortOpenAtRest == Serial!PortOpenAtRest

(* The node ends when it is told to, unless the board falls silent (SerialPort). *)
ShutdownCompletes == Serial!ShutdownCompletes
=============================================================================
