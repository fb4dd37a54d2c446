------------------------------- MODULE MCCostmap -------------------------------
(***************************************************************************)
(* The costmap's own layer, and the recovery behaviour that reads a map.   *)
(* The modules share no variable (for the recovery the map is that of the  *)
(* costmap service), so one run takes them in turn: part says which moves. *)
(***************************************************************************)
EXTENDS MCIntensityVoxelLayer

CONSTANTS Width, Height, Maps, NoMap, SampleSteps, Distance, TimeAllowance, DropAfter, MaxRequests

VARIABLES
  part,
  world, pos, vel, silence, service, requests, latest, in_flight, phase,
  init_pos, current, twist, has_dir, elapsed, result, chosen

Recovery == INSTANCE BackUpFreeSpace

ASSUME RecoveryAssumption == Recovery!BackUpAssumption

recoveryVars == <<world, pos, vel, silence, service, requests, latest, in_flight, phase,
                  init_pos, current, twist, has_dir, elapsed, result, chosen>>
layerVars == <<track, vars, vars2>>

(* A corridor of two rows: closed everywhere, or open at one end. *)
Corridor == (0 .. Width - 1) \X (0 .. Height - 1)
MCMaps == {Corridor, Corridor \ {<<Width - 1, 0>>}}

CostmapInit ==
  /\ part \in {"layer", "recovery"}
  /\ MCInit /\ Recovery!Init
  /\ part = "layer" => world = Corridor /\ pos = <<0, 0>>
  /\ part = "recovery" => track = "long" /\ robot = Cell(1)

CostmapNext ==
  /\ UNCHANGED part
  /\ \/ part = "layer" /\ MCNext /\ UNCHANGED recoveryVars
     \/ part = "recovery" /\ Recovery!Next /\ UNCHANGED layerVars

RecoveryTakes(A) == part = "recovery" /\ A

(* The behaviour and the clock run on, the service comes back and answers. *)
RecoveryFairness ==
  /\ WF_recoveryVars(RecoveryTakes(Recovery!TimeOut \/ Recovery!TakePose \/ Recovery!LosePose))
  /\ SF_recoveryVars(RecoveryTakes(Recovery!Cycle))
  /\ WF_recoveryVars(RecoveryTakes(Recovery!PassTime))
  /\ WF_recoveryVars(RecoveryTakes(Recovery!ServiceUp))
  /\ WF_recoveryVars(RecoveryTakes(Recovery!Answer))

CostmapSpec == CostmapInit /\ [][CostmapNext]_<<part, layerVars, recoveryVars>> /\ RecoveryFairness

(* A recovery run moves the robot a bounded way (BackUpFreeSpace). *)
TravelBounded == Recovery!TravelBounded

(* A recovery run ends (BackUpFreeSpace). *)
RunEnds == Recovery!RunEnds
=============================================================================
