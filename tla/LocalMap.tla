------------------------------- MODULE LocalMap -------------------------------
(***************************************************************************)
(* The map of the odometry (laserMapping.cpp): filled with the first       *)
(* scans, then extended by MapIncremental after each scan.  A voxel that   *)
(* is not in the map yet is pending until it comes up in a second call.    *)
(* Nothing makes a pending voxel expire (pending_expire_frames is not      *)
(* used).                                                                  *)
(*                                                                         *)
(* The points of a scan are put into feats_down_world when the filter      *)
(* looks for their neighbours (h_model_output), whether they match or not, *)
(* but a scan with too few points is not given to the filter: the array,   *)
(* which is only resized, keeps what it held.                              *)
(***************************************************************************)
EXTENDS Integers, Sequences

CONSTANTS
  Voxels,       \* keys of makePendingKey, distinct within 100 m
  Origin,       \* the voxel of a point that was never set
  InitMapSize,  \* init_map_size
  LeastValid,   \* least_valid_point_num
  LeastMapped,  \* scans with more points extend the map
  MaxSize,      \* bound: points of a scan
  MaxScans      \* bound: scans

LocalMapAssumption ==
  /\ Origin \in Voxels
  /\ {InitMapSize, LeastValid, LeastMapped, MaxSize, MaxScans} \subseteq Nat

VARIABLES
  init_feats, \* init_feats_world
  init_map,
  world,      \* feats_down_world: the voxels of its points
  map,        \* ivox_
  pending,    \* pending_voxels; all have hit_count 1
  scan,       \* number of the scan
  hits,       \* history: the scans that hit a voxel
  confirmed   \* history: hits of the voxels MapIncremental added last

vars == <<init_feats, init_map, world, map, pending, scan, hits, confirmed>>

Init ==
  /\ init_feats = <<>> /\ init_map = FALSE
  /\ world = <<>> /\ map = {} /\ pending = {}
  /\ scan = 0 /\ hits = [v \in Voxels |-> {}] /\ confirmed = [v \in {} |-> {}]

-----------------------------------------------------------------------------
Scans == UNION {[1 .. n -> Voxels] : n \in 0 .. MaxSize}

Times(points, v) == {i \in DOMAIN points : points[i] = v}

(* The array after resize: cut, or filled up with points that are 0. *)
Resized(points, size) == [i \in 1 .. size |-> IF i <= Len(points) THEN points[i] ELSE Origin]

(* A mutant: points of one call confirm each other. *)
Confirms_SameFrame(needed, v) == needed[v] # {} /\ (v \in pending \/ \E i, j \in needed[v] : i # j)

(* A point in a pending voxel confirms it unless the voxel became pending  *)
(* in this call. *)
Confirms(needed, v) == needed[v] # {} /\ v \in pending

(* What is pending after the call: the second point of a voxel that the    *)
(* first confirmed makes it pending again. *)
Pending(needed, v) ==
  IF needed[v] = {} THEN v \in pending
  ELSE v \in pending => \E i, j \in needed[v] : i # j

(* MapIncremental for the points of each voxel that no neighbour in the map *)
(* makes needless. *)
MapIncremental(needed) ==
  \E added \in {{v \in Voxels : Confirms(needed, v)}} :
    /\ map' = map \cup added
    /\ pending' = {v \in Voxels : Pending(needed, v)}
    /\ confirmed' = [v \in added |-> hits'[v]]

(* The scans that have hit a voxel. *)
Observe(points, number) ==
  hits' = [v \in Voxels |-> IF Times(points, v) = {} THEN hits[v] ELSE hits[v] \cup {number}]

(* A scan before there is a map: its points are collected. *)
InitScan(points) ==
  /\ ~init_map /\ scan < MaxScans
  /\ scan' = scan + 1
  /\ world' = points
  /\ Observe(points, scan')
  /\ LET collected == init_feats \o points IN
     IF Len(collected) >= InitMapSize
     THEN /\ init_map' = TRUE /\ init_feats' = <<>>
          /\ map' = {collected[i] : i \in DOMAIN collected}
     ELSE /\ init_feats' = collected
          /\ UNCHANGED <<init_map, map>>
  /\ UNCHANGED <<pending, confirmed>>

(* The points of the voxels that need one. *)
Needed(points, wanted) == [v \in Voxels |-> IF v \in wanted THEN Times(points, v) ELSE {}]

(* What the array holds after a scan: its points, or what is left in it    *)
(* where the filter did not run.                                           *)
Transformed(points) == IF Len(points) >= LeastValid THEN points ELSE Resized(world, Len(points))

(* A scan after that. *)
Scan(points, wanted) ==
  /\ init_map /\ scan < MaxScans
  /\ scan' = scan + 1
  /\ Observe(points, scan')
  /\ world' = Transformed(points)
  /\ IF Len(points) > LeastMapped
     THEN MapIncremental(Needed(world', wanted))
     ELSE UNCHANGED <<map, pending, confirmed>>
  /\ UNCHANGED <<init_feats, init_map>>

Next ==
  \E points \in Scans :
    \/ InitScan(points)
    \/ \E wanted \in SUBSET Voxels : Voxels \ map \subseteq wanted /\ Scan(points, wanted)

-----------------------------------------------------------------------------
(* "New points are written to the map only after repeated observation in   *)
(* several frames" (docs/technical_document.md, 2.1): a voxel that         *)
(* MapIncremental adds was hit by two scans. *)
ConfirmedByTwoScans == \A v \in DOMAIN confirmed : \E s, t \in confirmed[v] : s # t
=============================================================================
