------------------------ MODULE IntensityVoxelLayer ------------------------
(***************************************************************************)
(* The dynamic obstacle layer of the global costmap,                       *)
(* rm_perception/voxel_obstacle/src/intensity_voxel_layer.cpp.             *)
(*                                                                         *)
(* One step of Nav2's map update thread is one action: it holds the        *)
(* costmap mutex while the layer's updateBounds and updateCosts run, so a   *)
(* clear-costmap request never falls between the two.  What the callbacks  *)
(* of other threads write without that mutex (rm_task_, the acceleration    *)
(* atomics) is read by a cycle as an input; rm_task_ is loaded twice in     *)
(* one cycle and may change between the loads.                             *)
(*                                                                         *)
(* Abstractions: the grid is small, positions are cell centres, time is a   *)
(* number of ticks kept as ages with a cap, a frame is the set of cells    *)
(* that hold points passing the height and gradient tests, and the cluster *)
(* score accepts any subset of them.  The layer runs as configured for the  *)
(* global costmap: not rolling, /pass_enable and the voxel grid not         *)
(* published.                                                              *)
(***************************************************************************)
EXTENDS Integers, FiniteSets

CONSTANTS
    MapX, MapY,             \* cells are <<0..MapX, 0..MapY>>
    Base,                   \* costs written by the static layer below this one
    ForcedRects,            \* rectangles filled by updateForcedDynamicObstacleAreas
    ForcedArea,             \* isInForcedDynamicObstacleArea, larger than the rectangles
    ForcedClearTrigger,     \* robot cells of isInForcedAreaClearTriggerRegion
    DynamicClearTrigger,    \* robot cells of isInDynamicClearTriggerArea
    StaticRects,            \* static_obs, static_obs2
    StaticTrigger,          \* robot cells in the trigger or block region
    BoostArea,              \* the area where updateCosts adds 150
    RobotCells,             \* where the robot may be
    Tasks,                  \* values of rm_task_; only 1 and 2 matter here
    Frames,                 \* what the lidar may see in one cycle
    ObstacleExpandSize, ObstacleHoldTime, FarHoldTimeBonus,
    AdaptiveNearRange, AdaptiveFarRange,
    FootprintRadius,
    AccelHoldTime, AccelRadius,
    DisableDynamicMapOnTilt, UseStaticObstacleArea,
    EnableSuddenFilter, SuddenNearRadius, StableFreeDuration,
    MaxObservationGap, HistoryRetention, RisingCellThreshold

Cells == (0..MapX) \X (0..MapY)

FREE_SPACE == 0
LETHAL_OBSTACLE == 254
INSCRIBED_INFLATED_OBSTACLE == 253
NO_INFORMATION == 255
AdditionalCost == 150
Costs == 0..255

Rect == [x1 : Int, y1 : Int, x2 : Int, y2 : Int]

ASSUME GridAssumption == MapX \in Nat /\ MapY \in Nat
ASSUME BaseAssumption == Base \in [Cells -> Costs]
ASSUME RectAssumption == ForcedRects \subseteq Rect /\ StaticRects \subseteq Rect
ASSUME RegionAssumption ==
    /\ RobotCells \subseteq Cells
    /\ \A f \in Frames : f \subseteq Cells
ASSUME ParameterAssumption ==
    /\ ObstacleExpandSize \in Nat
    /\ ObstacleHoldTime \in Nat
    /\ FarHoldTimeBonus \in Nat
    /\ AccelHoldTime \in Nat
    /\ FootprintRadius \in Nat
    /\ DisableDynamicMapOnTilt \in BOOLEAN
    /\ UseStaticObstacleArea \in BOOLEAN
    /\ EnableSuddenFilter \in BOOLEAN
ASSUME SuddenAssumption ==
    /\ StableFreeDuration \in Nat
    /\ HistoryRetention \in Nat
    /\ RisingCellThreshold \in Nat \ {0}

VARIABLES
    enabled,        \* the dynamic parameter `enabled`
    master,         \* the master costmap
    active,         \* active_obstacle_cells_
    age,            \* ticks since last_hit_time of an active cell
    suppressed,     \* dynamic_map_suppressed_by_tilt_
    accelLeft,      \* ticks left of acceleration_suppression_until_sec_, -1: past
    history,        \* obstacle_cell_temporal_states_
    robot,          \* the robot's cell
    staticDirty,    \* has_updated_data_ of the static layer
    cycle,          \* what the last step was (auxiliary)
    lastFrame       \* the near frame dropped by the last cycle (auxiliary)

vars == <<enabled, master, active, age, suppressed, accelLeft, history, robot,
          staticDirty, cycle, lastFrame>>

\* "keep": between the two thresholds, or the transform is not available.
TiltReadings == {"level", "keep", "steep"}
EnabledCycles == {"clear_other", "tilted", "full"}

MaxAge == ObstacleHoldTime + FarHoldTimeBonus + 1
UnknownState == [occupied |-> FALSE, free |-> -1, seen |-> -1]
NoFrame == [dropped |-> FALSE, near |-> {}, ticked |-> FALSE]

TypeOK ==
    /\ enabled \in BOOLEAN
    /\ master \in [Cells -> Costs]
    /\ active \subseteq Cells
    /\ age \in [Cells -> 0..MaxAge]
    /\ suppressed \in BOOLEAN
    /\ accelLeft \in -1..AccelHoldTime
    /\ history \in [Cells -> [occupied : BOOLEAN,
                              free : -1..StableFreeDuration,
                              seen : -1..HistoryRetention + 1]]
    /\ robot \in RobotCells
    /\ staticDirty \in BOOLEAN
    /\ cycle \in EnabledCycles \cup {"disabled", "idle"}
    /\ lastFrame \in [dropped : BOOLEAN, near : SUBSET Cells, ticked : BOOLEAN]

----------------------------------------------------------------------------
(* Geometry.                                                               *)

DistSq(a, b) == (a[1] - b[1]) * (a[1] - b[1]) + (a[2] - b[2]) * (a[2] - b[2])

Square(c, r) ==
    {d \in Cells : /\ c[1] - r <= d[1] /\ d[1] <= c[1] + r
                   /\ c[2] - r <= d[2] /\ d[2] <= c[2] + r}

Expand(c) == Square(c, ObstacleExpandSize)
Expanded(S) == UNION {Expand(c) : c \in S}
Footprint(r) == Square(r, FootprintRadius)

\* touch() receives the two corners of what a helper marks or clears.
SquareCorners(c, r) == {<<c[1] - r, c[2] - r>>, <<c[1] + r, c[2] + r>>}
\* Mutant: the bounds miss the cells the mark spills onto.
ExpandCorners_CentreOnly(c) == SquareCorners(c, 0)

ExpandCorners(c) == SquareCorners(c, ObstacleExpandSize)
TouchCells(S) == UNION {ExpandCorners(c) : c \in S}

RectCells(r) == {c \in Cells : /\ r.x1 <= c[1] /\ c[1] <= r.x2
                               /\ r.y1 <= c[2] /\ c[2] <= r.y2}
RectCorners(r) == {<<r.x1, r.y1>>, <<r.x2, r.y2>>}
AllRectCells(R) == UNION {RectCells(r) : r \in R}
TouchRects(R) == UNION {RectCorners(r) : r \in R}

ForcedCells == AllRectCells(ForcedRects)
StaticCells == AllRectCells(StaticRects)

\* The bounds of a cycle: one box around every touched point.
Box(touched) ==
    {c \in Cells : /\ \E a \in touched : a[1] <= c[1]
                   /\ \E b \in touched : c[1] <= b[1]
                   /\ \E a \in touched : a[2] <= c[2]
                   /\ \E b \in touched : c[2] <= b[2]}

\* sqrt(d) <= AccelRadius + sqrt(2) * ObstacleExpandSize + 1/2, in integers.
InEffectiveClearRadius(c) ==
    LET width == 2 * AccelRadius + 1
        excess == 4 * DistSq(c, robot) - width * width
                    - 8 * ObstacleExpandSize * ObstacleExpandSize
        cross == ObstacleExpandSize * width
    IN  excess <= 0 \/ excess * excess <= 32 * cross * cross

\* Mutants: the ratio is not clamped at the far range; the comparison is >=.
Expired_Unclamped(a, c) ==
    LET over == a - ObstacleHoldTime
        reach == over * (AdaptiveFarRange - AdaptiveNearRange)
                    + FarHoldTimeBonus * AdaptiveNearRange
    IN  over > 0 /\ reach * reach > FarHoldTimeBonus * FarHoldTimeBonus * DistSq(c, robot)
Expired_TooEarly(a, c) == a >= ObstacleHoldTime

\* obstacle_hold_time_for_range: the hold time grows by FarHoldTimeBonus
\* between the two ranges.
Expired(a, c) ==
    LET over == a - ObstacleHoldTime
        reach == over * (AdaptiveFarRange - AdaptiveNearRange)
                    + FarHoldTimeBonus * AdaptiveNearRange
    IN  /\ over > 0
        /\ \/ over > FarHoldTimeBonus
           \/ reach * reach > FarHoldTimeBonus * FarHoldTimeBonus * DistSq(c, robot)

----------------------------------------------------------------------------
(* The master costmap.                                                     *)

MaxCombine(old, layer) ==
    IF layer # NO_INFORMATION /\ (old = NO_INFORMATION \/ old < layer)
    THEN layer ELSE old

Boost(c, old) ==
    IF c \in BoostArea /\ old < INSCRIBED_INFLATED_OBSTACLE
    THEN IF old + AdditionalCost < INSCRIBED_INFLATED_OBSTACLE
         THEN old + AdditionalCost ELSE INSCRIBED_INFLATED_OBSTACLE - 1
    ELSE old

LayerCost(c, marked, cleared) ==
    IF c \in cleared THEN FREE_SPACE
    ELSE IF c \in marked THEN LETHAL_OBSTACLE ELSE NO_INFORMATION

\* LayeredCostmap::updateMap resets the bounds and lets the layers write them
\* again; the static layer asks for the whole map when it has new data.
UpdateMap(touched, marked, cleared) ==
    /\ \E points \in {touched}, marks \in {marked}, clears \in {cleared} :
       \E bounds \in {IF staticDirty THEN Cells ELSE Box(points)} :
          master' = [c \in Cells |->
              IF c \in bounds
              THEN Boost(c, MaxCombine(Base[c], LayerCost(c, marks, clears)))
              ELSE master[c]]
    /\ staticDirty' = FALSE

----------------------------------------------------------------------------
(* Pieces of updateBounds.                                                 *)

TiltState(tilt) ==
    /\ DisableDynamicMapOnTilt
    /\ tilt = "steep" \/ (tilt # "level" /\ suppressed)

StaticMarks(task) ==
    IF UseStaticObstacleArea /\ robot \in StaticTrigger /\ task # 2
    THEN StaticCells ELSE {}

StaticTouched ==
    IF UseStaticObstacleArea /\ robot \in StaticTrigger
    THEN TouchRects(StaticRects) ELSE {}

ClearForced(task) == task = 1 \/ robot \in ForcedClearTrigger

\* Mutant: the area opens for the task only, not for the robot's position.
ForcedMarks_TaskOnly(task) == IF task = 1 THEN {} ELSE ForcedCells

ForcedMarks(task) == IF ClearForced(task) THEN {} ELSE ForcedCells

ClearOther(task) == task # 1 /\ (task = 2 \/ robot \in DynamicClearTrigger)

\* Mutant: the tilt stops perception but forgets nothing.
AfterTilt_Keep(tilt) == active

\* What is left of the history after the tilt and the forced-area clears.
AfterTilt(tilt) == IF TiltState(tilt) /\ ~suppressed THEN {} ELSE active
AfterForced(task, tilt) ==
    IF ClearForced(task) THEN AfterTilt(tilt) \ ForcedArea ELSE AfterTilt(tilt)

\* Touches made by every enabled cycle: static areas, forced rectangles,
\* footprint, and the cells that leave or re-enter the costmap.
Touched(moved) ==
    StaticTouched \cup TouchRects(ForcedRects)
        \cup SquareCorners(robot, FootprintRadius) \cup TouchCells(moved)

SuppressUntil(triggered) == IF triggered THEN AccelHoldTime ELSE accelLeft

KeepAges(cells, hits) ==
    [c \in Cells |-> IF c \in cells \ hits THEN age[c] ELSE 0]

NoHistory == [c \in Cells |-> UnknownState]

----------------------------------------------------------------------------
(* The sudden obstacle filter.                                             *)

Near(c) == DistSq(c, robot) <= SuddenNearRadius * SuddenNearRadius

Pruned(h) == IF h.seen > HistoryRetention THEN UnknownState ELSE h

Rising(near) ==
    {c \in near : LET h == Pruned(history[c])
                  IN  /\ h.seen \in 0..MaxObservationGap
                      /\ ~h.occupied
                      /\ h.free >= StableFreeDuration}

DropFrame(near) ==
    EnableSuddenFilter /\ Cardinality(Rising(near)) >= RisingCellThreshold

Observed(h, occupied) ==
    [occupied |-> occupied,
     free |-> IF occupied THEN -1
              ELSE IF h.occupied \/ h.free < 0 THEN 0 ELSE h.free,
     seen |-> 0]

FilteredHistory(near) ==
    [c \in Cells |->
        IF ~EnableSuddenFilter THEN history[c]
        ELSE IF Near(c)
        THEN Observed(Pruned(history[c]), ~DropFrame(near) /\ c \in near)
        ELSE Pruned(history[c])]

----------------------------------------------------------------------------
Init ==
    /\ enabled = TRUE
    /\ master = [c \in Cells |-> NO_INFORMATION]
    /\ active = {}
    /\ age = [c \in Cells |-> 0]
    /\ suppressed = FALSE
    /\ accelLeft = -1
    /\ history = NoHistory
    /\ robot \in RobotCells
    /\ staticDirty = TRUE
    /\ cycle = "idle"
    /\ lastFrame = NoFrame

\* The layer is disabled: nothing is touched and nothing ages out.
DisabledCycle ==
    /\ ~enabled
    /\ UpdateMap({}, {}, {})
    /\ cycle' = "disabled"
    /\ UNCHANGED <<enabled, active, age, suppressed, accelLeft, history, robot,
                   lastFrame>>

\* Everything outside the forced areas is dropped; the forced areas keep
\* their history but it is neither aged nor marked in this cycle.
ClearOtherCycle ==
    \E t1, t2 \in Tasks, tilt \in TiltReadings :
        /\ enabled
        /\ ClearOther(t2)
        /\ active' = AfterForced(t2, tilt) \cap ForcedArea
        /\ age' = KeepAges(active', {})
        /\ suppressed' = TiltState(tilt)
        /\ history' = NoHistory
        /\ UpdateMap(Touched(active \ active'),
                     StaticMarks(t1) \cup ForcedMarks(t2), Footprint(robot))
        /\ cycle' = "clear_other"
        /\ lastFrame' = NoFrame
        /\ UNCHANGED <<enabled, accelLeft, robot>>

\* The robot is tilted: the cycle ends before the lidar frame is read.
TiltedCycle ==
    \E t1, t2 \in Tasks, tilt \in TiltReadings :
        /\ enabled
        /\ ~ClearOther(t2)
        /\ TiltState(tilt)
        /\ active' = AfterForced(t2, tilt)
        /\ age' = KeepAges(active', {})
        /\ suppressed' = TRUE
        /\ history' = IF suppressed THEN history ELSE NoHistory
        /\ UpdateMap(Touched(active \ active'),
                     StaticMarks(t1) \cup ForcedMarks(t2), Footprint(robot))
        /\ cycle' = "tilted"
        /\ lastFrame' = NoFrame
        /\ UNCHANGED <<enabled, accelLeft, robot>>

\* Candidate points of the frame that the cycle does not skip.
Candidates(frame, task, suppressNear) ==
    {c \in frame : /\ ~(ClearForced(task) /\ c \in ForcedArea)
                   /\ ~(suppressNear /\ DistSq(c, robot) <= AccelRadius * AccelRadius)}

\* The effect of an accepted set of cells on the history and the costmap.
MergeAndMark(accepted, t1, t2, suppressNear) ==
    \E near \in {{c \in accepted : Near(c)}},
       masked \in {IF suppressNear
                   THEN {c \in Cells : InEffectiveClearRadius(c)} ELSE {}} :
    \E hits \in {(IF DropFrame(near) THEN {} ELSE accepted) \ masked} :
    \E known \in {(AfterForced(t2, "level") \ masked) \cup hits} :
    \E ages \in {KeepAges(known, hits)} :
    \E expired \in {{c \in known : Expired(ages[c], c)}} :
        /\ active' = known \ expired
        /\ age' = KeepAges(active', hits)
        /\ history' = FilteredHistory(near)
        /\ lastFrame' = [dropped |-> DropFrame(near),
                         near |-> IF DropFrame(near) THEN near ELSE {},
                         ticked |-> FALSE]
        /\ UpdateMap(Touched((active \ active') \cup active' \cup expired),
                     StaticMarks(t1) \cup ForcedMarks(t2) \cup Expanded(active'),
                     Footprint(robot))

\* The normal cycle: read the frame, filter, merge, expire, mark.
FullCycle ==
    \E t1, t2 \in Tasks, triggered \in BOOLEAN, frame \in Frames :
        /\ enabled
        /\ ~ClearOther(t2)
        /\ \E tilt \in TiltReadings : ~TiltState(tilt)
        /\ suppressed' = FALSE
        /\ accelLeft' = SuppressUntil(triggered)
        /\ \E accepted \in SUBSET Candidates(frame, t2, accelLeft' >= 0) :
              MergeAndMark(accepted, t1, t2, accelLeft' >= 0)
        /\ cycle' = "full"
        /\ UNCHANGED <<enabled, robot>>

\* Nav2's ClearEntireCostmap: the master is reset and every layer is reset.
Reset ==
    /\ master' = [c \in Cells |-> NO_INFORMATION]
    /\ staticDirty' = TRUE
    /\ active' = {}
    /\ age' = [c \in Cells |-> 0]
    /\ history' = NoHistory
    /\ accelLeft' = -1
    /\ cycle' = "idle"
    /\ lastFrame' = NoFrame
    /\ UNCHANGED <<enabled, suppressed, robot>>

\* LayeredCostmap::resizeMap: a new master, and matchSize of every layer.
MatchSize ==
    /\ master' = [c \in Cells |-> NO_INFORMATION]
    /\ staticDirty' = TRUE
    /\ active' = {}
    /\ age' = [c \in Cells |-> 0]
    /\ history' = NoHistory
    /\ cycle' = "idle"
    /\ lastFrame' = NoFrame
    /\ UNCHANGED <<enabled, suppressed, accelLeft, robot>>

SetEnabled ==
    /\ enabled' = ~enabled
    /\ cycle' = "idle"
    /\ UNCHANGED <<master, active, age, suppressed, accelLeft, history, robot,
                   staticDirty, lastFrame>>

MoveRobot ==
    /\ robot' \in RobotCells
    /\ cycle' = "idle"
    /\ lastFrame' = NoFrame
    /\ UNCHANGED <<enabled, master, active, age, suppressed, accelLeft, history,
                   staticDirty>>

Older(v, cap) == IF v < cap THEN v + 1 ELSE v

Tick ==
    /\ age' = [c \in Cells |-> IF c \in active THEN Older(age[c], MaxAge) ELSE 0]
    /\ accelLeft' = IF accelLeft >= 0 THEN accelLeft - 1 ELSE -1
    /\ history' = [c \in Cells |->
          [history[c] EXCEPT
              !.free = IF @ >= 0 THEN Older(@, StableFreeDuration) ELSE @,
              !.seen = IF @ >= 0 THEN Older(@, HistoryRetention + 1) ELSE @]]
    /\ cycle' = "idle"
    /\ lastFrame' = [lastFrame EXCEPT !.ticked = lastFrame.dropped]
    /\ UNCHANGED <<enabled, master, active, suppressed, robot, staticDirty>>

Next ==
    \/ DisabledCycle
    \/ ClearOtherCycle
    \/ TiltedCycle
    \/ FullCycle
    \/ Reset
    \/ MatchSize
    \/ SetEnabled
    \/ MoveRobot
    \/ Tick

Spec == Init /\ [][Next]_vars

----------------------------------------------------------------------------
(* Properties.                                                             *)

Lethal == {c \in Cells : master[c] = LETHAL_OBSTACLE}
StaticMapLethal == {c \in Cells : Base[c] = LETHAL_OBSTACLE}
Configured == StaticMapLethal \cup ForcedCells \cup StaticCells

\* No ghost obstacle: a lethal cell of the master costmap that is not part of
\* the static map or of a configured area belongs to an obstacle the layer
\* still remembers, so every way an obstacle is forgotten (expiry, tilt,
\* acceleration, task and region clears, clear-costmap) also touches its cells
\* so that the master is rewritten there.
NoGhostObstacle == Lethal \subseteq Configured \cup Expanded(active)

\* While the layer is suppressed by tilt, no dynamic obstacle is left in the
\* master costmap, in whichever cycle the suppression began (updateBounds
\* 500-506, 573-579).
NoDynamicObstacleWhileTilted == suppressed => Lethal \subseteq Configured

\* An obstacle no longer seen is gone once its hold time and the far bonus are
\* over: a full cycle leaves only marks of cells hit within that time, even
\* after clear-other cycles that did not age them.
NoStaleObstacle ==
    cycle = "full" =>
        \A c \in Lethal \ Configured :
            \E a \in active : /\ c \in Expand(a)
                              /\ age[a] <= ObstacleHoldTime + FarHoldTimeBonus

\* The areas follow the robot, whatever rm_task says: where it stands in the
\* entry region of a forced area, the area is open in the master after any
\* enabled cycle, but for marks grown from obstacles outside; and a static_obs
\* area does not outlive its stay in the region that asked for it.
AreasFollowRobot ==
    cycle \in EnabledCycles =>
        /\ robot \in ForcedClearTrigger =>
              ForcedArea \cap Lethal \subseteq
                  StaticMapLethal \cup StaticCells \cup Expanded(active \ ForcedArea)
        /\ robot \notin StaticTrigger =>
              StaticCells \cap Lethal \subseteq
                  StaticMapLethal \cup ForcedCells \cup Expanded(active)

\* An obstacle hit is kept for the whole hold time: between cycles that clear
\* on purpose (tilt, acceleration, clear-other, forced area, reset) a frame
\* that misses it, or one dropped by the sudden filter, does not remove it.
HeldForHoldTime ==
    [][\A c \in active \ active' :
          \/ cycle' # "full"
          \/ age[c] > ObstacleHoldTime
          \/ accelLeft' >= 0 /\ InEffectiveClearRadius(c)
          \/ c \in ForcedArea]_vars

\* The documentation calls the filter a suppression of a single frame: a
\* burst that is still there in a later frame, the robot standing still, is not
\* dropped again.
SuddenDropIsSingleFrame ==
    [][lastFrame.ticked /\ lastFrame'.dropped /\ cycle' = "full"
          => lastFrame'.near # lastFrame.near]_vars
=============================================================================
