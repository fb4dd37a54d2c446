----------------------- MODULE MCIntensityVoxelLayer -----------------------
(***************************************************************************)
(* A small track for IntensityVoxelLayer: two forced rectangles near the   *)
(* ends, as the two rough passages of the field, with cells of the field   *)
(* beyond the box that spans them.  A second, shorter track runs the layer  *)
(* with the sudden obstacle filter on; track says which of them moves.     *)
(***************************************************************************)
EXTENDS IntensityVoxelLayer

Cell(x) == <<x, 0>>
Strip(x1, x2) == [x1 |-> x1, y1 |-> 0, x2 |-> x2, y2 |-> 0]

MCBase == [c \in Cells |-> CASE c = Cell(0) -> 254
                             [] c = Cell(2) -> 255
                             [] OTHER -> 0]
MCForcedRects == {Strip(1, 1), Strip(4, 4)}
MCForcedArea == {Cell(1), Cell(4), Cell(5)}
MCForcedClearTrigger == {Cell(4)}
MCDynamicClearTrigger == {Cell(3), Cell(4)}
MCStaticRects == {Strip(2, 2)}
MCStaticTrigger == {Cell(1), Cell(2)}
MCBoostArea == {Cell(3), Cell(6)}
MCRobotCells == {Cell(1), Cell(3), Cell(4), Cell(6)}
MCFrames == {{}, {Cell(3), Cell(5)}, {Cell(6)}}
MCBurstRobot == {Cell(1), Cell(3)}
MCBurstFrames == {{}, {Cell(3)}, {Cell(2), Cell(3)}}
-----------------------------------------------------------------------------
(* The second track. *)
CONSTANT Tracks
VARIABLES track, enabled2, master2, active2, age2, suppressed2, accelLeft2, history2, robot2,
          staticDirty2, cycle2, lastFrame2

MCShortBase == [c \in (0 .. 4) \X {0} |-> MCBase[c]]

Burst == INSTANCE IntensityVoxelLayer WITH
  MapX <- 4, RobotCells <- MCBurstRobot, Tasks <- {0, 1}, Frames <- MCBurstFrames,
  ObstacleExpandSize <- 0, EnableSuddenFilter <- TRUE, StableFreeDuration <- 1,
  HistoryRetention <- 2, Base <- MCShortBase,
  enabled <- enabled2, master <- master2, active <- active2, age <- age2,
  suppressed <- suppressed2, accelLeft <- accelLeft2, history <- history2, robot <- robot2,
  staticDirty <- staticDirty2, cycle <- cycle2, lastFrame <- lastFrame2

vars2 == <<enabled2, master2, active2, age2, suppressed2, accelLeft2, history2, robot2,
           staticDirty2, cycle2, lastFrame2>>

MCInit ==
  /\ track \in Tracks
  /\ Init /\ Burst!Init
  /\ track = "long" => robot2 = Cell(1)
  /\ track = "burst" => robot = Cell(1)

MCNext ==
  /\ UNCHANGED track
  /\ \/ track = "long" /\ Next /\ UNCHANGED vars2
     \/ track = "burst" /\ Burst!Next /\ UNCHANGED vars

MCSpec == MCInit /\ [][MCNext]_<<track, vars, vars2>>

(* On the second track: an obstacle that is missed, or whose frame is dropped, *)
(* is kept for its hold time.                                                  *)
HeldInBurst == Burst!HeldForHoldTime

(* On the second track: a burst is dropped in one frame only. *)
BurstDropIsSingleFrame == Burst!SuddenDropIsSingleFrame
=============================================================================
