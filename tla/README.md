# Formal models of the sentry navigation stack

TLA+ models of the navigation software of a RoboMaster sentry robot (ROS 2 Humble, Nav2, C++), checked with
TLC, and theorems about them proved with TLAPS. Paths are relative to the repository root; the ROS packages
live under `src/`.

## 1. The system

Each node is a process of its own (`bringup` starts nothing composed and nothing respawned). Nodes talk over
ROS topics; Nav2 plugins (costmap layers, planner, controller, behaviour) run inside Nav2's servers.

| component | source | state it keeps | operations | hard behaviour |
|---|---|---|---|---|
| Livox driver | `rm_hardware_driver/livox_ros_driver2_humble` | device table, one ring queue per lidar, semaphores, the set of configuration requests still open | SDK callbacks, queue push/pop, publish threads, parameter handshake | producer and consumer threads, lost wake-ups, full queue, shutdown, answers that never come |
| lidar_output | `rm_hardware_driver/lidar_output` | clock offset, last stamp | merge of two lidars, self-occlusion filter, time rebase | one bad first pair poisons the clock |
| Point-LIO | `rm_localization/point_lio` | cloud/IMU buffers, filter times, map with pending voxels | `livox_pcl_cbk`, `imu_cbk`, `sync_packages`, main loop, `MapIncremental` | pairing a scan with its IMU window, time running backwards, arrays that keep old points |
| small_gicp relocalization | `rm_localization/small_gicp_relocalization` | accumulated cloud, attempt/done/failed flags | cloud callback, registration timer, TF timer | timers against callbacks, limits against a map that is not loaded yet |
| map_save | `rm_localization/map_save` | `save_id` | periodic save request | failure and retry |
| theta_star_planner | `rm_navigation/theta_star_planner` | last path, last goal | `createPlan`, reuse, search, start and goal relocation | a path kept after the costmap changed, oscillation |
| omni PID pursuit controller | `rm_navigation/rps_omni_controller` | local path, remembered corners, filtered curvature, previous command, mode, MPC problem | plugin life cycle, `setPlan`, `computeVelocityCommands`, parameter callback | stale `rm_task`, mode switching at run time, choices that must not alternate |
| fake_vel_transform | `rm_navigation/fake_vel_transform` | last command, last odometry, limiter | two callbacks, 20 ms timer | watchdog of the command chain |
| move_to_free | `rm_navigation/move_to_free` | cached costmap, in-flight request, direction | `onRun`, `onCycleUpdate`, costmap request | stale asynchronous answers, retries |
| voxel_obstacle | `rm_perception/voxel_obstacle` | remembered obstacle cells, suppression, temporal states | `updateBounds`, `updateCosts`, `reset`, `matchSize` | forgetting without rewriting the master costmap |
| static_xx_layer | `rm_perception/static_xx_layer` | task, fortress flag | two callbacks, `updateCosts` | callback thread against map thread |
| special_area | `rm_perception/special_area` | area latches, ten-minute timer, rescue status | 200 ms and 250 ms timers | rescue mode that is not switched off |
| terrain, pointcloud_frame_trans, pc2scan, omni_perception | `rm_perception/*` | voxel windows, static transforms | point cloud processing | time decay, subscription on demand |
| serial driver | `rm_port/rm_serial_driver-main` | last value of every input, port | receive thread, 10 ms send timer, 50 ms area timer | two threads reopen one port, no watchdog |

How they interact: lidar -> Point-LIO -> odometry and clouds -> costmap layers -> planner -> controller ->
velocity smoother -> `fake_vel_transform` -> serial driver -> chassis board. The board sends the referee
state back; the decision node turns it into `/rm_task` and goals, which the layers, the planner and the
controller read with no ordering between them. `special_area` and the serial driver form a bypass that
drives the robot out of an obstacle by itself.

What makes each component correct, in one line: the costmap forgets nothing it shows and shows nothing it
forgot; a queue delivers in order and its consumer is never left asleep over data; the chassis stops when
its command source does; a recovery that ends leaves the robot stopped; a reused path is safe in the present
costmap; a relocalization that starts ends in a published transform.

## 2. Modules and runs

A module models one component or one concern of it. Modules that share no variable take each other's output as input
(any path, any cloud, any task), so one `MC*` module composes several and lets them move in turn: the states of a
run are those of one part at a time, and each part has its properties. Within a module the threads, callbacks and
messages of the component interleave. `*_proof` modules hold theorems only. Mutated forms of a definition (`X_Something`,
marked as such) are never used by a specification: each is a plausible bug, and putting it in place of `X` breaks a property.

| run | module | parts |
|---|---|---|
| `Costmap` | `MCCostmap` | `IntensityVoxelLayer` on two tracks (`MCIntensityVoxelLayer`), `BackUpFreeSpace` |
| `VoxelSudden` | `MCIntensityVoxelLayer` | `IntensityVoxelLayer` |
| `LdsQueue` | `MCLdsQueue` | `LdsQueue` with one lidar whose packets differ or with two whose packets are all alike, `PacketChannel` |
| `Sensing`, `PointTimes`, `SparseScans` | `MCSensing` | `LivoxConfig`, `PubHandler`, `Lddc`, `LidarMerge`, `PointLio`, `LocalMap`, `Relocalization` |
| `GlobalPlanner`, `PlannerAreas` | `MCGlobalPlanner` | `ThetaStar` with `BinaryHeap`, `ThetaStarPlanner` |
| `Motion` | `MCMotion` | `LocalPath`, `PathSmoothing`, `CurvatureLimit`, `RmTask`, `Mpc`, `OmniPidPursuit`, `FakeVelTransform` |
| `ControllerSwitch` | `MCOmniPidPursuit` | `OmniPidPursuit` |
| `Areas` | `MCAreas` | `SpecialArea`, `StaticXxLayer`, `SerialPort`, `RescueCommand` |
| `BackUpDirection` | `MCBackUpFreeSpace` | `BackUpFreeSpace` |

### IntensityVoxelLayer (`voxel_obstacle/src/intensity_voxel_layer.cpp`)

State: the master costmap, the remembered obstacles (`active_obstacle_cells_` with the age of the last hit),
the tilt suppression, the acceleration suppression and the temporal states of the sudden obstacle filter.
One action per cycle of Nav2's map update thread, which holds the costmap mutex from `updateBounds` to
`updateCosts`: `DisabledCycle`, `ClearOtherCycle`, `TiltedCycle` and `FullCycle` are the four ways through
`updateBounds`; each includes the marks, the touched bounds, the write into the master and the additional cost.
`Reset` and `MatchSize` are Nav2's calls, `SetEnabled`, `MoveRobot` and `Tick` the environment. `rm_task_` is
loaded twice in a cycle, so a cycle takes two values of it.
Abstracted: the cluster score (any subset of the candidates may be accepted), the odometry filter (a trigger),
points (cells), costs are the real 0..255. Only the global costmap's configuration is modelled: not rolling.

`Costmap` (the layer on one row of seven cells, two forced areas, a static area, a boosted area, every way through the
layer) shows that master and memory agree: no lethal cell without a remembered or configured source, none left
by a tilt, none older than its hold time, and areas that open and close with the robot. One row is enough because
every mark, touch and box is a product of intervals. On a second, shorter row the sudden obstacle filter is
on, and an obstacle that is missed for some frames is not removed before its hold time. `VoxelSudden` is the
disagreement of section 4.

### LdsQueue and PacketChannel (Livox driver: `lds.cpp`, `comm/ldq.cpp`, `comm/semaphore.cpp`, `lddc.cpp`, `driver_node.cpp`)

State: a ring per lidar (free-running read and write index, slots), the count of the semaphore, the program
counter of the pushing thread and of the poll thread, the exit request. `Push`, `Finish` and `StoreVisible` are the
steps of `PushLidarData`; `PollThread` those of `DistributePointCloudData`, of the scan and of one pop, including the
unlocked test and the copy out of the slot. Index arithmetic is modulo `IndexModulus`, standing for 2^32, so the
wrap-around happens in a run. `wr_idx` is volatile and not atomic: on x86 its store may stay in the store buffer, so
it becomes visible in an action of its own. `PacketChannel` is the promise: bounded first-in first-out channels.

The run has two kinds of behaviour, `alone` says which. One lidar with distinguishable packets: the ring implements the channel
(`IsChannel`, a refinement) and no slot is written while it is copied. Two lidars with equal packets: what can be left in the
rings of a sleeping poll thread is at worst one packet, packets are popped, and the join in the destructor ends.
Two slots suffice for full, empty and the full-and-wrapped cases; two lidars for a scan that passes one by.
Fairness: both threads and the destructor run on and the lidars keep sending; that the poll thread is faster than
one lidar is a premise of the two liveness properties (`KeepsUp`), because a drain loop looks at nothing else.
Without new packets neither holds: a sleeping poll thread is woken by a packet and by nothing else.

### The driver besides its rings: LivoxConfig, PubHandler, Lddc

`LivoxConfig` (`call_back/livox_lidar_callback.cpp`, `lds_lidar.cpp`, device table). State: the bits of parameters a lidar still has to acknowledge, its
connection state, the requests under way, and as history what was announced, applied and refused. `InfoChange` is the
announcement by the SDK with all requests it sends, `Acknowledge`, `Refuse`, `Timeout` the answers per kind (in any order),
`ModeChanged`, `ImuAnswered` and `EndAttitude` the rest, `AddLidar` the driver's own registration. `listed` is which lidars
the user's file holds. A lidar listed or not, two parameters and two open requests of a kind (an old and a new one): it
samples only when configured (`SamplingIsConfigured`), and one that was announced and refuses nothing samples at last
(`AnnouncedSamples`). Fairness: a lidar asked again and again answers (strong, because a timeout re-sends the request
and so disables and enables the answer).

`PubHandler` (`comm/pub_handler.cpp`). The SDK's thread queues packets (`OnPacket`), the processing thread takes them, collects
their points per lidar (`Process`) and hands out a frame when the lidar's or the host's clock says so (`CheckTimer`); the frame
borrows the buffers that are exchanged with those that collect. Packets carry numbers, so a lost, doubled or late point shows:
`EveryPointOnce`. Two lidars with differing clocks, frames of two points, changing time synchronisation.

`Lddc` (`lds.cpp` IMU part, `lddc.cpp`). The list of IMU samples behind a mutex, the semaphore whose count is read without it,
the poll thread, the exit; and the publishers, created when a message is published first and cast to the message they carry.
`NoSampleStranded`: the poll thread does not sleep over a sample of the first lidar; `HasPublisher`: no
message is published through a null pointer, for the formats and topic modes that launch files use.

### From two clouds to a place on the map: LidarMerge, PointLio, LocalMap, Relocalization

`LidarMerge` (`lidar_output/src/lidar.cpp`). `SyncCallback` is the whole callback on a pair that the synchronizer may have matched
one period off: the transform, the estimate of the clock offset with its accepted jump and smoothing, the rebase, the filters of the
robot's parts. Times are 0.1 ms, jitter 3 ms, periods 40 ms. `PairsAgree`: merged pairs are all of one kind; which kind the first
pair decides unchecked, and the module says so.

`PointLio` (`li_initialization.cpp`, `laserMapping.cpp`, with the parameters of bringup: IMU on, neither `con_frame` nor `cut_frame`,
`prop_at_freq_of_imu`). Callbacks and main loop share a thread, so an iteration of the loop is one step: `Synced` and `TakeScan` are `sync_packages`,
`RunFilter` the four loops that pop samples. Samples and scans arrive in any order, late or never. `FedInOrder`: no loop takes a
sample from an empty deque, and until a scan has fewer than the needed points no sample is used twice or out of order. After such a
sparse scan the filter's time may go back; nothing in the repository says what should happen then. Samples every 20 ms and scans every
40 ms up to 160 ms: up to five scans with the samples between, before and behind them, enough for every loop to inherit a sample from
the one before. `PointTimes` is in section 4.

`LocalMap` (`MapIncremental` and its caller). Voxels are pending until a second call confirms them. `feats_down_world` is only
resized, and its points are set where the filter runs, so a scan with fewer points than the filter takes (`LeastValid`, 30) finds
the points of the scan before in it, and with more than `LeastMapped` (4) hands them to `MapIncremental`. `Sensing` has no scan between
the two (`ConfirmedByTwoScans`: a voxel is added after two scans that hit it); `SparseScans` has them, see section 4.

`Relocalization` (`small_gicp_relocalization.cpp`, and the odometry's side). Clouds and transforms travel separately, with a bounded
delay. `OdometryUsesResult`: what is registered was never moved by a transform, and what the odometry latches is the
registered one. `RelocalizationEnds`: with the stored map loaded, the attempt ends after the first cloud, by a result or by a failure; nothing is said of a start without the map. Fairness: clouds
that were sent arrive, the clock and the timer go on; the odometry may stop.

### BackUpFreeSpace (`move_to_free/src/back_up_free_space.cpp`)

State: the costmap received last, the requests under way and the in-flight flag, the run (start pose, elapsed time,
twist, whether a direction was ever chosen) and the chassis with the velocity it keeps for a while. `OnRun` and
the steps `TimeOut`, `LosePose`, `TakePose`, `Cycle` are `onRun` and `onCycleUpdate`, split where the latter waits for
the costmap service with a pose it has read before. `Answer`, `ServiceDown`, `ServiceUp`, `WorldChanges`, `PassTime` are
the environment. `Costmap` (5 x 2 cells, runs of one cell) bounds how far a run moves the robot, stale pose and
undropped velocity included, and shows that every run ends. Fairness: clock, behaviour thread and service go on or come back. `BackUpDirection` is a
disagreement of section 4.

### The controller: LocalPath, PathSmoothing, CurvatureLimit, RmTask, Mpc, OmniPidPursuit (`rps_omni_controller`)

`LocalPath`: `SetPlan`, and a `Cycle` of `transformGlobalPlan` with `removeCornerPts` and the line checks, on a field of four by three cells
with six costmaps; whichever points were left out before, every line of the local path is one of the plan or free
(`ShortcutsAreFree`).

`PathSmoothing`: `softSmoothPathCorners` as a function of the vertices, their angles and which curves are free: candidates, regions of nearby turns,
the choice per region with its memory `locked_smooth_regions_`, and the output. Any corner may become blocked and free again, scores change as the robot advances.
`ChoiceIsSteady`: while the regions stay, so do the chosen corners. Four vertices: three turns within `region_group_gap` of their neighbours, which
share a region or not by their sides and by which curves are free, and the end of the way; a robot at the start and one 0.2 m on, so that the
regions move with it; two regions at most become curves.
`SpacingAssumption` says how the regions lie: two of one side at most a spread from each other or more than twice as far, two of
one cycle always apart, one that keeps its vertices always near.

`CurvatureLimit`: the sampling, weighting and filtering of curvature from cycle to cycle in both modes, closed over a robot that drives by it.
A sample is the circle through three places of the path, so samples beside a corner see less of it the farther it is from their middle; samples whose
points coincide (such as the first one of the local path) are left out, as in the code. What the weighted top quarter takes of a corner from as far
before it as the filter needs to rise to that is `Share`, in percent of what the sample on the corner sees, for every course and mode;
`SightAssumption` holds the table against the courses. `LimitedAtCorner`: once the filter has settled, the limit in the cycle before a corner fits that
share. So it does not say that the curvature formula is met: the table of the run says how much of it is seen. A 90 degree corner after a straight gives
93 % in the PID mode and all of it in the MPC's (which samples twice as densely), a gentle one of 37 degrees 42 % and 90 %, two of different sharpness
0.35 m apart 81 % and 100 %; a corner so near that the filter has not settled is left out by the premise. The limit is the one handed on to the scaling by
the distance to the goal and to the clamp of acceleration (`omni_pid_pursuit_controller.cpp:801-818`), so the chassis itself may be faster. The MPC's
solver is taken to answer with the speed of its references, which `applyCurvatureLimitation_mpc` then limits once more by the lookahead point.
A place is 0.0875 m, the way of a cycle at 3.5 m/s and 40 Hz; speeds are counted in 1/20 m/s and curvatures in 1/40 per metre, with bringup's parameters
rounded to them; every mode is asked for 3.5 m/s and the lookahead point is 0.42 m away.

`RmTask`: the subscriber stores value and time in two atomics, the cycle reads them in the other order; `TaskIsCurrent`.

`Mpc`: prediction matrices, constraints and solver along one axis; what the iteration converges to is any feasible sequence. `SolutionIsDriven`: prediction
and robot agree for the whole horizon, for horizons with fewer, as many and more controls than steps.

`OmniPidPursuit`: life cycle, mode switch at run time, goals, cancels and the four ways through `computeVelocityCommands` (`FailedCycle`, `DirectCycle`,
`PursuitCycle`, `MpcCycle`), closed over a robot with limited acceleration. The run has 16 cycles a second, where bringup runs the
controller at 40: the states would be too many (section 3 says what the theorem needs at 40). `StaysAtGoal`: a goal given at the approach distance is not
overrun, with failed cycles or with direct driving; with both it may be (`room = "both"`): a failed cycle publishes zero and keeps
`prev_cmd_vel_`. `ControllerSwitch` is in section 4.

### FakeVelTransform (`fake_vel_transform/src/fake_vel_transform.cpp`)

State: last command and its age, the limiter's value, what was published, the timer. `CmdVel` and `Publish` are the
callback and the timer body with `limitDeceleration`, `Tick` is time. The velocity is a number on one axis, in units in
which the limiter's lower clamp is one; the rotation by the yaw keeps the speed. A silent controller
stops the robot within timeout, one late timer and the ramp, and the limiter raises the speed to a fresh command
only. The run uses a timer late up to the limiter's upper clamp: later timers make the ramp slower, and that
assumption (`LateAssumption`) is stated in the module.

### Areas and the serial port: SpecialArea, StaticXxLayer, SerialPort, RescueCommand

`SpecialArea` (`special_area.cpp`): the timer `CheckRobotPosition` with latches, margins and the ten-minute reset, the two topics and the driver that
reads them. The reset follows the clock and not the visit, so the area fires again for a robot that stays; it is
released all the same (`SpecialEnds`). Fairness: the timer runs.

`StaticXxLayer` (`static_xx.cpp`): two subscriptions, the map thread and two atomics, one access at a time. `AreaFollowsFlags`: at rest the drawn area
is that of the flags, unless both changed between the two reads of one update (`crossed`), which nothing repairs until the layer is asked
again.

`SerialPort` (`rm_serial_driver.cpp`): the receive thread and the send timer, each of which runs `reopenPort` step by step when its call fails, the
device that comes and goes, the destructor. `PortOpenAtRest`: whoever closed what the other had opened, the port is open when both have
left; `ShutdownCompletes`: the node ends unless the board falls silent, when the receive thread stays in its call. Fairness: the
threads run, and a thread whose read can go on, goes on.

`RescueCommand` (the rescue between both nodes). State: the area node's requests and the velocities it has yet to publish, the two queues of the serial driver, what
its executor found ready, the port, the last values. `Save`, `Judge`, `JudgeWithoutPose`, `PublishVelocity` are the area
node; `Wait`, `TakeVelocity`, `TakeStatus`, `SendData`, `SendFails`, `ReopenPort` the serial driver's executor.
Messages of a topic arrive in order and are lost only from a full queue. Queues of two and two rescues, the fewest that can be
confused: the board never gets the velocity of an earlier rescue with the status of a later one unless a
queue overflowed, and a robot that stays free is given back to the controller. Fairness: nodes run on; service, pose and
port are there again and again.

### ThetaStar (`theta_star.cpp`, `theta_star.hpp`) and ThetaStarPlanner (`theta_star_planner.cpp`)

`ThetaStar` is one call of `getPlan`. `MoveStartAndGoal` and `Begin` are the relocation out of obstacles and the start of
the search; `ResetParent`, `SetNeighbor` (one of the eight moves) and `TakeNext` are a turn of its loop, `Finish` its end.
The keys of nodes are lowered while they lie in a `std::priority_queue`, which does not notice: `BinaryHeap` (external)
is libstdc++'s heap, entry by entry, so that the broken heap order has the effect it has in the build. The line of
sight is the code's own, operation by operation. In `GlobalPlanner` the search runs on a field of ten by seven cells with up to three
obstacles to pass or squeeze between, with corridors, strips and forbidden areas: parents four and more cells away,
paths through cells next to an obstacle, a broken heap order and failed searches all occur. The nodes
form a tree, and a path touches no obstacle although the line is checked half a cell off. Of forbidden areas it does not hold:
`PlannerAreas` is a disagreement of section 4. The costs are four classes; lengths are integers from a table. A search ends by design when its plan ends (`CHECK_DEADLOCK FALSE`).

`ThetaStarPlanner` is `createPlan` from one call to the next: `PlanHere`, `PlanAnew`, `Replan` with the reuse test in the
order of `tryReuseLastPath`; `Follow` (controller), `Push`, `ChangeGoal`, `ChangeMap` are the environment. The search is one step
that returns any path from neighbour to neighbour past the obstacles, or none: the code's line of sight accepts a line with one
safe side, so a new path may run through cells that are not safe, and its search may fail although there is a path. A new path is
given out unchecked; `pathCostAndSafe` looks at it only when it is compared with the old one. In `GlobalPlanner` the reuse (two
rows of four cells, five costmaps, three goals, two changes, paths of up to `LongestPath`, six, poses) keeps a path only where it is safe now and ends beside a
goal within tolerance (`KeptPathIsSafe`), and the plans do not alternate for ever (`Arrives`): if from some time on
there is always a safe path at hand, the robot arrives, because an unsafe new path does not replace a safe old one and the margin of
`switch_improvement_ratio_` ends the exchange of safe ones. That searches go on failing where nothing can be kept is left out by the
premise; nothing in the code ends it. Two changes are a push and a changed map, or a
goal that creeps beyond its tolerance in two steps. Poses are neighbouring cells, so a projection is an end of a segment and
a step is sampled at both ends and on the border between them, as in `pathCostAndSafe`.
Fairness: plans are made all the time and the controller drives.

## 3. What is proved

Every theorem holds for every value of the constants that satisfies the named assumptions of its module, which TLC evaluates in
every run: costmaps of any size, any number of lidars, packets, scans or rescues, any parameters. The invariants were checked by TLC
first and then strengthened until inductive.

| module | theorem | property |
|---|---|---|
| IntensityVoxelLayer_proof | `TypeCorrect` | `TypeOK` |
| | `GhostFree`, `TiltClearsTheMap` | `NoGhostObstacle`, `NoDynamicObstacleWhileTilted` |
| | `StaleIsForgotten`, `ObstaclesAreHeld` | `NoStaleObstacle`, `HeldForHoldTime` |
| | `AreasAreFollowed` | `AreasFollowRobot` |
| LdsQueue_proof | `TypeCorrect`, `SlotsAreExclusive` | `TypeOK`, `SlotExclusive` |
| | `RingIsChannel`, `OneIsStranded` | `IsChannel` (refinement of `PacketChannel`), `AtMostOneStranded` |
| PathSmoothing_proof | `ChoicesAreKept` | `ChoiceIsSteady` (PathSmoothing) |
| Motion_proof | `TypeCorrect`, `SilenceStops`, `SpeedRisesToCommand` | `TypeOK`, `StopsWhenSilent`, `NoSurge` (FakeVelTransform) |
| | `TaskIsNotOver`, `ShortcutsAreSeen`, `PlanIsDriven` | `TaskIsCurrent` (RmTask), `ShortcutsAreFree` (LocalPath), `SolutionIsDriven` (Mpc) |
| | `GoalIsKept`, `CornersAreLimited` | `StaysAtGoal` (OmniPidPursuit), `LimitedAtCorner` (CurvatureLimit) |
| | `AllHold` | these of the run's specification |
| Areas_proof | `PortIsReopened`, `AreaIsDrawn` | `PortOpenAtRest` (SerialPort), `AreaFollowsFlags` (StaticXxLayer) |
| | `TypeCorrect`, `NoStaleRescue` | `TypeOK`, `RescueNotStale` (RescueCommand) |
| | `AllHold` | these of the run's specification |
| Sensing_proof | `TypeCorrect`, `NoEarlySampling`, `NoBitIsLost` | `TypeOK`, `SamplingIsConfigured`, `NoLostBit` (LivoxConfig) |
| | `NoPointIsLost`, `SampleIsPolled`, `MessagesArePublished` | `EveryPointOnce` (PubHandler), `NoSampleStranded`, `HasPublisher` (Lddc) |
| | `OneKindIsMerged`, `MapIsConfirmed`, `ResultIsUsed` | `PairsAgree` (LidarMerge), `ConfirmedByTwoScans` (LocalMap), `OdometryUsesResult` (Relocalization) |
| | `SamplesAreOrdered` | `FedInOrder` (PointLio) |
| | `AllHold` | five of them of the run's specification |
| BackUpFreeSpace_proof | `TypeCorrect`, `RunStaysNear` | `TypeOK`, `TravelBounded` |
| GlobalPlanner_proof | `TypeCorrect`, `TreeUnderStart`, `PathIsFree` | `TypeOK`, `LinksDescend`, `PathIsClear` (ThetaStar) |
| | `ReuseTypeCorrect`, `KeptPathIsGood` | `TypeOK`, `KeptPathIsSafe` (ThetaStarPlanner) |
| | `AllHold` | the three of the run's specification |

The arguments, and why the properties alone are not inductive:

* Voxel layer: `UpdateKeepsOwnership`: the box a cycle rewrites contains every cell whose owner it removed, so what is not rewritten
  keeps its owner; with `NothingRememberedWhileTilted` and `FreshWhenFull` (ages right after a full cycle) the other two follow.
  `AreasAreFollowed` assumes `StaticAreasInForcedBox`: a static area is repainted only inside the box that the forced rectangles
  touch. It holds for the areas of bringup; with a static area outside, nothing would erase it.
* Ring: `RingInv`, `ProducerInv`, `SignalInv`, `ConsumerInv`: the fill modulo `IndexModulus` is at most `Size`, also while the store of
  an index is on its way, so two equal slots would make the fill 0 or a multiple of `Size`, which the threads have excluded. `DataInv` adds
  what the slots hold: the contents of a ring are what the channel holds, so `StoreVisible`, the arrival of the write index, is the channel's
  send, `PopUpdate` its receive, and all other steps stutter. `OneIsStranded` rests on `StrandedInv`: with the
  count exhausted, the lidars that a scan has passed are empty while the producer's store is on its way and hold one packet together when
  it has arrived, for a further one brings the producer to its look at the count.
* Watchdog: `RampDown`: after the timeout the speed is at most the full speed less the deceleration for the time since; a late timer
  loses nothing as `MaxLate <= DtMax`.
* Task: `AgesAgree`: the value is stored first and read last, so it is never older than the time that stands for it; `FreshInCycle`: what
  a cycle found recent is recent to its end. Local path: `PathInv`: every line of the path is one of the plan or was
  looked at, and the cost kept for the next corner belongs to such a line. Solver: `SolverInv` with the equations of the prediction
  matrices: what is predicted from the controls is what the robot driven with them does, the last control held.
* Goal: a robot at speed `v` still drives `v (v - 1) / 2` while it brakes. A failed cycle brakes the robot and keeps
  `prev_cmd_vel_`, so with failures the way is `v (v - 1) / 2 + (q - 1)^2`, `q` the larger of speed and last command; the invariant is that
  this way ends within the tolerance behind the goal. A command `c` of the approach scaling keeps
  `c (c + 1) <= 2 (d + Overrun)`, and `Missing` bounds how far its rounding falls short, so that no stop needs more than the tolerance.
  `StoppingAssumption` is an inequality between full speed, approach distance and tolerance. The run's numbers (bringup's
  3.5 m/s, 8 m/s^2 and 1.8 m at 16 cycles a second) fulfil it without room to spare; at 40 cycles a second 3.4 m/s does
  and 3.6 m/s does not, and there the goal is overrun, so little is asked that is not needed.
* Corners: `SmoothInv`: no two locks of one side could be of the same region (`FarApart`), each lies where a region may be, and the first
  ones are those of the last choice. A region that stays has moved by no more than the spread, so its lock is nearer than all others
  of its side; by induction over the regions the k-th takes the k-th lock, also when it is taken after others, and with it its
  corner. The step that keeps `FarApart` is the same argument turned round: a lock that nobody took is none of the regions'.
  `SpacingAssumption` is a hypothesis on the way that the code does not enforce; it is enough, not necessary. TLC evaluates it on the
  run's way; on a way that breaks it a lock left by another region may be the nearest, and the argument says nothing.
* Curves: `Rising`: for every cycle since the robot came near enough to a corner (`Needed` places) the filter has risen by
  one `rise`, or has reached what sampling takes of the corner (`Noted`); the robot drives on only after a cycle. The theorem holds for
  every course, every table `Share` and every rounding of lengths. Assumed are `SightAssumption`, that the weighted samples give
  that share from `Needed` places before the corner on, and `SpeedAssumption`, that the formula's speed falls with curvature and that what
  `pid_curve_max_slowdown_ratio` leaves of the speed is no more than `pid_curve_min_speed` (bringup: 40 % of 3.5 m/s, 1.4 against 1.8).
* Serial port: `ClosedIsReopened`: while the port is closed one of the threads is on its way to open it. Static layer:
  `Drawn` says what the map shows in each phase of an update, `BetweenReads` that a task which opens the area behind the first read has
  asked for another update. Rescue: `StatusLine` and `VelocityLine` are the values in use and those still to come; counted
  from the newest they belong to the same verdicts (`Matching`), two in a row that drive belong to one rescue (`StatusChain`,
  `VelocityChain`), and the velocity in use is never more than one verdict away from the status (`Lagging`).
* Configuration: `Pending`, `OnlyWanted`, `ListedKnown`: what a listed lidar was asked for and has not applied is among its bits, so the
  last bit cannot fall early. Frames: `Within`, `Complete`, `QueuedInOrder`, `CollectedInOrder`: handed out, collected and queued
  numbers are adjacent intervals. Samples: `SampleIsSeen`: a sample of the first lidar is seen by the poll thread before it
  sleeps, or the callback has still to look at the count.
  Publishers: `InPairs`, for every setting but point clouds alone on a topic per lidar, which no launch file uses and where the code does
  publish through null. Merge: `Follows`: the estimate stays within the jitter of the
  kind of the first pair, and with twice the jitter and the jump below a period no other kind is accepted; the
  hypothesis is one on the parameters, which the run's fulfil. Filter: the deque ends with the last sample that came, the filter is
  never ahead of it, every waiting scan is ahead of the filter, and `imu_next` is a sample the filter has not reached or one that
  the front of the deque replaces before it is used. Map: `MapIsConfirmed` is about behaviours with
  `DenseScan`, as the code has no such property otherwise (section 4). Relocalization: `UnmovedBefore`: no cloud, on its way
  or taken in, was moved before the registration has ended.
* Recovery: `PoseIsNear` and `Bounded` count, with the way behind, what the chassis still drives (`Ahead`) on the velocity it has;
  `Held`: a velocity still followed at the next
  cycle is at least one cycle old, so a wait adds one cell less than the hold time.
* Search: `Rooted`, `Descends`: `g` falls strictly along every parent link, whatever the keys do to the heap (only its entries
  matter). `PathIsFree`: `LinksClear`: the line of every link was checked or is one move, and the arithmetic of the walk shows that
  a cell the line touches is within one row of a checked one, which the clearance makes free.
* Planner: `EndsAtGoal`: the remembered path ends in the ring of the remembered goal, whatever path the search returned; the reuse test does the rest.

Recursive definitions appear as functions (`f[n \in Nat]`); their equations are proved from the library's well-founded recursion
and used as facts. `AllHold` theorems say that a behaviour of the run's module is one of each of its parts.

Every invariant of a passing run is stated by a theorem (`HeldInBurst` is `HeldForHoldTime` on the second track of its run). So are the
refinement and every action property. Only model-checked is liveness: fairness and ENABLED are outside the prover.

## 4. Where code and documents disagree

* `VoxelSudden`: the document calls the filter a suppression of a single-frame burst
  (`docs/technical_document.md:140`); in the code a dropped frame leaves the cells free, so the burst is dropped again in
  every later frame while it stays.
* `BackUpDirection`: the document says the behaviour drives in the chosen direction
  (`docs/technical_document.md:344`); `has_free_space_direction_` is never reset, so only the first run chooses again
  on the way, and it scales the components of the old twist instead of replacing it.
* `PointTimes`: the ends of the bins of `build_time_seq_by_ms_bin` are seconds (`common_lib.h:155`, `161`), and the main loop divides them
  by 1000 once more (`laserMapping.cpp:967`): with `use_batch`, on in bringup, all points of a scan are taken to be from its
  beginning. The document says that the odometry restores the time of every point (`docs/technical_document.md:58`).
* `SparseScans`: a scan with 5 to 29 points is not given to the filter (`laserMapping.cpp:961`), which is what sets its points in
  `feats_down_world`; the array was only resized (932), and `MapIncremental` counts the points of the scan before that are left in it as a
  second observation. The document says that new points enter the map only after repeated observation across frames (`docs/technical_document.md:74`).
* `PlannerAreas`: a line along an axis is accepted when the cells on one of its sides are safe (`theta_star.cpp:256`, `274`), so on an open
  field the path runs through the outermost row of a forbidden area that holds neither start nor goal. The document says that such
  an area is impassable for the search (`docs/technical_document.md:174`).
* `ControllerSwitch`: a switch to MPC at run time throws `move_pid_` away (`omni_pid_pursuit_controller.cpp:3606`), and the MPC mode
  dereferences it near the goal (605). The document says that the MPC hands over to proportional tracking there
  (`docs/technical_document.md:340`).

## 5. What is not modelled, and the plan

Not modelled: the Kalman filter, point matching, GICP, the optimiser's iteration and terrain statistics (numerical);
stateless conversions of one cloud (`pointcloud_frame_trans`, `pc2scan`); `omni_perception`, which is no part of the motion chain;
`constraint_vel_controller`, which bringup does not load; `map_save`, one timer around an external program. Bundled libraries,
message definitions, launch files and scripts have nothing to model; they were read for rates, retries and parameter
values. In the controller, features switched off in every configuration (rotation, Savitzky-Golay, integral) are left out. `PROJECT.json` lists each
component with its reason.

Known to be hard and not covered by a property: `reset()` of the voxel layer storing atomics that the odometry callback updates
(`intensity_voxel_layer.cpp:467`); `onRun` deciding on the map of an earlier request, so that the first recovery is refused
(`back_up_free_space.cpp:71`); gains changed at run time that do not reach a running PID (`omni_pid_pursuit_controller.cpp:3371`); the filter's
time after a scan with too few points (`laserMapping.cpp:1104`); the node of the search that is lost when the queue is empty behind it
(`theta_star.cpp:127`); a curve that overlaps the path so far (`omni_pid_pursuit_controller.cpp:1659`); the first packets of a
visit, which may carry the gimbal angle of the visit before (`rm_serial_driver.cpp:431`).

Next: `SpacingAssumption` from inequalities between the vertices, the lock distance and the group gap instead of the regions they
lead to.

The costmap of the planner and the layer's master are the same object; a composition of `IntensityVoxelLayer` with the
planner is left out because the planner's properties hold for any sequence of costmaps, as do the layer's for any
sequence of frames.
