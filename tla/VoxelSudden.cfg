SPECIFICATION MCSpec
CONSTANTS
    Tracks = {"burst"}
    MapX = 6
    MapY = 0
    Base <- MCBase
    ForcedRects <- MCForcedRects
    ForcedArea <- MCForcedArea
    ForcedClearTrigger <- MCForcedClearTrigger
    DynamicClearTrigger <- MCDynamicClearTrigger
    StaticRects <- MCStaticRects
    StaticTrigger <- MCStaticTrigger
    BoostArea <- MCBoostArea
    RobotCells <- MCRobotCells
    Tasks = {0, 1, 2}
    Frames <- MCFrames
    ObstacleExpandSize = 1
    ObstacleHoldTime = 1
    FarHoldTimeBonus = 1
    AdaptiveNearRange = 1
    AdaptiveFarRange = 3
    FootprintRadius = 0
    AccelHoldTime = 1
    AccelRadius = 1
    DisableDynamicMapOnTilt = TRUE
    UseStaticObstacleArea = TRUE
    EnableSuddenFilter = FALSE
    SuddenNearRadius = 2
    StableFreeDuration = 2
    MaxObservationGap = 1
    HistoryRetention = 3
    RisingCellThreshold = 2
PROPERTIES
    BurstDropIsSingleFrame
