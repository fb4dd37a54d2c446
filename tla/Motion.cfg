CONSTANTS
  MaxSpeed = 5
  max_linear_deceleration = 2
  CONTROLLER_TIMEOUT = 3
  DtMax = 3
  MaxLate = 2
  MaxAge = 9
  SizeX = 4
  SizeY = 3
  Plans <- MCPlans
  Costmaps <- MCCostmaps
  SearchDist = 300
  Extent = 250
  max_skip_distance = 250
  LookaheadDist = 150
  Vertices <- MCVertices
  Turns <- MCTurns
  Robots = {0, 20}
  smooth_region_match_dist_ = 30
  smooth_region_max_miss_ = 1
  smooth_region_max_count_ = 2
  Courses <- MCCourses
  Length <- MCLength
  Scale = 22857
  PlaceLength = 25
  Share <- MCShare
  RawSpeeds = {70}
  Profile <- MCProfile
  Back = 4
  Fwd = 8
  KappaMin = 16
  KappaMax = 48
  Hysteresis = 6
  FormulaVel <- MCFormulaVel
  SlowdownPercent = 40
  RecoverStep = 5
  Np = 15
  FullSpeed = 70
  Carrots = {5}
  CurvatureMin = 14
  CurvatureMax = 26
  KappaOne = 40
  ReductionPercent = 80
  ScaleStep = 1
  LowerSpeed = 10
  LastVel = 40
  LeastScaled = 20
  Tasks = {0, 1, 2}
  Timeout = 3
  Horizons <- MCHorizons
  Limits = {1, 3}
  AMax = 1
  VMax = 3
  v_linear_max = 7
  Kp = 812
  Kd = 500
  lookahead_time = 2400
  min_lookahead_dist = 6
  max_lookahead_dist = 32
  approach_velocity_scaling_dist = 58
  min_approach_linear_velocity = 1
  ExitMargin = 6
  DirectSlowdownDist = 23
  DirectStopDist = 1
  MaxLinearVel = 8
  MpcSpeeds = {5}
  CurveSpeed = 4
  XyGoalTolerance = 5
  Overrun = 5
  NewDists = {60}
SPECIFICATION MCSpec
INVARIANTS StopsWhenSilent ShortcutsAreFree LimitedAtCorner TaskIsCurrent SolutionIsDriven StaysAtGoal
PROPERTIES NoSurge ChoiceIsSteady
