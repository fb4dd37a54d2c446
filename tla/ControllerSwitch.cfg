CONSTANTS
  v_linear_max = 7
  v_linear_min <- MCMinSpeed
  Kp = 812
  Kd = 500
  lookahead_time = 2400
  min_lookahead_dist = 6
  max_lookahead_dist = 32
  approach_velocity_scaling_dist = 58
  min_approach_linear_velocity = 1
  ExitMargin = 6
  DirectSlowdownDist = 23
  DirectStopDist = 1
  MaxLinearVel = 8
  MpcSpeeds = {5}
  CurveSpeed = 4
  XyGoalTolerance = 5
  Overrun = 5
  NewDists = {60}
SPECIFICATION Spec
INVARIANT NearGoalIsProportional
CHECK_DEADLOCK FALSE
