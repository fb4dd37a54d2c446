CONSTANTS
  Depth = 2
  MaxRequests = 1
  MaxRescues = 2
  Places <- MCPlaces
  Tasks = {0, 2}
  FightOutpostOnIsland = FALSE
  ResetInterval = 3
  Duration = 2
  MaxLate = 1
  Cells = {near, far}
SPECIFICATION MCSpec
INVARIANTS RescueNotStale AreaFollowsFlags PortOpenAtRest
PROPERTIES RescueReleased SpecialEnds ShutdownCompletes
