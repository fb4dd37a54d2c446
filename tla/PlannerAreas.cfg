CONSTANTS
  SizeX = 10
  SizeY = 7
  Maps <- OpenMaps
  Starts <- RowStart
  Goals <- RowGoal
  Areas <- RowArea
  AllowUnknown = TRUE
  Corners = 8
  MaxRadius = 2
  Length <- MCLength
  Traversal <- MCTraversal
  ReuseCells <- MCReuseCells
  ReuseMaps <- MCReuseMaps
  ReuseStarts <- MCReuseStarts
  ReuseGoals <- MCReuseGoals
  ReuseRadius = 1
  ReuseTraversal <- MCReuseTraversal
  Paths <- MCPaths
  Tolerance = 1
  Deviation = 1
  Ratio = 10
  DistanceWeight = 300
  MaxChanges = 0
SPECIFICATION MCSpec
INVARIANTS PathAvoidsAreas
\* A search ends.
CHECK_DEADLOCK FALSE
