CONSTANTS
  Width = 3
  Height = 2
  Maps <- MCMaps
  NoMap = NoMap
  SampleSteps = 2
  Distance = 1
  TimeAllowance = 2
  DropAfter = 2
  MaxRequests = 2
SPECIFICATION Spec
INVARIANTS DrivesInChosenDirection
