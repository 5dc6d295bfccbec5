SPECIFICATION FairSpec
CONSTANTS
  MaxPoints = 3
  MaxRuns = 2
  MaxJobs = 2
  MaxCrashes = 1
  MaxRefusals = 1
CHECK_DEADLOCK FALSE
INVARIANTS NoPointTwice SteadyKeepsRecoveryCopy
PROPERTIES PointsSurvive EverySent
