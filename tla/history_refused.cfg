SPECIFICATION Spec
CONSTANTS
  MaxPoints = 4
  MaxRuns = 1
  MaxJobs = 2
  MaxCrashes = 0
  MaxRefusals = 1
CHECK_DEADLOCK FALSE
INVARIANTS KeepsRecoveryCopy
