SPECIFICATION Spec
CONSTANTS
  Own = {r1}
  Foreign = {f1}
  Old = old
  None = None
  Upgraded = FALSE
  MaxRetired = 2
  MaxFaults = 1
  MaxWaiting = 2
CHECK_DEADLOCK FALSE
INVARIANTS LegacyPaused
