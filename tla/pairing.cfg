SPECIFICATION FairSpec
CONSTANTS
  Own = {r1, r2}
  Foreign = {f1}
  Old = old
  None = None
  Upgraded = TRUE
  MaxRetired = 2
  MaxFaults = 2
  MaxWaiting = 2
CHECK_DEADLOCK FALSE
INVARIANTS LeftIsGone SessionOnRecord NoOrphanAtRelay
PROPERTIES NeverResurrected RevocationCompletes
