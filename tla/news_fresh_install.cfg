SPECIFICATION Spec
CONSTANTS
  Last = 2
  News = {0, 2}
INVARIANTS NoNewsOnFreshInstall
CHECK_DEADLOCK FALSE
