SPECIFICATION FairSpec
CONSTANTS
  MaxWire = 1
  MaxFaults = 2
CHECK_DEADLOCK FALSE
INVARIANTS NoRekeyStorm
PROPERTIES KeysAgree
