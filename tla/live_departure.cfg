SPECIFICATION Spec
CONSTANTS
  Devices = {a, b}
  Sockets = {s1, s2, s3}
  None = None
  Life = 1
  ReadyLimit = 1
  Sweep = 1
  Runtimes = {FALSE}
SYMMETRY RoomSymmetry
INVARIANTS GoneIsOffline
