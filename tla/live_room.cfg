SPECIFICATION Spec
CONSTANTS
  Devices = {a, b, c}
  Sockets = {s1, s2, s3}
  None = None
  Life = 2
  ReadyLimit = 1
  Sweep = 1
  Runtimes = {TRUE, FALSE}
SYMMETRY RoomSymmetry
INVARIANTS TypeOK NothingBeforeReady TwoDevices AlarmCovers PairLearns
