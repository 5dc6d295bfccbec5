SPECIFICATION Spec
CONSTANTS
  Procs = {p1, p2}
  MaxCommits = 4
  DirSyncs = TRUE
  BackupRestores = TRUE
  NoOne = NoOne
  Absent = Absent
  Torn = Torn
SYMMETRY ProcSymmetry
INVARIANTS Recoverable ReleasedIsDurable FileInv
PROPERTIES NoFork ImplementsRegister
