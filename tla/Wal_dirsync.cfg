SPECIFICATION Spec
CONSTANTS
  Procs = {p1, p2}
  NoProc = NoProc
  MaxWrites = 3
  MaxCheckpoints = 2
  MaxCrashes = 0
  Fsyncs = {TRUE}
  FsyncNames = TRUE
  Fresh = FALSE
  Faults = {"dirsync"}
INVARIANTS AckedAllRecoverable
CHECK_DEADLOCK FALSE
