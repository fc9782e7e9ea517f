SPECIFICATION Spec
CONSTANTS
  Procs = {p1, p2}
  NoProc = NoProc
  MaxWrites = 2
  MaxCheckpoints = 2
  MaxCrashes = 2
  Fsyncs = {TRUE, FALSE}
  FsyncNames = TRUE
  Fresh = TRUE
  Faults = {"header", "append", "sync", "link", "rename", "dirsync", "reopen"}
SYMMETRY Symmetry
INVARIANTS TypeOK OneOpener AckedRecoverable WritesNamedLog GenerationComplete
PROPERTIES LosesSuffix
CHECK_DEADLOCK FALSE
