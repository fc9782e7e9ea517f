SPECIFICATION Spec
CONSTANTS
  Conns = {c1, c2}
  TableNames = {t, u}
  First = t
  MaxTx = 3
  MaxTable = 2
  MaxDdl = 3
  MaxVal = 2
  MaxRestarts = 1
  Ddl = {"create", "rename", "drop"}
  Alone = TRUE
  Stale = FALSE
  Checkpoints = "quiet"
  Faults = {"append"}
SYMMETRY Symmetry
INVARIANTS TypeOK ReplayOK HistoryLogged RecoveryMatches AbortedStaysOut
CHECK_DEADLOCK FALSE
