SPECIFICATION Spec
CONSTANTS
  Conns = {c1}
  TableNames = {t, u}
  First = t
  MaxTx = 4
  MaxTable = 2
  MaxDdl = 3
  MaxVal = 2
  MaxRestarts = 0
  Ddl = {"drop"}
  Alone = FALSE
  Stale = TRUE
  Checkpoints = "none"
  Faults = {}
INVARIANTS ReplayOK
CHECK_DEADLOCK FALSE
