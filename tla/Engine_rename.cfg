SPECIFICATION Spec
CONSTANTS
  Conns = {c1, c2}
  TableNames = {t, u}
  First = t
  MaxTx = 4
  MaxTable = 2
  MaxDdl = 3
  MaxVal = 2
  MaxRestarts = 0
  Ddl = {"rename"}
  Alone = FALSE
  Stale = FALSE
  Checkpoints = "none"
  Faults = {}
INVARIANTS ReplayOK
CHECK_DEADLOCK FALSE
