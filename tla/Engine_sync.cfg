SPECIFICATION Spec
CONSTANTS
  Conns = {c1}
  TableNames = {t}
  First = t
  MaxTx = 4
  MaxTable = 2
  MaxDdl = 3
  MaxVal = 2
  MaxRestarts = 0
  Ddl = {}
  Alone = FALSE
  Stale = FALSE
  Checkpoints = "none"
  Faults = {"sync"}
INVARIANTS AbortedStaysOut
CHECK_DEADLOCK FALSE
