SPECIFICATION Spec
CONSTANTS
  MaxTx = 3
  MaxRow = 3
  Recovered = 1
  Vacuuming = "quiet"
INVARIANTS TypeOK StorageInv HeapInv NoLostUpdate
PROPERTIES SnapshotsStable RepeatableReads VacuumKeepsCurrent ImplementsSnapshotIsolation
CHECK_DEADLOCK FALSE
