SPECIFICATION Spec
CONSTANTS
  MaxTx = 3
  MaxRow = 2
  Recovered = 1
  Vacuuming = "any"
PROPERTIES VacuumUnseen
CHECK_DEADLOCK FALSE
