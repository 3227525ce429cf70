SPECIFICATION Spec
CONSTANTS
  Block = 5
  Header = 2
  Lengths = {0, 1, 4, 7}
  ReuseLogs = TRUE
  FaultsWhileOpen = TRUE
  MaxRecords = 3
  MaxReopens = 1
INVARIANTS TypeOK Survivors KeptBeforeDamage DamageEnds NothingInvented
CHECK_DEADLOCK FALSE
