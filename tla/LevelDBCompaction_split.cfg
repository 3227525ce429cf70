SPECIFICATION Spec
CONSTANTS
  MaxKey = 1
  NumLevels = 3
  MaxMemCompactLevel = 1
  SplitKeys = TRUE
  Deletions = {TRUE, FALSE}
  MaxWrites = 2
  MaxSnapshots = 1
  MaxManual = 0
INVARIANT NewestAbove
CHECK_DEADLOCK FALSE
