SPECIFICATION Spec
CONSTANTS
  MaxKey = 2
  NumLevels = 3
  MaxMemCompactLevel = 1
  SplitKeys = FALSE
  Deletions = {TRUE, FALSE}
  MaxWrites = 3
  MaxSnapshots = 1
  MaxManual = 1
INVARIANTS TypeOK LevelsDisjoint NewestAbove
PROPERTY Implements
CHECK_DEADLOCK FALSE
