SPECIFICATION Spec
CONSTANTS
  MaxKey = 3
  NumLevels = 2
  MaxMemCompactLevel = 1
  SplitKeys = FALSE
  Deletions = {FALSE}
  MaxWrites = 5
  MaxSnapshots = 0
  MaxManual = 1
INVARIANT LevelsDisjoint
CHECK_DEADLOCK FALSE
