SPECIFICATION FairSpec
CONSTANTS
  Transactions = {t1, t2, t3}
  MaxReports = 2
  MaxLaunches = 3
INVARIANTS TypeOK ShownIffSaved
PROPERTIES Implements Unlocks
CHECK_DEADLOCK FALSE
