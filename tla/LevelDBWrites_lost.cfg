SPECIFICATION Spec
CONSTANTS
  Threads = {w1, w2}
  WriteBuffer = 1
  L0Compaction = 1
  L0Slowdown = 1
  L0Stop = 2
  PowerLoss = TRUE
  MaxCalls = 3
  MaxFaults = 1
  MaxCrashes = 2
INVARIANT NoWritesLost
CHECK_DEADLOCK FALSE
