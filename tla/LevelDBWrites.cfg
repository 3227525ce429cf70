SPECIFICATION FairSpec
CONSTANTS
  Threads = {w1, w2}
  WriteBuffer = 1
  L0Compaction = 1
  L0Slowdown = 1
  L0Stop = 2
  PowerLoss = TRUE
  MaxCalls = 3
  MaxFaults = 1
  MaxCrashes = 2
INVARIANTS TypeOK AckedVisible AckedOnDisk PinnedSynced FreshSequence
PROPERTIES Implements WritesReturn
CHECK_DEADLOCK FALSE
