SPECIFICATION Spec
CONSTANTS
  P = 3
  JOURNAL_BLOCK_COUNT = 1
  PMT_BLOCK_COUNT = 3
  DATA_BLOCK_COUNT = 4
  PM_PER_NODE = 1
  PMT_CACHE_COUNT = 1
  ReadPages = {1}
  TrimPages = {0}
  HotPages = {0}
  MaxCalls = 7
  MaxLosses = 1
  MaxFuse = 12
  MountAfterGap = TRUE
INVARIANT MountEnds
CHECK_DEADLOCK FALSE
