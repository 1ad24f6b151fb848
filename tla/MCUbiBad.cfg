SPECIFICATION FairSpec
CONSTANTS
  FREE_BLOCK_COUNT = 7
  TOTAL_DIE_COUNT = 1
  INVALID_BLOCK = 99
  INVALID_EC = 99
  P = 2
  PER_AREA = 1
  LogCount = 2
  PhyCount = 7
  Threshold = 1
  MaxOps = 4
  Campaigns <- BadBlocks
CHECK_DEADLOCK FALSE
INVARIANTS OwnersDisjoint NoLeak RecoverDurable ReadsCurrent
PROPERTY CallsReturn
