SPECIFICATION Spec
CONSTANTS
  FREE_BLOCK_COUNT = 7
  TOTAL_DIE_COUNT = 2
  INVALID_BLOCK = 99
  INVALID_EC = 99
  P = 2
  PER_AREA = 1
  LogCount = 2
  PhyCount = 8
  Threshold = 0
  MaxOps = 5
  Campaigns <- PowerLosses
INVARIANTS OwnersDisjoint NoLeak RecoverDurable ReadsCurrent TablesProgramErased
