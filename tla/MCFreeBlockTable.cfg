CONSTANTS
  FREE_BLOCK_COUNT = 6
  TOTAL_DIE_COUNT = 2
  INVALID_BLOCK = 99
  INVALID_EC = 9
  Block = {1, 2, 3, 4, 5}
  InitFree = {2, 3, 4}
  MaxEc = 3
  Threshold = 1
SPECIFICATION Spec
CHECK_DEADLOCK FALSE
INVARIANTS Sorted Conserved BadNeverHandedOut GetFinds
