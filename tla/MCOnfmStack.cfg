SPECIFICATION Spec
CONSTANTS
  DIE_PER_CHIP = 2
  CHIP_COUNT = 1
  PLANE_PER_DIE = 2
  BLOCK_PER_PLANE = 4
  PAGE_PER_PHY_BLOCK = 3
  SECTOR_PER_PAGE = 1
  BUFFER_COUNT = 6
  FREE_BLOCK_COUNT = 5
  INVALID_BLOCK = 99
  INVALID_EC = 999
  STATIC_WL_THRESHOLD = 100
  PageCount = 2
  MaxCalls = 4
  MaxArmed = 1
  Faults <- MCFaults
INVARIANTS SectorsReadBack PoolExact ProgramsErased
CHECK_DEADLOCK FALSE
