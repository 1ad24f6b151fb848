CONSTANTS
  PAGE_PER_PHY_BLOCK = 6
  Overwritten = FALSE
SPECIFICATION FairSpec
CHECK_DEADLOCK FALSE
INVARIANTS FindsLast
PROPERTIES Halves Terminates
