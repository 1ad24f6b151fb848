CONSTANTS
  P = 2
  First = 1
  Last = 4
  Body = {b0, b1, b2}
  Body0 = b0
  Campaigns <- Wrapping
SPECIFICATION Spec
CHECK_DEADLOCK FALSE
INVARIANTS AnchorDurable
