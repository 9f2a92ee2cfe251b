SPECIFICATION Spec
CONSTANTS
  MAX_RX_BUF = 13
  TICK = 2
  Size = {3, 5, 6, 7, 14}
INVARIANTS TypeOK CutOnlyIfLong 
