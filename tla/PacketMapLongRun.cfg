SPECIFICATION Spec
CONSTANTS
  W = 32
  Far = 4
  MaxEntries = 3
  Starts = {4}
  Skips = {0}
  Recent = 3
  MaxPackets = 40
  MaxDrops = 1
INVARIANT NoOverlap
CHECK_DEADLOCK FALSE
