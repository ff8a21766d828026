SPECIFICATION Spec
CONSTANTS
  Producers = {p1, p2, p3}
  MaxPuts = 5
INVARIANTS TypeOK NoLostWakeup Fifo
PROPERTY IsMailbox
CHECK_DEADLOCK FALSE
