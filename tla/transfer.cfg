SPECIFICATION FairSpec
CONSTANTS
  SeqRange = 4
  HistoryCapacity = 3
  Window = 3
  MaxSent = 8
  MaxFaults = 3
INVARIANTS
  TypeOK
  IndInv
  NoUnderrun
PROPERTIES
  ReliableInOrder
  GapRepaired
CHECK_DEADLOCK FALSE
