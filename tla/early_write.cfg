SPECIFICATION Spec
CONSTANTS
  Nodes = {a, b}
  Initiators = {a, b}
  WriteStates = {"SENT_SYN0", "SENT_SYN1"}
  MaxConnects = 1
  MaxInits = 0
  MaxSent = 1
  MaxFaults = 0
  SeqRange = 4
  HistoryCapacity = 2
INVARIANTS
  EarlyWritesArrive
CHECK_DEADLOCK FALSE
