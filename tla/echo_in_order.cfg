SPECIFICATION ConnectedSpec
CONSTANTS
  Nodes = {a, b}
  Initiators = {}
  WriteStates = {"CONNECTED"}
  MaxConnects = 0
  MaxInits = 0
  MaxSent = 5
  MaxFaults = 1
  SeqRange = 4
  HistoryCapacity = 2
INVARIANTS
  EchoesInOrder
CHECK_DEADLOCK FALSE
