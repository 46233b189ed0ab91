SPECIFICATION WindowedSpec
CONSTANTS
  Nodes = {a, b}
  Initiators = {}
  WriteStates = {"CONNECTED"}
  MaxConnects = 0
  MaxInits = 0
  MaxSent = 5
  MaxFaults = 2
  SeqRange = 4
  HistoryCapacity = 2
INVARIANTS
  TypeOK
PROPERTIES
  DirectionsAreTransfers
CHECK_DEADLOCK FALSE
