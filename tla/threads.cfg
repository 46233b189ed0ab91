SPECIFICATION FairSpec
CONSTANTS
  Nodes = {a, b}
  Initiators = {a}
  Senders = {a}
  WriteStates = {"CONNECTED"}
  Guarded = {a}
  Echoes = {b}
  MaxConnects = 1
  MaxInits = 1
  MaxSent = 2
  MaxFaults = 2
  SeqRange = 4
  HistoryCapacity = 2
INVARIANTS ThreadsInv EchoesInOrder
PROPERTIES CallsAreAtomic CallsReturn
CHECK_DEADLOCK FALSE
