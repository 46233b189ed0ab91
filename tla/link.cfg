SPECIFICATION DisruptedSpec
CONSTANTS
  Nodes = {a, b}
  Initiators = {a, b}
  WriteStates = {"CONNECTED"}
  MaxConnects = 1
  MaxInits = 1
  MaxSent = 2
  MaxFaults = 1
  SeqRange = 4
  HistoryCapacity = 2
INVARIANTS
  QuietAgreement
  QuietSync
  AtMostOnceInOrder
PROPERTIES
  HandshakeCompletes
  EventuallyQuiet
  HandshakeResumes
CHECK_DEADLOCK FALSE
