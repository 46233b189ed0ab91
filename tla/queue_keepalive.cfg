SPECIFICATION Spec
CONSTANTS
  MaxAttempts = 1
  ChainedSends = {}
  RetriedSends = {}
  AnsweredReceives = {}
  ChainedReceives = {}
  RehandshakeAlive = TRUE
  MaxSends = 2
  MaxReceives = 2
  MaxHandshakes = 2
  MaxKeepalives = 1
  MaxReopens = 1
  MaxMessages = 1
PROPERTIES
  KeepaliveAfterHandshake
CHECK_DEADLOCK FALSE
