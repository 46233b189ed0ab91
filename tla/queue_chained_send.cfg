SPECIFICATION Spec
CONSTANTS
  MaxAttempts = 1
  ChainedSends = {1}
  RetriedSends = {}
  AnsweredReceives = {}
  ChainedReceives = {}
  RehandshakeAlive = FALSE
  MaxSends = 2
  MaxReceives = 2
  MaxHandshakes = 2
  MaxKeepalives = 1
  MaxReopens = 1
  MaxMessages = 1
INVARIANTS
  WrittenIsFront
CHECK_DEADLOCK FALSE
