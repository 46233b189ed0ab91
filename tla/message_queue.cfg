SPECIFICATION FairSpec
CONSTANTS
  MaxAttempts = 1
  ChainedSends = {1}
  RetriedSends = {1}
  AnsweredReceives = {1}
  ChainedReceives = {1}
  RehandshakeAlive = FALSE
  MaxSends = 2
  MaxReceives = 2
  MaxHandshakes = 2
  MaxKeepalives = 1
  MaxReopens = 1
  MaxMessages = 1
INVARIANTS
  TypeOK
  HandlersCalledOnce
  WritesFront
  OneReadPump
  ReadyMeansListening
PROPERTIES
  CloseEndsAll
CHECK_DEADLOCK FALSE
