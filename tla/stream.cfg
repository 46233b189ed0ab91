SPECIFICATION FairSpec
CONSTANTS
  Writers = {w1, w2}
  MaxHandshakes = 2
  MaxFrames = 4
  MaxChunk = 2
INVARIANTS TypeOK BufferStable NothingLost
PROPERTIES LeavesOnline NoInputDiscarded ConnectedWhenReady HandshakeEnds WritesEnd
CHECK_DEADLOCK FALSE
