SPECIFICATION Spec
CONSTANTS
  MaxPacket = 4
  Traffic <- LongTraffic
  MaxFaults = 0
  MaxKeepalives = 1
INVARIANTS
  PacketsUpToMaxArrive
CHECK_DEADLOCK FALSE
