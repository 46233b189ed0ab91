SPECIFICATION Spec
CONSTANTS
  MaxPacket = 4
  Traffic <- ShortTraffic
  MaxFaults = 2
  MaxKeepalives = 1
INVARIANTS
  TypeOK
  AcceptsSubsequence
  Resynchronizes
  CleanLineNoNAK
CHECK_DEADLOCK FALSE
