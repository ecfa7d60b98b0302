SPECIFICATION FairSpec
CONSTANTS
  Sessions = {s1, s2}
  MaxPackets = 2
  MaxRecvs = 2
INVARIANTS
  SendingWhileQueued
  KeepsReceiving
PROPERTIES
  Delivered
  RefinesChannel
CHECK_DEADLOCK FALSE
