SPECIFICATION Spec
CONSTANTS
  BufferSize = 7
  HeaderSize = 2
  PacketSizes = {2, 3, 6}
  MaxSent = 4
INVARIANTS
  NoneLeftBehind
PROPERTY
  RefinesChannel
CHECK_DEADLOCK FALSE
