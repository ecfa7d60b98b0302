SPECIFICATION ClientSpec
CONSTANTS
  Width = 2
  Reasons <- MCReasons
  MaxConnections = 2
  MaxMoves = 2
  MaxEvents = 1
INVARIANTS
  ClientFollows
  ServerTells
  FailReported
PROPERTY
  FailReturns
CHECK_DEADLOCK FALSE
