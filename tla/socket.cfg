SPECIFICATION SocketFairSpec
CONSTANTS
  Size <- Boundaries
  MaxTexts = 2
  Room = 4
  PongRoom = 2
INVARIANTS SocketTypeOK TextsArriveWhole
PROPERTY ConnectionSettles
\* A connection ends.
CHECK_DEADLOCK FALSE
