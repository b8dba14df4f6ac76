SPECIFICATION Spec
CONSTANTS
  Process = {p1, p2}
  Cli <- OfMsgctl
  Enrolled <- OfCaller
  MaxSends = 4
  MaxKeys = 6
  MaxFaults = 1
  MaxSkipped = 1
SYMMETRY Slots
INVARIANTS TypeOK HandshakeFirst FileWhole KeyReuseOnlyAfterBreak ShownOnce  RegisteredIsHeld
\* The conversation ends at the bounds.
CHECK_DEADLOCK FALSE
