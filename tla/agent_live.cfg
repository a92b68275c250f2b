CONSTANTS
  x = x
  y = y
  sx = sx
  sy = sy
  Turns = {x, y}
  Sessions = {sx}
  SessionOf <- OneSession
  ChatPermits = 1
  LeaseTimeout = 1
  MaxRevision = 1
SPECIFICATION FairSpec
PROPERTIES
  CancelledTurnsEnd
  StoppingFreesTheProject
  LostLeaseStopsTheTurn
CHECK_DEADLOCK FALSE
