CONSTANTS
  x = x
  y = y
  sx = sx
  sy = sy
  Turns = {x, y}
  Sessions = {sx, sy}
  SessionOf <- MCSessionOf
  ChatPermits = 2
  LeaseTimeout = 0
  MaxRevision = 3
SPECIFICATION Spec
INVARIANTS
  EditsFollowTheirContext
  LeaseEndsWithItsTurn
PROPERTIES
  NoEditAfterTheEnd
  ImplementsEditLease
SYMMETRY Twins
CHECK_DEADLOCK FALSE
