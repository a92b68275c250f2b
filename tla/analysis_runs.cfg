CONSTANTS
  p = p
  one = one
  two = two
  Paths = {p}
  Contents = {one}
  Ids = {1}
  Scanners = {"watch"}
  MaxChanges = 2
  MaxRuns = 2
  Clients = {k}
SPECIFICATION FairSpec
INVARIANTS
  OneWorkerPerDemo
PROPERTIES
  ImplementsJobLifecycle
  AcceptedRunsEnd
  CancelsAreAnswered
CHECK_DEADLOCK FALSE
