CONSTANTS
  turn1 = turn1
  turn2 = turn2
  t1 = t1
  t2 = t2
  a = a
  b = b
  nested = nested
  StoryTrack = t1
  TextContent = {"text"}
  Turns = {}
  Editors = {"human"}
  Children = {nested}
  Documents <- MCDocuments
  Requests <- MCRequests
  LeaseTimeout = 0
  MaxRevision = 4
SPECIFICATION Spec
INVARIANT RequestsNeverPoisonStorage
CHECK_DEADLOCK FALSE
