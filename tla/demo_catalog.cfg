CONSTANTS
  p = p
  q = q
  one = one
  two = two
  Paths = {p, q}
  Contents = {one, two}
  Ids = {1, 2}
  Scanners = {"watch", "import"}
  MaxChanges = 3
SPECIFICATION FairSpec
INVARIANTS
  AnalysesMatchTheirDemo
  ReadyMeansAnalysed
  AnalyzingDemosHaveARun
PROPERTIES
  WatcherSettles
CHECK_DEADLOCK FALSE
