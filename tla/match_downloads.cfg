CONSTANTS
  dl = dl
  lib = lib
  one = one
  two = two
  k = k
  Paths = {dl, lib}
  Contents = {one, two}
  Ids = {1, 2}
  Scanners = {"import"}
  MaxChanges = 1
  DemoPath = dl
  Replay = one
  MaxJobs = 2
  Clients = {k}
  MaxEvents = 1
SPECIFICATION FairSpec
INVARIANTS
  OneDownloadPerMatch
  CatalogStaysSound
PROPERTIES
  ImplementsJobLifecycle
  CompletedDownloadsHaveTheirFile
  AnalysesSurviveDownloads
  ActiveDownloadsEnd
CHECK_DEADLOCK FALSE
