CONSTANTS
  old = old
  new = new
  a = a
  b = b
  agent = agent
  story = story
  Runs = {old}
  Turns = {agent}
  StoryTrack = story
  Documents <- TwoCaptures
  Requests <- RemovalRequests
  Losable = {}
  Deletable <- OneFile
  LeaseTimeout = 0
  MaxFailures = 1
  MaxEdits = 2
  MaxRevision = 5
  TextContent = {}
  Children = {}
  Editors <- Others
SPECIFICATION FairSpec
INVARIANTS
  AttachmentsKeepEdits
PROPERTIES
  OutputsAreAttached
CHECK_DEADLOCK FALSE
