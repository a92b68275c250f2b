CONSTANTS
  old = old
  new = new
  a = a
  b = b
  agent = agent
  story = story
  Runs = {old, new}
  Turns = {agent}
  StoryTrack = story
  Documents <- OneCapture
  Requests <- CopyRequests
  Losable <- OneFile
  Deletable <- OneFile
  LeaseTimeout = 0
  MaxFailures = 1
  MaxEdits = 1
  MaxRevision = 5
  TextContent = {}
  Children = {}
  Editors <- Others
SPECIFICATION TakesSpec
INVARIANTS
  TakesAttachInOrder
  TakesShowTheirIntent
  TakesHaveAssets
CHECK_DEADLOCK FALSE
