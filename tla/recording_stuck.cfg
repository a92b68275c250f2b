CONSTANTS
  first = first
  again = again
  Jobs = {first, again}
  Tokens = {t}
  ItemCount <- MCItemCount
  Retries = {}
  Calls = {c}
  MaxStarts = 1
  MaxCrashes = 0
  MaxLate = 0
SPECIFICATION FairSpec
PROPERTY TerminalReleasesTheSession
CHECK_DEADLOCK FALSE
