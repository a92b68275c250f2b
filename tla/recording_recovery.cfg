CONSTANTS
  first = first
  again = again
  Jobs = {first, again}
  Tokens = {t}
  ItemCount <- MCItemCount
  Retries = {again}
  Calls = {c}
  MaxStarts = 1
  MaxCrashes = 2
  MaxLate = 1
SPECIFICATION FairSpec
INVARIANTS
  TypeOK
  PublishedTakesAreTraceable
PROPERTIES
  AcceptedJobsEnd
  TerminalFreesTheSession
CHECK_DEADLOCK FALSE
