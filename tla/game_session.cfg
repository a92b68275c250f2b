CONSTANTS
  first = first
  second = second
  plan = plan
  Jobs = {first, second}
  Retries = {}
  Tokens = {t}
  ItemCount <- MCItemCount
  Plans = {plan}
  PlanOf <- MCPlanOf
  Calls = {c}
  MaxStarts = 2
  MaxCrashes = 0
  MaxLate = 0
SPECIFICATION GameSpec
INVARIANTS
  CaptureOwnsTheSession
  CancelIsHonoured
  PlansRecordOnce
  PlaybackOwnsItsGame
PROPERTY
  RecordingsRespectPlayback
SYMMETRY Twins
CHECK_DEADLOCK FALSE
