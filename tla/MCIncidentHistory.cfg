CONSTANTS
  e1 = e1  e2 = e2
  down = down  slow = slow
  job = job  api = api  agent = agent
  Event = {e1, e2}
  Alert = {down, slow}
  AlertOf <- MCAlertOf
  None = None
  Aggregator = {job, api}
  Agent = {agent}
  Scheduled = {job}
  MaxCalls = 2
  MaxFaults = 1
SPECIFICATION FairSpec
INVARIANTS OneRowPerAggregator PatternFollowsHistory
PROPERTIES LoneTaskIsExact ProcessedIsRecorded
CHECK_DEADLOCK FALSE
