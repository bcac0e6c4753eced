SPECIFICATION FairSpec
CONSTANTS
  btc = btc
  old = old
  job = job
  request = request
  Market = {btc, old}
  Listed = {btc}
  Close <- MCClose
  MaxTime = 2
  MaxSignals = 3
  LastSignal = 0
  Tracker = {job, request}
  Scheduled = {job}
  Limit <- MCLimit
  Filter <- MCFilter
  SideOf <- MCSideOf
  ScanFactor = 2
  Horizons = {1, 2}
  MaxCalls = 1
  MaxFaults = 1
INVARIANTS
  CopiesFollowOverlap
PROPERTIES
  ScannedAreEvaluated
CHECK_DEADLOCK FALSE
