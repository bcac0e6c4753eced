SPECIFICATION FairSpec
CONSTANTS
  btc = btc
  old = old
  job = job
  request = request
  Market = {btc}
  Listed = {btc}
  Close <- AllPriced
  MaxTime = 2
  MaxSignals = 3
  LastSignal = 0
  Tracker = {job, request}
  Scheduled = {job}
  Limit <- MCLimit
  Filter <- MCFilter
  SideOf <- AllBuy
  ScanFactor = 2
  Horizons = {1, 2}
  MaxCalls = 1
  MaxFaults = 1
PROPERTIES
  EveryDueIsEvaluated
CHECK_DEADLOCK FALSE
