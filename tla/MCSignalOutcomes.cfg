SPECIFICATION FairSpec
CONSTANTS
  btc = btc
  old = old
  job = job
  request = request
  Market = {btc, old}
  Listed = {btc}
  Close <- MCClose
  MaxTime = 3
  MaxSignals = 3
  LastSignal = 0
  Tracker = {job, request}
  Scheduled = {job}
  Limit <- MCLimit
  Horizon = 3
  Spare = 2
  Lookback = 3
  MaxCalls = 1
  MaxFaults = 1
INVARIANTS
  OutcomesAreSettled
  OneOutcomePerSignal
PROPERTIES
  SignalsAreEvaluated
CHECK_DEADLOCK FALSE
