CONSTANTS
  x = x  y = y  z = z
  scheduler = scheduler  api = api
  Payload = {x, y, z}
  Session = {scheduler, api}
  NoPayload = NoPayload
  MaxRuns = 4
  MaxBreaks = 1
SPECIFICATION FairSpec
INVARIANTS RecordsFollow
PROPERTIES StoreIsAtomic RunsEnd
CHECK_DEADLOCK FALSE
