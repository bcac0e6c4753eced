SPECIFICATION FairSpec
CHECK_DEADLOCK FALSE
CONSTANTS
  r1 = r1
  r2 = r2
  r3 = r3
  r4 = r4
  r5 = r5
  candle = candle
  product = product
  s1 = s1
  s2 = s2
  Identity = {candle}
  Product = product
  Source = {s1, s2}
  None = None
  IdentityOf <- MCIdentityOf
  Payload <- MCPayload
  SourceOf <- MCSourceOf
  Raw = {r1, r3, r4, r5}
  Row = {w1, w2, w3}
  Normalizers = {n1}
  Processors = {p1}
  Limit = 2
  MaxCrashes = 2
  MaxFaults = 1
INVARIANTS
  AtMostOneRowPerRaw
PROPERTIES
  PendingIsHandled
