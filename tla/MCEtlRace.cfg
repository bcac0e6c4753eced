SPECIFICATION Spec
CHECK_DEADLOCK FALSE
CONSTANTS
  r1 = r1
  r2 = r2
  r3 = r3
  r4 = r4
  r5 = r5
  candle = candle
  product = product
  s1 = s1
  s2 = s2
  Identity = {candle}
  Product = product
  Source = {s1, s2}
  None = None
  IdentityOf <- MCIdentityOf
  Payload <- MCPayload
  SourceOf <- MCSourceOf
  Raw = {r3}
  Row = {w1, w2}
  Normalizers = {n1, n2}
  Processors = {p1}
  Limit = 1
  MaxCrashes = 0
  MaxFaults = 0
INVARIANTS
  AtMostOneRowPerRaw
