CONSTANTS
  r1 = r1  r2 = r2  r3 = r3  l1 = l1
  exchange = exchange  shop = shop
  coin = coin  page = page
  Run = {r1, r2, r3}
  LegacyRun = {}
  RunSource <- MCRunSource
  Source = {exchange, shop}
  NameOf <- MCOneName
  Target = {coin, page}
  SourceOf <- MCOneSource
  LegacyTarget = {}
  Seeded = {page}
  Retired = {}
  Scrapers = {}
  Threshold = 2
  MaxRequests = 2
  MaxDeaths = 1
SPECIFICATION Spec
SYMMETRY MCSymmetry
INVARIANTS OpensOnce CircuitHolds
PROPERTIES OpensOnFailures OnlyOverlappedAreOverwritten
CHECK_DEADLOCK FALSE
