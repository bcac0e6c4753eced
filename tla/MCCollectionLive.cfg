CONSTANTS
  r1 = r1  r2 = r2  r3 = r3  l1 = l1
  exchange = exchange  shop = shop
  coin = coin  page = page
  Run = {r1, r2, l1}
  LegacyRun = {l1}
  RunSource <- MCRunSource
  Source = {exchange, shop}
  NameOf <- MCNames
  Target = {page}
  SourceOf <- MCTwoSources
  LegacyTarget = {page}
  Seeded = {page}
  Retired = {}
  Scrapers = {"job"}
  Threshold = 2
  MaxRequests = 0
  MaxDeaths = 1
SPECIFICATION FairSpec
PROPERTIES RunsEnd StaleFailureOpens
CHECK_DEADLOCK FALSE
