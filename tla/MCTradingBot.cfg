CONSTANTS
  None = None
  Price <- MCPrice
  StopPct = 3
  ActivatePct = 1
  TakePct = 6
  LossLimit = 5
  MaxTradesPerDay = 2
  MaxLots = 3
  MaxFaults = 1
  MaxCrashes = 1
  LastDay = 1
SPECIFICATION FairSpec
INVARIANTS AccountAgrees HoldingsBound PauseIsFlat NoEntryAfterLoss OpenedPerDay BookedOnce
PROPERTIES RowTightens StopLossExits
CHECK_DEADLOCK FALSE
