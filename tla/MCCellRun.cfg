SPECIFICATION FairSpec
CONSTANTS
  j1 = j1
  j2 = j2
  j3 = j3
  Run <- MCRun
  Order <- MCOrder
  MaxParallel = 2
  Sets <- MCSets
  Ways <- MCWays
  StockShape <- MCStockShape
  Characterised <- MCCharacterised
  Fitting <- MCFitting
  Ship <- MCShip
  LADDER_DOWN = 4
  LADDER_UP = 4
  WAYS_MENU <- MCWaysMenu
  NoNumbers <- MCNoNumbers
  Area <- MCArea
  Leakage <- MCLeakage
  Latency <- MCLatency
  AreaBudget = 10
  AreaBudgetKb = 20
  PowerBudget = 2
  NoCap = NoCap
  PowerCap = 2
  Draw <- MCDraw
  OldDraw <- MCOldDraw
  Broken <- MCBroken
  History <- MCHistory
  Window = 1
  MaxDeaths = 1
  Nothing = Nothing
INVARIANTS StockIsFirstFit EveryRunReported ScoresReadTheRuns
PROPERTIES CellEnds
