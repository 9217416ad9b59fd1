SPECIFICATION FairSpec
CONSTANTS
  t1 = t1
  t2 = t2
  t3 = t3
  p1 = p1
  p2 = p2
  Thread <- MCThread
  Process <- MCProcess
  ProcessOf <- MCProcessOf
  Asks = 1
  Attempts = 2
  MaxCrashes = 1
  NoOne = NoOne
INVARIANTS TotalsCountTheRows WastedOnlyAfterDeath
PROPERTIES EveryPromptEnds
