SPECIFICATION FairSpec
CONSTANTS
  p1 = p1
  p2 = p2
  p3 = p3
  Process <- MCThree
  Cost = {1, 2}
  Cap = 3
  Calls = 2
  MaxCrashes = 1
  NoOne = NoOne
INVARIANTS NoChargeLost OverspendBounded
PROPERTIES EveryLoopStops
