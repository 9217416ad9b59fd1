SPECIFICATION FairSpec
CONSTANTS
  t1 = t1
  t2 = t2
  t3 = t3
  p1 = p1
  p2 = p2
  Thread <- MCThread
  Process <- MCProcess
  ProcessOf <- MCProcessOf
  Binary = {b1, b2, b3}
  Tree = {tree, tree_1}
  MaxCrashes = 1
  NoOne = NoOne
INVARIANTS OneBuildPerTree ServedFindsBinary
PROPERTIES NeverRebuilt EveryRequestEnds ImplementsBinaryStore
