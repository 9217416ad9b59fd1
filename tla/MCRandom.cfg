SPECIFICATION FairSpec
CONSTANTS
  stock = stock
  d1 = d1
  d2 = d2
  d3 = d3
  d4 = d4
  d5 = d5
  Design <- MCDesign
  Stock = stock
  Chips <- MCChips
  Runs <- MCRuns
  Interruptible <- MCKilled
  Budget = 2
  Batch = 3
  Spares = 2
INVARIANTS SameSequenceWhateverBatch RebuiltUpToAKill
PROPERTIES EndsWhenSparesSuffice ImplementsAnytimeSearch
