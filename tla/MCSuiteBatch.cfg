SPECIFICATION SuiteSpec
CONSTANTS
  d1 = d1
  d2 = d2
  w1 = w1
  w2 = w2
  Design <- MCDesign
  Suite <- MCSuite
  Wanted <- MCWanted
  Old <- MCOld
  Killable <- MCKillable
  
PROPERTIES ImplementsMeasureBatch
