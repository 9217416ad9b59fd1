SPECIFICATION FairSpec
CONSTANTS
  p1 = p1
  p2 = p2
  d1 = d1
  d2 = d2
  Process <- MCProcess
  Design <- MCDesign
  Wanted <- MCWanted
  Simulating <- MCProcess
  Threads = 2
  Killable <- MCKillable
  Unlucky <- MCUnlucky
  MaxCrashes = 1
  NoOne = NoOne
INVARIANTS AnswersAreStored CrashIsNotForgotten KillsAreNotBlamed
PROPERTIES SettledForGood BatchEnds ImplementsMeasureBatch
