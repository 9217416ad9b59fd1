SPECIFICATION FairSpec
CONSTANTS
  Knob <- MCKnob
  SearchSpace <- MCSearchSpace
  LevelOf <- MCLevelOf
  Shape <- MCKnob
  Order <- MCOrder
  ConcernKnobs <- MCConcernKnobs
  Stock <- MCStock
  Buildable <- MCBuildable
  Pool <- MCPool
  RandomDesigns <- MCRandom
  SheetDesigns <- MCSheet
  Landscapes <- AllLandscapes
  FlatTolerance = 0
  WAVE = 2
  OPENINGS = 1
  PLATEAU = 4
  Budget = 5
  MaxRounds = 4
  RepairFits = TRUE
  Interruptible <- MCInterruptible
  None = None
INVARIANTS MeasuredDesignsFit
