SPECIFICATION FairSpec
CONSTANTS
  StackSize = 10
  FrameLimit = 6
  ByteMod = 256
  AllocBy = 8
  IntLimit = 128
  DoubleValues = {3}
  Programs <- Mixed
  Modules <- MCModules
PROPERTY IsEqTellsEquality
