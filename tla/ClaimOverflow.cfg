SPECIFICATION FairSpec
CONSTANTS
  StackSize = 6
  FrameLimit = 6
  ByteMod = 256
  AllocBy = 8
  IntLimit = 128
  DoubleValues = {3}
  Programs <- Pending
  Modules <- MCModules
INVARIANT OverflowRefused
