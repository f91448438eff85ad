SPECIFICATION FairSpec
CONSTANTS
  StackSize = 24
  FrameLimit = 8
  ByteMod = 256
  AllocBy = 512
  IntLimit = 128
  DoubleValues = {3}
  Programs <- MCPrograms
  Modules <- MCModules
INVARIANTS RunsAsMeant KeepsDiscipline
PROPERTIES ReturnReplacesArguments CallerSlotsIntact ImplementsActivations
