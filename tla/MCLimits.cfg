SPECIFICATION FairSpec
CONSTANTS
  StackSize = 7
  FrameLimit = 4
  ByteMod = 4
  AllocBy = 8
  IntLimit = 4
  DoubleValues = {3}
  Programs <- MCPrograms
  Modules <- MCModules
INVARIANTS TypeOK FrameDiscipline NeverWild StackSound CompiledRunsSafely JumpsForward PlainStaysInside
PROPERTIES Termination Advances
