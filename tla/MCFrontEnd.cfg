SPECIFICATION Spec
CONSTANTS
  ByteMod = 256
  Programs <- MCPrograms
  Sources <- MCSources
  Alphabet <- MCAlphabet
INVARIANTS
  CompilationTypeOK
  LanguageAccepted
  SameExtent
  TreeExtent
  BuiltDisciplined
  BuiltForward
  TreeAsWritten
  TreeBuilderEnds
