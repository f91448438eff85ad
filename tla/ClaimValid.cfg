SPECIFICATION Spec
CONSTANTS
  ByteMod = 256
  Programs <- Sums
  Sources <- MCSources
  Alphabet = {}
INVARIANT SyntaxAnalysisResponsible
