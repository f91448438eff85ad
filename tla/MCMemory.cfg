SPECIFICATION Spec
CONSTANTS
  a = a
  b = b
  c = c
  d = d
  s = s
  t = t
  Null = Null
  Blocks <- MCBlocks
  Names <- MCNames
SYMMETRY Symmetry
INVARIANTS
  TypeOK
  Linked
  PreviousBehind
  SymbolsOwnStrings
