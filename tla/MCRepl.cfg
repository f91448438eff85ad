SPECIFICATION Spec
CONSTANTS
  IntLimit = 128
  MaxDepth = 40
  MaxLines = 3
  Lines <- MCLines
  Alphabet <- MCAlphabet
  Inputs <- TextsAndEdits
INVARIANTS
  TypeOK
  NoHoles
  AnswersAsMeant
  CallsLeaveNoTrace
  NothingFromEmptyBlocks
  PrintedUnlessEmpty
PROPERTIES
  TreesAsWritten
  SessionEnds
