SPECIFICATION Spec
CONSTANTS
  MaxInt = 127
  MaxExponent = 12
  BufferMax = 8
  LengthMax = 4
  MaxTokens = 11
  Sources <- MCSources
  Texts <- MCTexts
INVARIANTS
  TypeOK
  TokensAsWritten
  PositionsAsWritten
  LexerTypeOK
  SlicesAsWritten
  EndStays
