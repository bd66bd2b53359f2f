SPECIFICATION Spec
CONSTANTS
  AnyLength = 3
  StringLength = 5
  NumberLength = 5
  SymbolLength = 4
  Texts <- MCTexts
  Keywords <- MCKeywords
  BinMax = 3
  HexMax = 3
CHECK_DEADLOCK FALSE
INVARIANTS
  TokensAreRight
PROPERTIES
  LexerIsASource
  TextEnds
