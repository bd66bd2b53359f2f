SPECIFICATION ParserSpec
CONSTANTS
  Vocabularies <- MCVocabularies
  Token <- MCToken
  Literal <- MCLiteral
  Eof = "eof"
  Error = "error"
  MaxTodo <- MCMaxTodo
CHECK_DEADLOCK FALSE
INVARIANTS
  WhatCompilesIsRight
  MoreIsAskedRightly
PROPERTIES
  CompilationEnds
