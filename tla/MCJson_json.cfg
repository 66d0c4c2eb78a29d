CONSTANTS
  MaxInt = 7
  LargestInt = 16
  RightMargin = 12
  Tokens <- Common
  FirstTokens <- Rare
  MaxTokens = 10
  WideTokens = 3
  MaxComments = 1
  Modes <- ReaderModes
  Keys <- ProgramKeys
  NewValues <- ProgramValues
  Sizes = {0, 1, 3}
  MaxEdits = 2
SPECIFICATION JsonFair
INVARIANTS
  NodesAlive
  ErrorsExplain
  
  NumbersAreExact
  
PROPERTIES
  ParseReturns
CHECK_DEADLOCK FALSE
