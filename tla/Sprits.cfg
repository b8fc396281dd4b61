SPECIFICATION FairSpritsSpec
CONSTANTS
  Tokens <- MCTokens
  MaxTokens = 3
  Abbreviates <- MCAbbreviates
  Texts <- MCTexts
  PortOf <- MCPortOf
INVARIANTS
  TypeOK
  ParserAgrees
  CallsMeetWholeObjects
  TableIsSafe
  NothingRunsAfterClose
PROPERTIES
  StopEnds
CHECK_DEADLOCK FALSE
