SPECIFICATION SpritsSpec
CONSTANTS
  Tokens <- MCTokens
  MaxTokens = 2
  Abbreviates <- MCAbbreviates
  Texts <- MCTexts
  PortOf <- MCPortOf
INVARIANTS
  DefaultPortIsUsed
CHECK_DEADLOCK FALSE
