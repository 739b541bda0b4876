SPECIFICATION Spec
CONSTANTS
  NULL = NULL
  Patterns <- MCPatterns
  EmptyPattern <- MCEmptyPattern
  Options <- MCOptions
  Texts <- MCTexts
  Build <- MCBuild
  Utf8Pattern <- MCUtf8Pattern
  CPattern <- MCCPattern
  Recode <- MCRecode
  Whole <- MCWhole
  EmptyClassError <- MCEmptyClassError
  NumGroups <- MCNumGroups
  Captures <- MCCaptures
  AddrSpace = 32
  Base = 8
  MaxArgs = 2
INVARIANTS
  TypeOK
  FullMatchFormsAgree
  FindFormsAgree
  CapturesInText
  CapturesShowMatch
  SearchesAgree
PROPERTIES
  ConsumesWithinText
  StoresOnlyAfterMatch
  ScanTerminates
CHECK_DEADLOCK FALSE
