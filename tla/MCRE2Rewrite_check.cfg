SPECIFICATION Spec
CONSTANTS
  NULL = NULL
  Patterns <- MCPatterns
  EmptyPattern <- MCEmptyPattern
  Options <- MCOptions
  Texts <- MCTexts
  Build <- MCBuild
  Utf8Pattern <- MCUtf8Pattern
  CPattern <- MCCPattern
  Recode <- MCRecode
  Whole <- MCWhole
  EmptyClassError <- MCEmptyClassError
  NumGroups <- MCNumGroups
  Captures <- MCCaptures
  AddrSpace = 32
  Base = 8
  MaxArgs = 2
  Rewrites <- MCRewrites
  Utf8 <- MCUtf8
  Spans <- MCSpans
  Expand <- MCExpand
PROPERTIES
  CheckedRewriteWorks
CHECK_DEADLOCK FALSE
