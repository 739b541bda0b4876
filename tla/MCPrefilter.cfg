SPECIFICATION Spec
CONSTANTS
  Chars <- MCChars
  Regexps <- MCRegexps
  Literals <- MCLiterals
  MinAtomLens = {0, 1, 2}
  CharsFromTo <- MCCharsFromTo
  Alnum <- MCAlnum
  Wide <- MCWide
  Escapable <- MCEscapable
  LowerChar <- MCLowerChar
  ByteLen <- MCByteLen
INVARIANTS
  TypeOK
  NeverPanics
  PlainRuns
  QuotedReadsBack
PROPERTIES
  GroupKeepsShortest
  BatchesCover
  CompileReturns
CHECK_DEADLOCK FALSE
