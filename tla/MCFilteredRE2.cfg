SPECIFICATION Spec
CONSTANTS
  Objs = {o1, o2}
  NoObj = NoObj
  Additions <- MCAdditions
  TotalKey <- MCTotalKey
  Texts <- MCTexts
  MinAtomLens = {3, 4}
  DefaultMinLen = 3
  Ok <- MCOk
  Matches <- MCMatches
  Panics <- MCPanics
  CString <- MCCString
  Atoms <- MCAtoms
  Lower <- MCLower
  Occurs <- MCOccurs
  MaxRegexps = 2
SYMMETRY Symmetry
INVARIANTS
  TypeOK
  OwnerMissesNothing
  OwnerFindsFirst
PROPERTIES
  MoveKeepsAnswers
  ConstCallsOnlyRead
CHECK_DEADLOCK FALSE
