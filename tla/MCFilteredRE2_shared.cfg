SPECIFICATION Spec
CONSTANTS
  Objs = {o1, o2}
  NoObj = NoObj
  Additions <- SharedAdditions
  TotalKey <- MCTotalKey
  Texts <- MCTexts
  MinAtomLens = {3}
  DefaultMinLen = 3
  Ok <- MCOk
  Matches <- MCMatches
  Panics <- MCPanics
  CString <- MCCString
  Atoms <- MCAtoms
  Lower <- MCLower
  Occurs <- MCOccurs
  MaxRegexps = 3
SYMMETRY Symmetry
INVARIANTS
  FilterMissesNothing
CHECK_DEADLOCK FALSE
