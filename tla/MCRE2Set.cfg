SPECIFICATION Spec
CONSTANTS
  Objs = {o1, o2}
  Progs = {g1, g2}
  NULL = NULL
  Patterns <- MCPatterns
  Anchors <- MCAnchors
  Texts <- MCTexts
  Accepts <- MCAccepts
  SetAccepts <- MCSetAccepts
  Hits <- MCHits
  CText <- MCCText
  Garbage <- MCGarbage
  MaxAdds = 2
SYMMETRY Symmetry
INVARIANTS
  TypeOK
  OwnedOnce
  AnswersIdentify
PROPERTIES
  AddNumbersInOrder
  MoveKeepsIsMatch
CHECK_DEADLOCK FALSE
