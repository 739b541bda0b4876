SPECIFICATION Spec
CONSTANTS
  Inputs <- MCInputs
  Types <- MCTypes
  Radixes <- MCRadixes
  LongBits = 8
  kMaxNumberLength = 7
  kMaxLength = 9
  MaxFloat = 480
  Rounded <- MCRounded
  Fraction <- MCFraction
  Garbage <- MCGarbage
INVARIANTS
  TypeOK
  IntegersExact
  FloatsSkipSpaces
CHECK_DEADLOCK FALSE
