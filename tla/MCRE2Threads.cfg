SPECIFICATION Spec
CONSTANTS
  Threads = {t1, t2}
  Lazy = Lazy
  NULL = NULL
  Done = Done
  Tables <- MCTables
  GroupNames <- MCGroupNames
  Unnamed = ""
  Ids = {1, 2, 3, 4, 5, 6, 7, 8, 9}
INVARIANTS
  TypeOK
  AnswersComplete
  HeapOwned
PROPERTIES
  ImplementsStatic
  CallsReturn
