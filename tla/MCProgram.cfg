SPECIFICATION Spec
CONSTANTS
  PageSize = 8
  PdEntries = 2
  FirstSize = 3
  PointerBytes = 2
  CommandBytes = 4
  WordBytes = 4
  MaxByte = 255
  Unset = Unset
  Files <- MCFiles
  AddedByCaller <- MCAdded
  GarbageCommands <- MCGarbage
  MaxLines = 5
INVARIANTS
  TypeOK
  OverrunOnlyAfterShrink
  ReadsAreLoaded
  WritesAreNeverLoaded
PROPERTIES
  ListSpec
  ReadReturns
CHECK_DEADLOCK FALSE
