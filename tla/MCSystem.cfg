SPECIFICATION SysSpec
CONSTANTS
  L1Lines = 2
  L1Ways = 1
  L2Lines = 2
  L2Ways = 2
  LineWords = 2
  WordBytes = 2
  MaxBlock = 11
  Bits = {0, 1, 2}
  HIT_WAY_MISS = 3
  PageSize = 8
  PdEntries = 2
  InitMems <- MCInitMems
  Reads <- NoCalls
  Writes <- NoCalls
  ByteWrites <- NoCalls
  Flushes <- NoCalls
  Preloads <- NoCalls
  Garbage <- MCZeroEntry
  GarbageWords <- MCZeroWord
  WordValue <- MCWordValue
  Image <- MCImage
  Unread <- MCUnread
  ReadLengths = {0, 3, 5, 12}
  Descriptions <- MCDescriptions
  ProgramCommands <- MCProgramCommands
INVARIANTS
  WalksSeeCachedTables
PROPERTIES
  RemapsOnlyWrittenEntries
  TranslatedSpec
CHECK_DEADLOCK FALSE
