SPECIFICATION Spec
CONSTANTS
  L1Lines = 2
  L1Ways = 2
  L2Lines = 8
  L2Ways = 4
  LineWords = 2
  WordBytes = 2
  MaxBlock = 11
  Bits = {0, 1}
  HIT_WAY_MISS = 3
  InitMems <- MCInitMems
  Reads <- FlushedReads
  Writes <- FlushedWrites
  ByteWrites <- FlushedByteWrites
  Flushes <- SafeFlushes
  Preloads <- NoCalls
  Garbage <- AlignedGarbage
  GarbageWords <- AlignedGarbageWords
INVARIANTS
  ValidPrefix
  UniqueTags
  Coherent
  ICacheNeverAges
PROPERTIES
  StuckSetsStayStuck
  FlatSpec
