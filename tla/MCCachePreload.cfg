SPECIFICATION Spec
CONSTANTS
  L1Lines = 2
  L1Ways = 2
  L2Lines = 8
  L2Ways = 4
  LineWords = 2
  WordBytes = 2
  MaxBlock = 8
  Bits = {0, 1}
  HIT_WAY_MISS = 3
  InitMems <- MCInitMems
  Reads <- PreloadedReads
  Writes <- PreloadedWrites
  ByteWrites <- NoCalls
  Flushes <- NoCalls
  Preloads <- MCPreloads
  Garbage <- RecycledGarbage
  GarbageWords <- AlignedGarbageWords
INVARIANTS
  TypeOK
