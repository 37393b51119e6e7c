SPECIFICATION Spec
CONSTANTS
  L1Lines = 2
  L1Ways = 2
  L2Lines = 8
  L2Ways = 4
  LineWords = 2
  WordBytes = 2
  MaxBlock = 6
  Bits = {0, 1}
  HIT_WAY_MISS = 3
  InitMems <- MCInitMems
  Reads <- UnalignedReads
  Writes <- UnalignedWrites
  ByteWrites <- UnalignedByteWrites
  Flushes <- NoCalls
  Preloads <- NoCalls
  Garbage <- UnalignedGarbage
  GarbageWords <- AlignedGarbageWords
INVARIANTS
  L2NeverValid
PROPERTIES
  MemoryFootprint
  OtherSetsUntouched
