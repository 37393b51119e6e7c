SPECIFICATION Spec
CONSTANTS
  L1Lines = 2
  L2Lines = 4
  VaddrRange = 8
  MaxVpn = 15
  p1 = p1
  p2 = p2
  p3 = p3
  NoPage = NoPage
  PageNums <- MCPageNums
  PageTable <- MCPageTable
  Searches <- FewSearches
  Inserts <- MCInserts
  Flushes <- FlushAll
INVARIANT TypeOK
INVARIANT Translated
