SPECIFICATION Spec
CONSTANTS
  TLB_LINES = 3
  MaxVpn = 4
  p1 = p1
  p2 = p2
  NoPage = NoPage
  Nodes = {n1, n2, n3, n4}
  NULL = NULL
  PageNums <- MCPageNums
  PageTable <- MCPageTable
  Searches <- Vpn
SYMMETRY NodeSymmetry
INVARIANTS
  TypeOK
  ListOK
  Translated
  FreeLinesFirst
  PushesBuildLists
  ClearFreesEachOnce
PROPERTY
  LruSpec
