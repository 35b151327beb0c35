CONSTANTS
  Nodes = {n1, n2, n3, n4, n5, n6}
  NULL = NULL
  Keys <- MCKeys
  Fuel <- MCFuel
  DistinctKeys = TRUE
INIT Init
NEXT InsertNext
INVARIANTS
  TypeOK
  IndexExact
  InOrderSorted
  ParentLinksConsistent
CHECK_DEADLOCK FALSE
