CONSTANTS
  Space = 8
  OccMeta = 1
  AvailMeta = 2
  Requests <- MCRequests
  Fuel <- MCFuel
  StaleFrees = FALSE
  NULL = NULL
  Outside = Outside
INIT Init
NEXT Next
INVARIANTS
  TypeOK
  BlockListWellFormed
  HeldRegionsInArena
CHECK_DEADLOCK FALSE
