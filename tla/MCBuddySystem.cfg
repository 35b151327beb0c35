CONSTANTS
  SpacePower = 5
  Word = 1
  Requests <- MCRequests
  StaleFrees = FALSE
  NULL = NULL
  Self = Self
  Garbage = Garbage
  Outside = Outside
SPECIFICATION Spec
INVARIANTS TypeOK BuddyStructure FreeListWellFormed HeldBlocksLive HeldAccounting
PROPERTIES FitModeHonoured
CHECK_DEADLOCK FALSE
