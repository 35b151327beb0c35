CONSTANTS
  Space = 16
  Word = 1
  SizeMod = 32
  Requests <- MCRequests
  StaleFrees = FALSE
  RacyFitMode = TRUE
  NULL = NULL
  Self = Self
  Garbage = Garbage
  Outside = Outside
SPECIFICATION Spec
INVARIANTS TypeOK ArenaWellFormed Accounting
PROPERTIES NoSpuriousExhaustion FitModeHonoured ImplementsContract
