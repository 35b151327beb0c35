CONSTANTS
  Space = 10
  Word = 1
  SizeMod = 32
  Requests <- MCRequests
  NULL = NULL
  Self = Self
  Garbage = Garbage
  Outside = Outside

SPECIFICATION Spec

INVARIANT TypeOK
INVARIANT ArenaWellFormed
INVARIANT Accounting
INVARIANT Coalesced

PROPERTY NoSpuriousExhaustion
PROPERTY FitModeHonoured
PROPERTY ImplementsContract
