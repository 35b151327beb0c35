CONSTANTS
  Pools = {1}
  Schemas = {1}
  Colls <- MCColls
  Keys <- MCKeys
  Values = {v1, v2}
  Absent = Absent
  Ids <- MCIds
  Modes <- MCModes
  T = 2
  CntMod <- MCCntMod
  UninitCnt <- MCUninitCnt
  MaxDrift = 2
SPECIFICATION Spec
INVARIANTS TypeOK
 
