\* Four servers with up to two records each: the smallest setting in which
\* the left-transfer loop of redistribute_path_keys reuses a deficit.
CONSTANTS
  ServerCnt = 4
  MaxRecords = 2
SPECIFICATION Spec
INVARIANT Balanced
\* The plan is finite: every behaviour ends when its transfers are made.
CHECK_DEADLOCK FALSE
