\* The operator starts a second server and the client creates the
\* collection; every process is weakly fair.
CONSTANTS
  Keys = {1, 2}
  Top = 3
  ManagerPid = 100
  ClientPid = 200
  StoragePids <- MCStoragePids
  ClientScript <- MCClientScriptCollection
  TerminalScript <- MCTerminalScriptRun
  QueueCap = 5
  ChangeFactor = 1
SPECIFICATION FairSpec
PROPERTY HandlerReturns
CHECK_DEADLOCK FALSE
