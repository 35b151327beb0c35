\* Two logins, two storage servers, the queue bounded at five messages and
\* periodic redistribution after 1 * (1 + servers) data changes (30 in the
\* code) so that it happens within the client's three commands.
CONSTANTS
  Keys = {1, 2}
  Top = 3
  ManagerPid = 100
  ClientPid = 200
  StoragePids <- MCStoragePids
  ClientScript <- MCClientScript
  TerminalScript <- MCTerminalScript
  QueueCap = 5
  ChangeFactor = 1
SPECIFICATION Spec
INVARIANT RoutingInRange
\* Every process blocks for good once its input is used up.
CHECK_DEADLOCK FALSE
