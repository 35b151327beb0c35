CONSTANTS
  T = 2
  Keys <- MCKeys
  Values = {v1}
  Nodes <- MCNodes
  Bounds <- MCBounds
  NULL = NULL
  Dead = Dead
  Absent = Absent
SPECIFICATION Spec
INVARIANTS TypeOK IsBTree NodesAccounted ObtainAgrees ObtainBetweenExact
PROPERTIES ImplementsContainer
VIEW View
