SPECIFICATION Spec
CONSTANTS
  Nodes <- MCNodes
  NoNode = 9
  Infinity = 99
  TopK = 2
  MaxDeviceSort = 4
  Dim = 3
  PageScalars = 7
  WarpLanes = 2
  Vectors <- MCVectors
  QueryCount = 2
  Capacity = 4
  QueryVectors <- MCQueries
  ErrorBounds <- MCErrorBounds
  Requests <- MCHoles
  Uninitialised <- MCMemory
INVARIANT AnswersBaseline
CHECK_DEADLOCK FALSE
