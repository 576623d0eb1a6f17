SPECIFICATION BatchSpec
CONSTANTS
  Nodes <- MCNodes
  NoNode = 9
  Infinity = 99
  TopK = 2
  MaxDeviceSort = 4
  Dim = 3
  PageScalars = 7
  WarpLanes = 2
  Vectors <- MCVectors
  QueryCount = 2
  Capacity = 5
  QueryVectors <- MCQueries
  ErrorBounds <- MCErrorBounds
  Requests = {}
  Uninitialised <- MCMemory
  Base <- MCBase
  Fine <- MCFine
  Residual <- MCResidual
  Hybrid <- MCHybrid
  Batches <- MCBatches
  MaxRuns = 2
INVARIANTS ThresholdIsKth
PROPERTIES ImplementsRerank
