SPECIFICATION Spec
CONSTANTS
  Nodes <- MCNodes
  NoNode <- MCNoNode
  Dist <- MCDist
  HashBits <- MCSharedBits
  TopL = 2
  Capacity = 4
  Slots = 2
  Degree = 2
  Width = 1
  Warps = 1
  WordBits = 2
  MaxExpansions = 4
  Launches <- MCLaunches
  LearnedTopK = 1
  Graphs <- MCDistinctRowGraphs
  EntryLists <- MCEntries
  StaleRows <- MCBlankRow
INVARIANTS ExpandedOnce
PROPERTIES ImplementsBestFirst
CHECK_DEADLOCK FALSE
