SPECIFICATION Spec
CONSTANTS
  Nodes <- MCFewNodes
  NoNode <- MCNoNode
  Dist <- MCTiedDist
  HashBits <- MCSharedBits
  TopL = 3
  Capacity = 4
  Slots = 4
  Degree = 2
  Width = 2
  Warps = 2
  WordBits = 2
  MaxExpansions = 3
  Launches <- MCLaunches
  LearnedTopK = 1
  Graphs <- MCPaddedGraphs
  EntryLists <- MCFewEntries
  StaleRows <- MCBlankRow
INVARIANTS SortedList PrefixInHash ExpansionBudget LocalMinimum EarlyStopSettled LearnedStopEarned
PROPERTIES RankMonotone
CHECK_DEADLOCK FALSE
