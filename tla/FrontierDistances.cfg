SPECIFICATION Spec
CONSTANTS
  WarpLanes = 4
  WarpCount = 2
  GroupLanes = 2
  NumChunks = 5
  Table <- MCTable
  NoNode = 9
  Infinity = 999999
  Unwritten = 500000
  Rounds = 2
  Launches <- MCLaunches
INVARIANT RightDistances
