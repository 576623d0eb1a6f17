SPECIFICATION Spec
CONSTANTS
  Nodes <- MCNodes
  NoNode = 0
  Hash <- MCHash
  Warps <- MCWarps
  Width = 3
  MaxExpansions = 2
  Capacities <- MCCapacities
INVARIANTS OneSlotPerNode StoredIsFound HitIsRight DefaultSuffices
CHECK_DEADLOCK FALSE
