SPECIFICATION Spec
CONSTANTS
  NumQueries = 5
  MicrobatchQueries = 2
  ContextDepth = 2
  Width = 1
  Warps = 1
  MaxExpansions = 1
INVARIANTS NeverThrows BuffersExclusive
PROPERTIES ImplementsRounds
CHECK_DEADLOCK FALSE
