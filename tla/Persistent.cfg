SPECIFICATION Spec
CONSTANTS
  Nodes <- MCNodes
  NoNode = 9
  Infinity = 8
  TopK = 2
  Budget = 5
  HeadProbe = 2
  Exact <- MCExact
  Requests <- MCRequests
INVARIANTS EarlyStopStable ReplayReproduces
PROPERTIES ProbedIsReadNext ImplementsRerank Terminates
CHECK_DEADLOCK FALSE
