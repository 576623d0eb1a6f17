SPECIFICATION Spec
CONSTANTS
  PageCount = 3
  SlotCount = 2
  AddressSpan = 3
  Threads <- MCThreads
  Block <- MCBlock
  Tiles <- MCTiles
INVARIANTS PinnedPageStable ValidIsCached
PROPERTIES EveryTileServed
CHECK_DEADLOCK FALSE
