SPECIFICATION Spec
CONSTANTS
  None = None
  Zeros = Zeros
  DevicePages = 9
  ChunkPages = 2
  WriteOrders <- MCUpwards
  Indexes <- MCIndexes
  Points <- MCPoints
  Dims <- MCDims
  Chunks <- MCChunks
  Files <- MCFiles
  FilePages <- MCFilePages
  DeviceStart <- MCDeviceStart
  PerPage <- MCPerPage
  CommandLines <- MCCommandLines
  FreshTranslations <- MCFresh
  MaxRanges = 2
  SlotCount = 2
  NodeCount = 3
  Degree = 2
  Adjacency <- MCAdjacency
  Invalid = Invalid
  Garbage = Garbage
  Rebuilds = 1
  Postings <- MCPostings
  FineCentroids = 2
  EntryCount = 3
  PostingLimit = 2
  Fallback = 0
  Padding = Padding
  Assignments <- MCAssignments
  Reads = 5
  Repeats = 2
INVARIANTS ReadsExpected PinnedAsBuilt TranslationsAlive MeasuredTogether TablesOfInstalledCodes
PROPERTIES ToolEnds
