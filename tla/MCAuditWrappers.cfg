SPECIFICATION Spec
CONSTANTS
  Rank <- TextRank
  Lowered <- None
  TypeIdentity <- None
  MacroIdentity <- MacroText
  Aliases = {}
  ErrnoProviders = {}
  InitialCapacity = 1
  WrapperRole = "wrapper"
  WrapperOfRole <- OfRead
  InputManifests <- FewManifests
  InputRoots <- FewRoots
  Paths <- OnePath
  MaxPaths = 1
  MaxNames = 2
  InputRecords <- FewRecords
  InputLines <- FewLines
INVARIANTS
  StatusIsEarned
  EarlierOutputsWhole
PROPERTIES
  KeepsPromise
