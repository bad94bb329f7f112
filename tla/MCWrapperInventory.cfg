SPECIFICATION InventorySpec
CONSTANTS
  Rank <- TextRank
  Lowered <- None
  TypeIdentity <- None
  MacroIdentity <- MacroText
  Aliases = {}
  ErrnoProviders = {}
  InitialCapacity = 1
  WrapperRole = "wrapper"
  WrapperOfRole <- OfRecv
  InputManifests <- FewManifests
  InputRoots <- FewRoots
INVARIANTS
  InventoryIsTheSources
PROPERTIES
  KnownIsKept
