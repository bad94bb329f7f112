SPECIFICATION CollectSpec
CONSTANTS
  Rank <- TextRank
  Lowered <- None
  TypeIdentity <- None
  MacroIdentity <- MacroText
  Aliases = {}
  ErrnoProviders = {}
  InitialCapacity = 1
  ModelFacts <- FewFacts
  Capabilities = {"trace_entry", "trace_exit", "fd"}
  Role <- TraceAndFd
  SameRepository <- OneRepository
  Hash <- Colliding
  InitialSlots = 2
INVARIANTS
  TableIsTheMap
  CapabilitiesAreLeast
PROPERTIES
  EventuallyCollected
