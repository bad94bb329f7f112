SPECIFICATION ScanSpec
CONSTANTS
  Rank <- TextRank
  Lowered <- None
  TypeIdentity <- None
  MacroIdentity <- MacroText
  Aliases = {}
  ErrnoProviders = {}
  InitialCapacity = 1
  InputRecords <- UpToFour
INVARIANTS
  ScanTypeOK
  ScannedIsWhatWasSeen
  ExpansionsOwned
