SPECIFICATION Spec
CONSTANTS
  MaxSourcePaths = 2
  StaticToolReserve = 12
  ModuleMapReserve = 10
  ExitCodes <- FewExitCodes
  BlindSets <- FewBlindSets
  MaxOptions = 3
INVARIANTS
  TypeOK
  VerdictMatchesTools
  ReceiptIsTrue
  VerdictHasEvidence
  LeftoverUntouched
  ArgvFits
PROPERTIES
  KeepsPromise
  EventuallyExits
