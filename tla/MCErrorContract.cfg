SPECIFICATION Spec
CONSTANTS
  InputArguments <- FewArguments
  InputRecords <- FewLists
  Terminating = {"exit", "_exit"}
  Safe = {"write", "_exit"}
  MaxFunctions = 3
  MaxEvents = 4
INVARIANTS
  TypeOK
  ToldOnce
  ReachableIsLeast
  UnsafeCallsReported
  CleanIsEarned
PROPERTIES
  EventuallyEnds
