SPECIFICATION Spec
CONSTANTS
  Rank <- TextRank
  Lowered <- LoweredRead
  TypeIdentity <- FnIdentity
  MacroIdentity <- MacroText
  Aliases <- GetcAlias
  ErrnoProviders <- Errno
  InitialCapacity = 1
  Paths <- OnePath
  InputFacts <- UpToThree
  InputInventories <- FewInventories
  InputArguments <- FewArguments
INVARIANTS
  FindingsAreExact
  IdentityIsCopyable
  AuditMeansRulesMatch
