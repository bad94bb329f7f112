SPECIFICATION Spec
CONSTANTS
  InputArguments <- FewArguments
  InputStreams <- FewStreams
  Limit <- SmallLimit
  NoUsr = "none"
  MainUsr = "usr:main"
INVARIANTS
  ReportIsOfTheFacts
  CleanMapIsEarned
PROPERTIES
  OldReportKept
  KeepsPromise
  EventuallyEnds
