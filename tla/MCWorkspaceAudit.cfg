SPECIFICATION Spec
CONSTANTS
  InputRuns <- FewRuns
  FirstCapacity = 1
  ApiCapacity = 3
  RowCapacity = 3
  TableCapacity = 3
  TestCount = 2
  NoText = ""
  Absent = Absent
  PathLimit = 3
  RepositoryLimit = 2
  ScanCapacity = 3
  BuildNames = {"build-x"}
  OddItem = OddItem
  Domains <- ThreeDomains
  Retired = {"old", "older"}
  EnumCapacity = 2
INVARIANTS
  PolicyIsEarned
  ReceiptIsOfTheVerdict
PROPERTIES
  KeepsPromise
  EventuallyEnds
