SPECIFICATION Spec
CONSTANTS
  InputScripts <- Scripts
  InputFiles <- Leftovers
  NoText = ""
INVARIANTS
  SnapshotIsTheSurface
  CompareIsExact
PROPERTIES
  OldSnapshotKept
