SPECIFICATION FairSpec
CONSTANTS
  Documents = {d1}
  Folders = {f1}
  Contents = {blank, text}
  Blank = blank
  Extractions = {x1, x2}
  Labels = {l1}
  NoFolder = NoFolder
  None = None
  MaxEdits = 2
  MaxFolderEdits = 2
  MaxDeletions = 2
  BuiltFolders = {}
  LateRequests = FALSE
  ReuseDeletedVersions = FALSE
  ClockTies = FALSE
CHECK_DEADLOCK FALSE
INVARIANTS DocumentLogComplete FolderLogComplete ManifestConsistent
PROPERTIES SourcesNeverGoBack ManifestConverges
