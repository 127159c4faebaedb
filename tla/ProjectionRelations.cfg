SPECIFICATION ProjectionSpec
CONSTANTS
  d1 = d1
  f1 = f1
  f2 = f2
  blank = blank
  short = short
  long = long
  Documents = {d1}
  Folders = {f1, f2}
  Contents = {blank, short, long}
  Blank = blank
  Extractions = {x1}
  l1 = l1
  l2 = l2
  Labels = {l1, l2}
  NoFolder = NoFolder
  None = None
  MaxEdits = 3
  MaxFolderEdits = 3
  MaxDeletions = 2
  BuiltFolders = {f1}
  LateRequests = FALSE
  ReuseDeletedVersions = FALSE
  ClockTies = FALSE
  ChunkCount <- Counts
  Scenarios <- OmitScenarios
CHECK_DEADLOCK FALSE
INVARIANTS GraphRelationsCurrent
