SPECIFICATION Spec
CONSTANTS
  Documents = {d1}
  Folders = {f1}
  Contents = {blank, text}
  Blank = blank
  Extractions = {x1}
  Labels = {l1}
  NoFolder = NoFolder
  None = None
  MaxEdits = 2
  MaxFolderEdits = 1
  MaxDeletions = 1
  BuiltFolders = {}
  LateRequests = TRUE
  ReuseDeletedVersions = FALSE
  ClockTies = FALSE
CHECK_DEADLOCK FALSE
PROPERTY DeletedStaysDeleted
