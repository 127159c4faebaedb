SPECIFICATION Spec
CONSTANTS
  Documents = {d1}
  Folders = {f1, f2}
  Contents = {text}
  Blank = blank
  Extractions = {x1}
  Labels = {l1}
  NoFolder = NoFolder
  None = None
  MaxEdits = 1
  MaxFolderEdits = 2
  MaxDeletions = 1
  BuiltFolders = {f1}
  LateRequests = FALSE
  ReuseDeletedVersions = TRUE
  ClockTies = FALSE
CHECK_DEADLOCK FALSE
CONSTRAINT OneFolderMoves
VIEW Tables
INVARIANTS TypeOK ReadySignalsAreCurrent FolderDigestsFresh
