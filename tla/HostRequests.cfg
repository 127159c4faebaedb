SPECIFICATION Spec
CONSTANTS
  Null = Null
  None = None
  DocumentRequests <- Documents4
  FolderRequests <- Folders
  Characters = {" ", "-", "_", "x", "y", "t", "n", "document-summary"}
  DeletedIds <- Samples
  Tenants <- RowTenants
  Affected <- FolderSequences
  Extractions <- Answers
  Policies <- ChunkPolicies
  TopK = 3
  Stores <- Worlds
  Contexts <- TaskContexts
  Plans <- TaskPlans
  Texts = {"text", ""}
  MaxChanges = 1
  Unset = Unset
  Parents <- Tree
  Memberships <- InFolders
  Requests <- Transactions
  MaxBegun = 3
  MaxOpen = 3
CHECK_DEADLOCK FALSE
INVARIANTS AcceptedIsDecoded ChunksCoverText GroundedInSearch FindsEndWithResult
  EvidenceOfSignals HostActionReferences ConfirmationKept
  StaleOnlyIfOverlapped DocumentsDoNotDeadlock
PROPERTIES ScopeKept HybridKeepsOrder RecommendsElsewhere
