------------------------- MODULE MCProjectionTargets -------------------------
(***************************************************************************)
(* Instances of ProjectionTargets for TLC.                                 *)
(***************************************************************************)
EXTENDS ProjectionTargets

CONSTANTS d1, f1, f2, blank, short, long, l1, l2

Counts == [c \in Contents |-> IF c = Blank THEN 0 ELSE IF c = short THEN 1 ELSE 2]

Nothing ==
  [target |-> "chunks", contents |-> {}, snapshots |-> {}, omits |-> FALSE, docEdits |-> 0,
   docDeletions |-> 0, folders |-> {}, parents |-> {}, labels |-> {l1}, folderEdits |-> 0,
   folderDeletions |-> 0, builds |-> FALSE,
   watched |-> Sources, faults |-> 2]
OfDocuments(target, edits, deletions, faulty) ==
  [Nothing EXCEPT !.target = target, !.contents = Contents, !.omits = TRUE,
                  !.docEdits = edits, !.docDeletions = deletions, !.faults = faulty]
ChunkScenario == OfDocuments("chunks", 2, 1, 1)
DocumentScenario == OfDocuments("documents", 2, 1, 2)
SignalScenario == OfDocuments("signals", 2, 1, 1)
FolderScenario ==
  [Nothing EXCEPT !.target = "folders", !.folders = {f1}, !.parents = {NoFolder, f2},
                  !.labels = Labels, !.folderEdits = 2, !.folderDeletions = 1, !.faults = 1]
FolderSignalScenario ==
  [Nothing EXCEPT !.target = "signals", !.contents = {short}, !.snapshots = {{f1}},
                  !.docEdits = 2, !.docDeletions = 1, !.folders = {f1}, !.parents = {NoFolder},
                  !.folderEdits = 1, !.builds = TRUE, !.watched = {f1}, !.faults = 0]
DeletedFolderSignalScenario ==
  [FolderSignalScenario EXCEPT !.docEdits = 1, !.docDeletions = 0, !.folderDeletions = 1, !.faults = 1]
GraphScenario ==
  [Nothing EXCEPT !.target = "graph", !.contents = {short}, !.snapshots = {{}, {f1}},
                  !.docEdits = 2, !.docDeletions = 1, !.folders = {f1}, !.parents = {NoFolder},
                  !.folderEdits = 1, !.faults = 0]
GraphFaultScenario == [GraphScenario EXCEPT !.docDeletions = 0, !.faults = 1]
GraphTreeScenario ==
  [Nothing EXCEPT !.target = "graph", !.contents = {short}, !.snapshots = {{f1}},
                  !.docEdits = 1, !.folders = {f1, f2}, !.parents = {NoFolder, f1},
                  !.folderEdits = 1, !.folderDeletions = 1, !.faults = 0]
GraphMoveScenario ==
  [Nothing EXCEPT !.target = "graph", !.contents = {short}, !.snapshots = {{f1}},
                  !.docEdits = 1, !.folders = {f1}, !.parents = {NoFolder, f2},
                  !.folderEdits = 2, !.faults = 1]
GraphSignalScenario ==
  [Nothing EXCEPT !.target = "graph", !.contents = {short}, !.snapshots = {{f1}},
                  !.docEdits = 1, !.docDeletions = 1, !.folders = {f1}, !.parents = {NoFolder},
                  !.folderEdits = 1, !.builds = TRUE, !.faults = 0]
DeletedGraphSignalScenario ==
  [GraphSignalScenario EXCEPT !.docDeletions = 0, !.folderDeletions = 1]
\* The folder comes back after its deletion.
RevivedGraphSignalScenario ==
  [DeletedGraphSignalScenario EXCEPT !.docEdits = 0, !.folderEdits = 2]

\* A version that leaves folder_ids out.
OmittedSnapshot ==
  [Nothing EXCEPT !.target = "graph", !.contents = {short}, !.snapshots = {{f1}},
                  !.omits = TRUE, !.docEdits = 2, !.faults = 0]

AllScenarios ==
  {ChunkScenario, DocumentScenario, SignalScenario, FolderScenario, FolderSignalScenario,
   DeletedFolderSignalScenario, GraphFaultScenario,
   GraphScenario, GraphTreeScenario, GraphMoveScenario,
   GraphSignalScenario, DeletedGraphSignalScenario, RevivedGraphSignalScenario}
OmitScenarios == {OmittedSnapshot}
=============================================================================
