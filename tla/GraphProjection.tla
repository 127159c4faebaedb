-------------------------- MODULE GraphProjection --------------------------
(***************************************************************************)
(* GraphProjectionService over Neo4jGraphStore: every handler of the graph *)
(* target reads whether its event is current and then runs its statements  *)
(* in one Neo4j transaction.  The graph is kept as one record; MERGE,      *)
(* MATCH and DETACH DELETE become updates of its fields.                   *)
(***************************************************************************)
EXTENDS ProjectionFeed, Sequences

VARIABLE graph

NoNode == [state |-> "absent"]

(***************************************************************************)
(* What the mappers put into a node or a relation.                         *)
(***************************************************************************)
DocumentRelationshipNode(e) == [version |-> e.version, content |-> e.content]
DocumentSignalIdentity(e) == [version |-> e.version, content |-> e.content, label |-> e.content]
DocumentSignalRecord(d, e) ==
  [document |-> d, extraction |-> e.extraction, content |-> e.content]
FolderNode(e) ==
  [state |-> "active", version |-> e.version, parent |-> e.parent, label |-> e.label]
FolderReferenceNode == [state |-> "reference"]
FolderSignalRecord(e) == [input |-> e.input, related |-> e.related]

GraphInit ==
  graph = [documents  |-> [d \in Documents |-> NoNode],
           signals    |-> {},        \* DocumentSignal nodes
           hasSignal  |-> {},        \* document -> its DocumentSignal
           inFolder   |-> {},        \* document -> folder
           folders    |-> [f \in Folders |-> NoNode],
           childOf    |-> {},        \* folder -> parent
           folderSignals   |-> [f \in Folders |-> None],
           hasFolderSignal |-> {},   \* folders linked to their FolderSignal nodes
           about      |-> {}]        \* folder signal -> document

-----------------------------------------------------------------------------
(***************************************************************************)
(* The statements.  MERGE of a node that is only referred to leaves a node *)
(* that is there as it is.                                                 *)
(***************************************************************************)
MergeDocument(g, d, e) ==
  LET node == DocumentRelationshipNode(e)
  IN  [g EXCEPT !.documents[d] =
        [state |-> "full", version |-> node.version, content |-> node.content,
         label |-> IF @.state = "full" THEN @.label ELSE None]]
MergeDocumentSignalIdentity(g, d, e) ==
  LET node == DocumentSignalIdentity(e)
  IN  [g EXCEPT !.documents[d] =
        [state |-> "full", version |-> node.version, content |-> node.content,
         label |-> node.label]]
MergeDocumentReference(g, d) ==
  [g EXCEPT !.documents[d] = IF @ = NoNode THEN [state |-> "reference"] ELSE @]
MergeFolder(g, f, e) == [g EXCEPT !.folders[f] = FolderNode(e)]
MergeFolderReference(g, f) ==
  [g EXCEPT !.folders[f] = IF @ = NoNode THEN FolderReferenceNode ELSE @]

DeleteDocumentRelations(g, d) == [g EXCEPT !.inFolder = {r \in @ : r[1] # d}]
DeleteDocumentSignalEdges(g, d) == [g EXCEPT !.hasSignal = {r \in @ : r[1] # d}]
DeleteDocumentSignalNodes(g, d) ==
  [g EXCEPT !.signals = {n \in @ : n.document # d},
            !.hasSignal = {r \in @ : r[2].document # d}]
DeleteFolderParent(g, f) == [g EXCEPT !.childOf = {r \in @ : r[1] # f}]

\* A deleted folder is not linked to.  The folders of a snapshot are linked one by one,
\* in an order that makes no difference: a link touches its own folder alone.
LinkDocumentToFolders(g, d, F) ==
  LET merged == [g EXCEPT !.folders = [f \in Folders |->
                   IF f \in F /\ @[f] = NoNode THEN FolderReferenceNode ELSE @[f]]]
  IN  [merged EXCEPT !.inFolder =
        @ \cup {<<d, f>> : f \in {f \in F : merged.folders[f].state # "deleted"}}]
LinkFolderToParent(g, f, parent) ==
  LET merged == MergeFolderReference(g, parent)
  IN  [merged EXCEPT !.childOf =
        @ \cup {<<f, h>> : h \in {h \in {parent} : merged.folders[h].state # "deleted"}}]

MergeDocumentSignal(g, d, e) == [g EXCEPT !.signals = @ \cup {DocumentSignalRecord(d, e)}]
LinkDocumentToSignal(g, d, e) ==
  [g EXCEPT !.hasSignal = @ \cup {<<d, DocumentSignalRecord(d, e)>>}]
MergeFolderSignal(g, f, e) == [g EXCEPT !.folderSignals[f] = FolderSignalRecord(e)]
LinkFolderToSignal(g, f) ==
  [g EXCEPT !.hasFolderSignal = @ \cup {h \in {f} : g.folders[h] # NoNode}]
LinkFolderSignalToDocuments(g, f, e) ==
  [g EXCEPT !.about = @ \cup {<<f, d>> : d \in {d \in e.related : g.documents[d] # NoNode}}]

(***************************************************************************)
(* The transactions.                                                       *)
(***************************************************************************)
ReplaceDocumentSignalNodes(g, d, e) ==
  LET identified == MergeDocumentSignalIdentity(g, d, e)
      cleared == DeleteDocumentSignalNodes(DeleteDocumentSignalEdges(identified, d), d)
  IN  LinkDocumentToSignal(MergeDocumentSignal(cleared, d, e), d, e)
ReplaceDocument(g, d, e) == ReplaceDocumentSignalNodes(MergeDocument(g, d, e), d, e)

\* Mutant: the relations of an earlier snapshot stay.
AddRelations(g, d, e) == LinkDocumentToFolders(MergeDocumentReference(g, d), d, e.folders)
ReplaceRelations(g, d, e) ==
  LinkDocumentToFolders(DeleteDocumentRelations(MergeDocumentReference(g, d), d), d, e.folders)

\* DETACH DELETE takes the node and its relations, and leaves its DocumentSignal nodes.
DeleteGraphDocument(g, d) ==
  [g EXCEPT !.documents[d] = NoNode,
            !.hasSignal = {r \in @ : r[1] # d},
            !.inFolder = {r \in @ : r[1] # d},
            !.about = {r \in @ : r[2] # d}]

\* Mutant: the folder stays where it was as well.
AddParent(g, f, e) ==
  IF e.parent = NoFolder THEN MergeFolder(g, f, e)
  ELSE LinkFolderToParent(MergeFolder(g, f, e), f, e.parent)
ReplaceFolder(g, f, e) ==
  LET unlinked == DeleteFolderParent(MergeFolder(g, f, e), f)
  IN  IF e.parent = NoFolder THEN unlinked ELSE LinkFolderToParent(unlinked, f, e.parent)

DropFolderSignals(g, f) ==
  [g EXCEPT !.folderSignals[f] = None,
            !.hasFolderSignal = @ \ {f},
            !.about = {r \in @ : r[1] # f}]

ReplaceFolderSignalNodes(g, f, e) ==
  LET merged == MergeFolderSignal(DropFolderSignals(g, f), f, e)
  IN  LinkFolderSignalToDocuments(LinkFolderToSignal(merged, f), f, e)

\* Mutant: the signals that are current go, and the stale ones stay.
DropCurrentFolderSignals(g, f, e) ==
  IF g.folderSignals[f] # None /\ g.folderSignals[f].input = e.input
  THEN DropFolderSignals(g, f) ELSE g
DropStaleFolderSignals(g, f, e) ==
  IF g.folderSignals[f] # None /\ g.folderSignals[f].input # e.input
  THEN DropFolderSignals(g, f) ELSE g

\* The node stays, as "deleted", without its relations; signals it is not linked to stay.
DeleteGraphFolder(g, f) ==
  IF g.folders[f] = NoNode THEN g
  ELSE LET gone == IF f \in g.hasFolderSignal THEN DropFolderSignals(g, f) ELSE g
       IN  [gone EXCEPT !.folders[f] = [state |-> "deleted"],
                        !.childOf = {r \in @ : f \notin {r[1], r[2]}},
                        !.inFolder = {r \in @ : r[2] # f}]

\* Neo4jGraphStore: what is replaced, and what is deleted.
Replaced(g, s, e) ==
  CASE e.type = "DOCUMENT_INDEXED" -> ReplaceDocument(g, s, e)
    [] e.type = "DOCUMENT_FOLDER_RELATIONS_INDEXED" -> ReplaceRelations(g, s, e)
    [] e.type = "FOLDER_INDEXED" -> ReplaceFolder(g, s, e)
    [] e.type = "FOLDER_SIGNALS_INDEXED" -> ReplaceFolderSignalNodes(g, s, e)
Removed(g, s, e) ==
  CASE e.type = "DOCUMENT_DELETED" -> DeleteGraphDocument(g, s)
    [] e.type = "FOLDER_SIGNALS_INVALIDATED" -> DropStaleFolderSignals(g, s, e)
    [] e.type = "FOLDER_DELETED" -> DeleteGraphFolder(g, s)

(***************************************************************************)
(* The handlers of GraphProjectionService, and the consumers that call     *)
(* them.                                                                   *)
(***************************************************************************)
ProjectDocumentGraph == <<"check", "replace">>
DropDocumentGraph == <<"delete">>
ProjectFolderGraph == <<"check", "replace">>
InvalidateFolderGraph == <<"check", "delete">>
DropFolderGraph == <<"delete">>

GraphSteps(e) ==
  CASE e.type \in {"DOCUMENT_INDEXED", "DOCUMENT_FOLDER_RELATIONS_INDEXED"} -> ProjectDocumentGraph
    [] e.type = "DOCUMENT_DELETED" -> DropDocumentGraph
    [] e.type \in {"FOLDER_INDEXED", "FOLDER_SIGNALS_INDEXED"} -> ProjectFolderGraph
    [] e.type = "FOLDER_SIGNALS_INVALIDATED" -> InvalidateFolderGraph
    [] e.type = "FOLDER_DELETED" -> DropFolderGraph

\* Each in one transaction.
GraphWrite(s, e, step) ==
  \/ step = "replace" /\ graph' = Replaced(graph, s, e)
  \/ step = "delete" /\ graph' = Removed(graph, s, e)
=============================================================================
