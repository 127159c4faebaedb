---------------------------- MODULE GraphProofs ----------------------------
(***************************************************************************)
(* Theorems about the graph target of ProjectionTargets, for every scenario*)
(* and any number of faults.  Each source has two facets of the graph of   *)
(* its own (a document's content and its folders; a folder's node and its  *)
(* signals), and each facet is as the last event of its types says once    *)
(* that event is behind the source's worker.  First what the transactions  *)
(* do to the facets, as operators on values; then what the logs say        *)
(* besides; then the invariant of the composition.                         *)
(***************************************************************************)
EXTENDS ProjectionProofs

-----------------------------------------------------------------------------
(***************************************************************************)
(* What the graph says of a source that its log does: g is the graph, log  *)
(* the source's events, gone the folders that were deleted once.           *)
(***************************************************************************)
IsLast(log, types, i) ==
  log[i].type \in types /\ \A j \in DOMAIN log : log[j].type \in types => j <= i

\* The place of the last event of the types, if it is of this type.
LastOf(log, types, type) == {i \in DOMAIN log : log[i].type = type /\ IsLast(log, types, i)}

Described(e) ==
  [state |-> "full", version |-> e.version, content |-> e.content, label |-> e.content]
EdgesOf(edges, x) == {r \in edges : r[1] = x}

\* A document's node and its signals.
ContentHeld(g, d, log) ==
  LET last == LastOf(log, ContentTypes, "DOCUMENT_INDEXED")
  IN  /\ \A i \in last :
           /\ g.documents[d] = Described(log[i])
           /\ EdgesOf(g.hasSignal, d) = {<<d, DocumentSignalRecord(d, log[i])>>}
      /\ last = {} => g.documents[d] = NoNode /\ EdgesOf(g.hasSignal, d) = {}

\* Its folders, but for those that were deleted once.
FoldersHeld(g, d, log, gone) ==
  LET last == LastOf(log, RelationTypes, "DOCUMENT_FOLDER_RELATIONS_INDEXED")
  IN  /\ \A i \in last :
           /\ \A r \in EdgesOf(g.inFolder, d) : r[2] \in log[i].folders
           /\ \A f \in log[i].folders : f \in gone \/ <<d, f>> \in g.inFolder
      /\ last = {} => EdgesOf(g.inFolder, d) = {}

\* A folder's node and its parent, likewise.
FolderHeld(g, f, log, gone) ==
  LET last == LastOf(log, FolderTypes, "FOLDER_INDEXED")
  IN  /\ \A i \in last :
           /\ g.folders[f] = FolderNode(log[i])
           /\ \A r \in EdgesOf(g.childOf, f) : r[2] = log[i].parent
           /\ log[i].parent \in Folders =>
                log[i].parent \in gone \/ <<f, log[i].parent>> \in g.childOf
      /\ last = {} => g.folders[f].state # "active" /\ EdgesOf(g.childOf, f) = {}

\* Its signals, if they are linked to it, as they are while it was never deleted.
SignalsHeld(g, f, log, gone) ==
  g.folderSignals[f] # None /\ (f \in g.hasFolderSignal \/ f \notin gone) =>
    /\ f \in g.hasFolderSignal
    /\ \E i \in LastOf(log, SignalTypes, "FOLDER_SIGNALS_INDEXED") :
         g.folderSignals[f] = FolderSignalRecord(log[i])

FacetsOf(s) == {k \in {"content", "relations"} : s \in Documents}
               \cup {k \in {"folder", "signals"} : s \in Folders}
TypesOf == [content |-> ContentTypes, relations |-> RelationTypes,
            folder |-> FolderTypes, signals |-> SignalTypes]

Held(g, s, k, log, gone) ==
  /\ k = "content" => ContentHeld(g, s, log)
  /\ k = "relations" => FoldersHeld(g, s, log, gone)
  /\ k = "folder" => FolderHeld(g, s, log, gone)
  /\ k = "signals" => SignalsHeld(g, s, log, gone)

IndexOf(e) == [parent |-> e.parent, label |-> e.label]

\* A folder has its node once an event that indexes it is behind its worker, but for events
\* that were out of date.
Present(g, f, log, h) ==
  \A p \in DOMAIN log : log[p].type = "FOLDER_INDEXED" /\ p <= h =>
    \/ g.folders[f] # NoNode
    \/ \E q \in DOMAIN log : /\ q > p /\ log[q].type = "FOLDER_INDEXED"
                             /\ IndexOf(log[q]) # IndexOf(log[p])

(***************************************************************************)
(* What the graph is made of.                                              *)
(***************************************************************************)
\* Its fields are, in this order, D, S, H, I, F, C, G, L and A.
GraphIs(g, D, S, H, I, F, C, G, L, A) ==
  /\ DOMAIN g = {"documents", "signals", "hasSignal", "inFolder", "folders", "childOf",
                 "folderSignals", "hasFolderSignal", "about"}
  /\ g.documents = D /\ g.signals = S /\ g.hasSignal = H /\ g.inFolder = I /\ g.folders = F
  /\ g.childOf = C /\ g.folderSignals = G /\ g.hasFolderSignal = L /\ g.about = A

GraphShape(g) ==
  /\ GraphIs(g, g.documents, g.signals, g.hasSignal, g.inFolder, g.folders, g.childOf,
             g.folderSignals, g.hasFolderSignal, g.about)
  /\ g.documents = [d \in Documents |-> g.documents[d]]
  /\ g.folders = [f \in Folders |-> g.folders[f]]
  /\ g.folderSignals = [f \in Folders |-> g.folderSignals[f]]
  /\ \A r \in g.hasSignal : r = <<r[1], r[2]>> /\ r[1] \in Documents /\ r[2].document = r[1]
  /\ g.inFolder \subseteq Documents \X Folders
  /\ g.childOf \subseteq Folders \X Folders
  /\ g.hasFolderSignal \subseteq Folders
  /\ g.about \subseteq Folders \X Documents

\* Relations start at nodes that are there.
Rooted(g) ==
  /\ \A r \in g.childOf : g.folders[r[1]] # NoNode
  /\ \A f \in g.hasFolderSignal : g.folders[f] # NoNode
  /\ \A r \in g.about : g.folderSignals[r[1]] # None => r[2] \in g.folderSignals[r[1]].related

\* A folder's node is a folder's, it says deleted only if the folder was, and the folder's
\* signals were announced.
Sourced2(g, f, log, gone) ==
  /\ g.folders[f].state \in {"absent", "reference", "active", "deleted"}
  /\ g.folders[f].state = "deleted" => f \in gone
  /\ g.folderSignals[f] # None =>
       \E j \in DOMAIN log : /\ log[j].type = "FOLDER_SIGNALS_INDEXED"
                             /\ g.folderSignals[f] = FolderSignalRecord(log[j])

\* The transaction of an event.
After(g, s, e) ==
  IF e.type \in Deletions \cup {"FOLDER_SIGNALS_INVALIDATED"} THEN Removed(g, s, e)
  ELSE Replaced(g, s, e)

-----------------------------------------------------------------------------
(***************************************************************************)
(* The transaction of each event e of a source s, from g to n.             *)
(***************************************************************************)
WithReferences(nodes, F) ==
  [f \in Folders |-> IF f \in F /\ nodes[f] = NoNode THEN FolderReferenceNode ELSE nodes[f]]

IndexesDocument(g, n, s, e) ==
  /\ e.type = "DOCUMENT_INDEXED" /\ s \in Documents
  /\ GraphIs(n, [g.documents EXCEPT ![s] = Described(e)],
             {m \in g.signals : m.document # s} \cup {DocumentSignalRecord(s, e)},
             {r \in {r \in g.hasSignal : r[1] # s} : r[2].document # s}
               \cup {<<s, DocumentSignalRecord(s, e)>>},
             g.inFolder, g.folders, g.childOf, g.folderSignals, g.hasFolderSignal, g.about)

PutsInFolders(g, n, s, e) ==
  /\ e.type = "DOCUMENT_FOLDER_RELATIONS_INDEXED" /\ s \in Documents /\ e.folders \subseteq Folders
  /\ \E folders : /\ folders = WithReferences(g.folders, e.folders)
                  /\ GraphIs(n, [g.documents EXCEPT ![s] = IF g.documents[s] = NoNode
                                   THEN [state |-> "reference"] ELSE g.documents[s]],
                             g.signals, g.hasSignal,
                             {r \in g.inFolder : r[1] # s}
                               \cup {<<s, f>> : f \in {f \in e.folders : folders[f].state # "deleted"}},
                             folders, g.childOf, g.folderSignals, g.hasFolderSignal, g.about)

DeletesDocument(g, n, s, e) ==
  /\ e.type = "DOCUMENT_DELETED" /\ s \in Documents
  /\ GraphIs(n, [g.documents EXCEPT ![s] = NoNode], g.signals,
             {r \in g.hasSignal : r[1] # s}, {r \in g.inFolder : r[1] # s},
             g.folders, g.childOf, g.folderSignals, g.hasFolderSignal,
             {r \in g.about : r[2] # s})

IndexesFolder(g, n, s, e) ==
  /\ e.type = "FOLDER_INDEXED" /\ s \in Folders
  /\ \E folders : /\ folders = WithReferences([g.folders EXCEPT ![s] = FolderNode(e)], {e.parent})
                  /\ GraphIs(n, g.documents, g.signals, g.hasSignal, g.inFolder, folders,
                             {r \in g.childOf : r[1] # s}
                               \cup {<<s, h>> : h \in {h \in {e.parent} \cap Folders :
                                                        folders[h].state # "deleted"}},
                             g.folderSignals, g.hasFolderSignal, g.about)

IndexesSignals(g, n, s, e) ==
  /\ e.type = "FOLDER_SIGNALS_INDEXED" /\ s \in Folders /\ e.related \subseteq Documents
  /\ GraphIs(n, g.documents, g.signals, g.hasSignal, g.inFolder, g.folders, g.childOf,
             [g.folderSignals EXCEPT ![s] = FolderSignalRecord(e)],
             (g.hasFolderSignal \ {s}) \cup {h \in {s} : g.folders[h] # NoNode},
             {r \in g.about : r[1] # s}
               \cup {<<s, d>> : d \in {d \in e.related : g.documents[d] # NoNode}})

DropsSignals(g, n, s, e) ==
  /\ e.type = "FOLDER_SIGNALS_INVALIDATED" /\ s \in Folders
  /\ GraphIs(n, g.documents, g.signals, g.hasSignal, g.inFolder, g.folders, g.childOf,
             [g.folderSignals EXCEPT ![s] = None], g.hasFolderSignal \ {s},
             {r \in g.about : r[1] # s})

KeepsCurrentSignals(g, n, s, e) ==
  /\ e.type = "FOLDER_SIGNALS_INVALIDATED" /\ s \in Folders
  /\ g.folderSignals[s] = None \/ g.folderSignals[s].input = e.input
  /\ n = g

DeletesFolder(g, n, s, e) ==
  /\ e.type = "FOLDER_DELETED" /\ s \in Folders /\ g.folders[s] # NoNode
  /\ GraphIs(n, g.documents, g.signals, g.hasSignal, {r \in g.inFolder : r[2] # s},
             [g.folders EXCEPT ![s] = [state |-> "deleted"]],
             {r \in g.childOf : s \notin {r[1], r[2]}},
             IF s \in g.hasFolderSignal THEN [g.folderSignals EXCEPT ![s] = None]
             ELSE g.folderSignals,
             g.hasFolderSignal \ {s},
             IF s \in g.hasFolderSignal THEN {r \in g.about : r[1] # s} ELSE g.about)

DeletesNothing(g, n, s, e) ==
  e.type = "FOLDER_DELETED" /\ s \in Folders /\ g.folders[s] = NoNode /\ n = g

Transacts(g, n, s, e) ==
  \/ IndexesDocument(g, n, s, e) \/ PutsInFolders(g, n, s, e) \/ DeletesDocument(g, n, s, e)
  \/ IndexesFolder(g, n, s, e) \/ IndexesSignals(g, n, s, e)
  \/ DropsSignals(g, n, s, e) \/ KeepsCurrentSignals(g, n, s, e)
  \/ DeletesFolder(g, n, s, e) \/ DeletesNothing(g, n, s, e)

EventFor(s, e) == (s \in Documents => e \in DocumentEvents) /\ (s \in Folders => e \in FolderEvents)

LEMMA ReplaceDocumentIs ==
  ASSUME NEW g, GraphShape(g), NEW s \in Documents, NEW e, e.type = "DOCUMENT_INDEXED"
  PROVE  IndexesDocument(g, ReplaceDocument(g, s, e), s, e)
BY ZenonT(60)
   DEF ReplaceDocument, ReplaceDocumentSignalNodes, MergeDocument, MergeDocumentSignalIdentity,
       DeleteDocumentSignalEdges, DeleteDocumentSignalNodes, MergeDocumentSignal,
       LinkDocumentToSignal, GraphIs, Described, DocumentSignalIdentity, DocumentRelationshipNode,
       GraphShape, IndexesDocument

LEMMA ReplaceRelationsIs ==
  ASSUME NEW g, GraphShape(g), NEW s \in Documents, NEW e,
         e.type = "DOCUMENT_FOLDER_RELATIONS_INDEXED", e.folders \subseteq Folders
  PROVE  PutsInFolders(g, ReplaceRelations(g, s, e), s, e)
<1> DEFINE folders == WithReferences(g.folders, e.folders)
<1>1. GraphIs(ReplaceRelations(g, s, e),
              [g.documents EXCEPT ![s] = IF g.documents[s] = NoNode
                                   THEN [state |-> "reference"] ELSE g.documents[s]],
              g.signals, g.hasSignal,
              {r \in g.inFolder : r[1] # s}
                \cup {<<s, f>> : f \in {f \in e.folders : folders[f].state # "deleted"}},
              folders, g.childOf, g.folderSignals, g.hasFolderSignal, g.about)
  BY DEF ReplaceRelations, LinkDocumentToFolders, DeleteDocumentRelations, MergeDocumentReference,
         GraphIs, GraphShape, WithReferences
<1> HIDE DEF folders
<1> QED
  BY <1>1 DEF PutsInFolders, folders

LEMMA DeleteGraphDocumentIs ==
  ASSUME NEW g, GraphShape(g), NEW s \in Documents, NEW e, e.type = "DOCUMENT_DELETED"
  PROVE  DeletesDocument(g, DeleteGraphDocument(g, s), s, e)
BY DEF DeleteGraphDocument, GraphIs, GraphShape, DeletesDocument

LEMMA ReplaceFolderIs ==
  ASSUME NEW g, GraphShape(g), NEW s \in Folders, NEW e, e.type = "FOLDER_INDEXED",
         e.parent \in Folders \cup {NoFolder}
  PROVE  IndexesFolder(g, ReplaceFolder(g, s, e), s, e)
<1> DEFINE F1 == [g.folders EXCEPT ![s] = FolderNode(e)]
           folders == WithReferences(F1, {e.parent})
           b == DeleteFolderParent(MergeFolder(g, s, e), s)
           m == MergeFolderReference(b, e.parent)
           C1 == {r \in g.childOf : r[1] # s}
           new == {<<s, h>> : h \in {h \in {e.parent} \cap Folders : folders[h].state # "deleted"}}
           n == ReplaceFolder(g, s, e)
<1>0. NoFolder \notin Folders
  BY ConstantsAssumption
<1>1. GraphIs(b, g.documents, g.signals, g.hasSignal, g.inFolder, F1, C1,
              g.folderSignals, g.hasFolderSignal, g.about)
  BY DEF MergeFolder, DeleteFolderParent, GraphIs, GraphShape
<1>2. F1 = [x \in Folders |-> F1[x]]
  BY DEF GraphShape
<1>3. n = IF e.parent = NoFolder THEN b ELSE LinkFolderToParent(b, s, e.parent)
  BY DEF ReplaceFolder
<1>4. GraphIs(n, g.documents, g.signals, g.hasSignal, g.inFolder, folders, C1 \cup new,
              g.folderSignals, g.hasFolderSignal, g.about)
  <2> HIDE DEF b, C1, F1, n
  <2>1. CASE e.parent = NoFolder
    <3>1. folders = F1
      BY <1>0, <1>2, <2>1 DEF WithReferences
    <3>2. new = {}
      BY <1>0, <2>1
    <3> HIDE DEF new, folders
    <3> QED
      BY <1>1, <1>3, <2>1, <3>1, <3>2
  <2>2. CASE e.parent \in Folders
    <3>1. GraphIs(m, g.documents, g.signals, g.hasSignal, g.inFolder, folders, C1,
                  g.folderSignals, g.hasFolderSignal, g.about)
      <4>1. [F1 EXCEPT ![e.parent] = IF @ = NoNode THEN FolderReferenceNode ELSE @] = folders
        BY <1>2, <2>2 DEF WithReferences
      <4> HIDE DEF folders
      <4> QED
        BY <1>1, <4>1 DEF MergeFolderReference, GraphIs
    <3>2. {<<s, h>> : h \in {h \in {e.parent} : m.folders[h].state # "deleted"}} = new
      <4>1. m.folders = folders
        BY <3>1 DEF GraphIs
      <4>2. {e.parent} \cap Folders = {e.parent}
        BY <2>2
      <4> QED
        BY <4>1, <4>2
    <3>3. LinkFolderToParent(b, s, e.parent) = [m EXCEPT !.childOf = @ \cup new]
      BY <3>2 DEF LinkFolderToParent
    <3> HIDE DEF new, m, folders
    <3>4. GraphIs([m EXCEPT !.childOf = @ \cup new], g.documents, g.signals, g.hasSignal, g.inFolder,
                  folders, C1 \cup new, g.folderSignals, g.hasFolderSignal, g.about)
      BY <3>1 DEF GraphIs
    <3>5. e.parent # NoFolder
      BY <1>0, <2>2
    <3> QED
      BY <1>3, <3>3, <3>4, <3>5
  <2> QED
    BY <2>1, <2>2
<1> HIDE DEF folders, n
<1> QED
  BY <1>4 DEF IndexesFolder, folders, n

LEMMA DropFolderSignalsIs ==
  ASSUME NEW g, GraphShape(g), NEW f \in Folders
  PROVE  GraphIs(DropFolderSignals(g, f), g.documents, g.signals, g.hasSignal, g.inFolder,
                 g.folders, g.childOf, [g.folderSignals EXCEPT ![f] = None],
                 g.hasFolderSignal \ {f}, {r \in g.about : r[1] # f})
BY DEF DropFolderSignals, GraphIs, GraphShape

LEMMA ReplaceFolderSignalNodesIs ==
  ASSUME NEW g, GraphShape(g), NEW s \in Folders, NEW e, e.type = "FOLDER_SIGNALS_INDEXED",
         e.related \subseteq Documents
  PROVE  IndexesSignals(g, ReplaceFolderSignalNodes(g, s, e), s, e)
<1> DEFINE a == DropFolderSignals(g, s)
           b == MergeFolderSignal(a, s, e)
           c == LinkFolderToSignal(b, s)
           A1 == {r \in g.about : r[1] # s}
           L1 == (g.hasFolderSignal \ {s}) \cup {h \in {s} : g.folders[h] # NoNode}
           G1 == [g.folderSignals EXCEPT ![s] = FolderSignalRecord(e)]
           new == {<<s, d>> : d \in {d \in e.related : g.documents[d] # NoNode}}
<1>1. GraphIs(a, g.documents, g.signals, g.hasSignal, g.inFolder, g.folders, g.childOf,
              [g.folderSignals EXCEPT ![s] = None], g.hasFolderSignal \ {s}, A1)
  BY DropFolderSignalsIs
<1> HIDE DEF a, A1
<1>2. GraphIs(b, g.documents, g.signals, g.hasSignal, g.inFolder, g.folders, g.childOf,
              G1, g.hasFolderSignal \ {s}, A1)
  BY <1>1 DEF MergeFolderSignal, GraphIs, GraphShape
<1> HIDE DEF b, G1
<1>3. GraphIs(c, g.documents, g.signals, g.hasSignal, g.inFolder, g.folders, g.childOf, G1, L1, A1)
  BY <1>2 DEF LinkFolderToSignal, GraphIs
<1> HIDE DEF c, L1
<1>4. ReplaceFolderSignalNodes(g, s, e) = LinkFolderSignalToDocuments(c, s, e)
  BY DEF ReplaceFolderSignalNodes, a, b, c
<1>5. {<<s, d>> : d \in {d \in e.related : c.documents[d] # NoNode}} = new
  <2>1. c.documents = g.documents
    BY <1>3 DEF GraphIs
  <2> QED
    BY <2>1
<1> DEFINE n == ReplaceFolderSignalNodes(g, s, e)
<1>6. n = [c EXCEPT !.about = @ \cup new]
  BY <1>4, <1>5 DEF LinkFolderSignalToDocuments
<1> HIDE DEF new, n
<1>7. GraphIs(n, g.documents, g.signals, g.hasSignal, g.inFolder, g.folders, g.childOf, G1, L1,
              A1 \cup new)
  BY <1>3, <1>6 DEF GraphIs
<1> QED
  BY <1>7 DEF IndexesSignals, G1, L1, A1, new, n

LEMMA DeleteGraphFolderIs ==
  ASSUME NEW g, GraphShape(g), NEW s \in Folders, NEW e, e.type = "FOLDER_DELETED",
         g.folders[s] # NoNode
  PROVE  DeletesFolder(g, DeleteGraphFolder(g, s), s, e)
<1> DEFINE a == IF s \in g.hasFolderSignal THEN DropFolderSignals(g, s) ELSE g
           G1 == IF s \in g.hasFolderSignal THEN [g.folderSignals EXCEPT ![s] = None]
                 ELSE g.folderSignals
           A1 == IF s \in g.hasFolderSignal THEN {r \in g.about : r[1] # s} ELSE g.about
           F1 == [g.folders EXCEPT ![s] = [state |-> "deleted"]]
           C1 == {r \in g.childOf : s \notin {r[1], r[2]}}
           I1 == {r \in g.inFolder : r[2] # s}
           n == DeleteGraphFolder(g, s)
<1>1. GraphIs(a, g.documents, g.signals, g.hasSignal, g.inFolder, g.folders, g.childOf,
              G1, g.hasFolderSignal \ {s}, A1)
  <2>1. CASE s \in g.hasFolderSignal
    BY <2>1, DropFolderSignalsIs
  <2>2. CASE s \notin g.hasFolderSignal
    <3>1. g.hasFolderSignal \ {s} = g.hasFolderSignal
      BY <2>2
    <3> QED
      BY <2>2, <3>1 DEF GraphShape
  <2> QED
    BY <2>1, <2>2
<1>2. n = [a EXCEPT !.folders[s] = [state |-> "deleted"],
                    !.childOf = {r \in @ : s \notin {r[1], r[2]}},
                    !.inFolder = {r \in @ : r[2] # s}]
  BY DEF DeleteGraphFolder
<1> HIDE DEF a, G1, A1, n
<1>3. GraphIs(n, g.documents, g.signals, g.hasSignal, I1, F1, C1, G1, g.hasFolderSignal \ {s}, A1)
  BY <1>1, <1>2 DEF GraphIs
<1> HIDE DEF I1, F1, C1
<1> QED
  BY <1>3 DEF DeletesFolder, G1, A1, F1, C1, I1, n

LEMMA AfterIs ==
  ASSUME NEW g, GraphShape(g), NEW s \in Sources, NEW e, EventFor(s, e)
  PROVE  Transacts(g, After(g, s, e), s, e)
<1> DEFINE n == After(g, s, e)
<1>1. CASE s \in Documents
  <2>1. \/ e.type = "DOCUMENT_INDEXED"
        \/ e.type = "DOCUMENT_FOLDER_RELATIONS_INDEXED" /\ e.folders \subseteq Folders
        \/ e.type = "DOCUMENT_DELETED"
    BY <1>1 DEF DocumentEvents, EventFor
  <2>2. CASE e.type = "DOCUMENT_INDEXED"
    <3>1. n = ReplaceDocument(g, s, e)
      BY <2>2 DEF After, Deletions, Replaced
    <3> QED
      BY <1>1, <2>2, <3>1, ReplaceDocumentIs DEF Transacts
  <2>3. CASE e.type = "DOCUMENT_FOLDER_RELATIONS_INDEXED" /\ e.folders \subseteq Folders
    <3>1. n = ReplaceRelations(g, s, e)
      BY <2>3 DEF After, Deletions, Replaced
    <3> QED
      BY <1>1, <2>3, <3>1, ReplaceRelationsIs DEF Transacts
  <2>4. CASE e.type = "DOCUMENT_DELETED"
    <3>1. n = DeleteGraphDocument(g, s)
      BY <2>4 DEF After, Deletions, Removed
    <3> QED
      BY <1>1, <2>4, <3>1, DeleteGraphDocumentIs DEF Transacts
  <2> QED
    BY <2>1, <2>2, <2>3, <2>4
<1>2. CASE s \in Folders
  <2>1. \/ e.type = "FOLDER_INDEXED" /\ e.parent \in Folders \cup {NoFolder}
        \/ e.type = "FOLDER_DELETED"
        \/ e.type = "FOLDER_SIGNALS_INVALIDATED"
        \/ e.type = "FOLDER_SIGNALS_INDEXED" /\ e.related \subseteq Documents
    BY <1>2 DEF FolderEvents, EventFor
  <2>2. CASE e.type = "FOLDER_INDEXED" /\ e.parent \in Folders \cup {NoFolder}
    <3>1. n = ReplaceFolder(g, s, e)
      BY <2>2 DEF After, Deletions, Replaced
    <3> QED
      BY <1>2, <2>2, <3>1, ReplaceFolderIs DEF Transacts
  <2>3. CASE e.type = "FOLDER_SIGNALS_INDEXED" /\ e.related \subseteq Documents
    <3>1. n = ReplaceFolderSignalNodes(g, s, e)
      BY <2>3 DEF After, Deletions, Replaced
    <3> QED
      BY <1>2, <2>3, <3>1, ReplaceFolderSignalNodesIs DEF Transacts
  <2>4. CASE e.type = "FOLDER_SIGNALS_INVALIDATED"
    <3>1. n = IF g.folderSignals[s] # None /\ g.folderSignals[s].input # e.input
              THEN DropFolderSignals(g, s) ELSE g
      BY <2>4 DEF After, Deletions, Removed, DropStaleFolderSignals
    <3>2. DropsSignals(g, DropFolderSignals(g, s), s, e)
      BY <1>2, <2>4, DropFolderSignalsIs DEF DropsSignals
    <3>3. ~(g.folderSignals[s] # None /\ g.folderSignals[s].input # e.input)
            => KeepsCurrentSignals(g, g, s, e)
      BY <1>2, <2>4 DEF KeepsCurrentSignals
    <3> HIDE DEF n
    <3> QED
      BY <3>1, <3>2, <3>3 DEF Transacts, n
  <2>5. CASE e.type = "FOLDER_DELETED"
    <3>1. n = DeleteGraphFolder(g, s)
      BY <2>5 DEF After, Deletions, Removed
    <3>2. g.folders[s] = NoNode => DeletesNothing(g, DeleteGraphFolder(g, s), s, e)
      BY <1>2, <2>5 DEF DeletesNothing, DeleteGraphFolder
    <3> QED
      BY <1>2, <2>5, <3>1, <3>2, DeleteGraphFolderIs DEF Transacts
  <2> QED
    BY <2>1, <2>2, <2>3, <2>4, <2>5
<1> QED
  BY <1>1, <1>2 DEF Sources

-----------------------------------------------------------------------------
(***************************************************************************)
(* What a transaction leaves alone.                                        *)
(***************************************************************************)
LEMMA SourcesAreApart == Documents \cap Folders = {} /\ NoFolder \notin Folders
BY FeedAssumption, ConstantsAssumption

LEMMA TransactsShape ==
  ASSUME NEW g, NEW n, NEW s, NEW e, GraphShape(g), Transacts(g, n, s, e)
  PROVE  GraphShape(n)
<1>1. CASE IndexesDocument(g, n, s, e)
  <2>1. s \in Documents /\ DocumentSignalRecord(s, e).document = s
    BY <1>1 DEF IndexesDocument, DocumentSignalRecord
  <2>2. \A r \in n.hasSignal : r = <<r[1], r[2]>> /\ r[1] \in Documents /\ r[2].document = r[1]
    <3>1. n.hasSignal = {r \in {r \in g.hasSignal : r[1] # s} : r[2].document # s}
                          \cup {<<s, DocumentSignalRecord(s, e)>>}
      BY <1>1 DEF IndexesDocument, GraphIs
    <3> QED
      BY <2>1, <3>1 DEF GraphShape
  <2>3. n.documents = [d \in Documents |-> n.documents[d]]
    BY <1>1 DEF GraphShape, IndexesDocument, GraphIs
  <2>4. /\ n.inFolder = g.inFolder /\ n.folders = g.folders /\ n.childOf = g.childOf
        /\ n.folderSignals = g.folderSignals /\ n.hasFolderSignal = g.hasFolderSignal
        /\ n.about = g.about /\ DOMAIN n = DOMAIN g
    BY <1>1 DEF GraphShape, IndexesDocument, GraphIs
  <2> QED
    BY <2>2, <2>3, <2>4 DEF GraphShape, GraphIs
<1>2. CASE PutsInFolders(g, n, s, e)
  <2>1. n.folders = [f \in Folders |-> n.folders[f]] /\ n.documents = [d \in Documents |-> n.documents[d]]
    BY <1>2 DEF GraphShape, PutsInFolders, GraphIs, WithReferences
  <2>2. n.inFolder \subseteq Documents \X Folders
    <3>1. /\ s \in Documents /\ e.folders \subseteq Folders
          /\ \A r \in n.inFolder : r \in g.inFolder \/ \E f \in e.folders : r = <<s, f>>
      BY <1>2 DEF PutsInFolders, GraphIs
    <3> QED
      BY <3>1 DEF GraphShape
  <2>3. /\ n.hasSignal = g.hasSignal /\ n.childOf = g.childOf
        /\ n.folderSignals = g.folderSignals /\ n.hasFolderSignal = g.hasFolderSignal
        /\ n.about = g.about /\ DOMAIN n = DOMAIN g
    BY <1>2 DEF GraphShape, PutsInFolders, GraphIs
  <2> QED
    BY <2>1, <2>2, <2>3 DEF GraphShape, GraphIs
<1>3. CASE DeletesDocument(g, n, s, e)
  BY <1>3 DEF GraphShape, GraphIs, DeletesDocument
<1>4. CASE IndexesFolder(g, n, s, e)
  <2>1. n.folders = [f \in Folders |-> n.folders[f]]
    BY <1>4 DEF GraphShape, IndexesFolder, GraphIs, WithReferences
  <2>2. n.childOf \subseteq Folders \X Folders
    <3>1. s \in Folders /\ \A r \in n.childOf : \/ r \in g.childOf
                                               \/ \E h \in {e.parent} \cap Folders : r = <<s, h>>
      BY <1>4 DEF IndexesFolder, GraphIs
    <3> QED
      BY <3>1 DEF GraphShape
  <2>3. /\ n.documents = g.documents /\ n.hasSignal = g.hasSignal /\ n.inFolder = g.inFolder
        /\ n.folderSignals = g.folderSignals /\ n.hasFolderSignal = g.hasFolderSignal
        /\ n.about = g.about /\ DOMAIN n = DOMAIN g
    BY <1>4 DEF GraphShape, IndexesFolder, GraphIs
  <2> QED
    BY <2>1, <2>2, <2>3 DEF GraphShape, GraphIs
<1>5. CASE IndexesSignals(g, n, s, e)
  <2>1. n.folderSignals = [f \in Folders |-> n.folderSignals[f]]
    BY <1>5 DEF GraphShape, IndexesSignals, GraphIs
  <2>2. n.hasFolderSignal \subseteq Folders /\ n.about \subseteq Folders \X Documents
    <3>1. /\ s \in Folders /\ e.related \subseteq Documents
          /\ \A r \in n.about : r \in g.about \/ \E d \in e.related : r = <<s, d>>
          /\ \A f \in n.hasFolderSignal : f \in g.hasFolderSignal \/ f = s
      BY <1>5 DEF IndexesSignals, GraphIs
    <3> QED
      BY <3>1 DEF GraphShape
  <2>3. /\ n.documents = g.documents /\ n.folders = g.folders /\ n.hasSignal = g.hasSignal
        /\ n.inFolder = g.inFolder /\ n.childOf = g.childOf /\ DOMAIN n = DOMAIN g
    BY <1>5 DEF GraphShape, IndexesSignals, GraphIs
  <2> QED
    BY <2>1, <2>2, <2>3 DEF GraphShape, GraphIs
<1>6. CASE DropsSignals(g, n, s, e)
  BY <1>6 DEF GraphShape, GraphIs, DropsSignals
<1>7. CASE DeletesFolder(g, n, s, e)
  BY <1>7 DEF GraphShape, GraphIs, DeletesFolder
<1>8. CASE n = g
  BY <1>8
<1> QED
  BY <1>1, <1>2, <1>3, <1>4, <1>5, <1>6, <1>7, <1>8
     DEF Transacts, KeepsCurrentSignals, DeletesNothing

\* No node goes but that of a document, and none becomes deleted or active but that of the
\* event's own folder.
NodesStay(g, n, s) ==
  \A f \in Folders :
    /\ g.folders[f] # NoNode => n.folders[f] # NoNode
    /\ f # s => \/ n.folders[f] = g.folders[f]
                \/ g.folders[f] = NoNode /\ n.folders[f] = FolderReferenceNode

LEMMA TransactsNodes ==
  ASSUME NEW g, NEW n, NEW s, NEW e, GraphShape(g), Transacts(g, n, s, e)
  PROVE  NodesStay(g, n, s)
<1> USE DEF NodesStay
<1>1. CASE IndexesDocument(g, n, s, e)
  BY <1>1 DEF GraphIs, IndexesDocument
<1>2. CASE PutsInFolders(g, n, s, e)
  BY <1>2 DEF GraphIs, PutsInFolders, WithReferences, FolderReferenceNode, NoNode
<1>3. CASE DeletesDocument(g, n, s, e)
  BY <1>3 DEF GraphIs, DeletesDocument
<1>4. CASE IndexesFolder(g, n, s, e)
  BY <1>4 DEF GraphShape, GraphIs, IndexesFolder, WithReferences, FolderNode, FolderReferenceNode,
              NoNode
<1>5. CASE IndexesSignals(g, n, s, e)
  BY <1>5 DEF GraphIs, IndexesSignals
<1>6. CASE DropsSignals(g, n, s, e)
  BY <1>6 DEF GraphIs, DropsSignals
<1>7. CASE DeletesFolder(g, n, s, e)
  BY <1>7 DEF GraphShape, GraphIs, DeletesFolder, NoNode
<1>8. CASE n = g
  BY <1>8
<1> QED
  BY <1>1, <1>2, <1>3, <1>4, <1>5, <1>6, <1>7, <1>8
     DEF Transacts, KeepsCurrentSignals, DeletesNothing

LEMMA TransactsRooted ==
  ASSUME NEW g, NEW n, NEW s, NEW e, GraphShape(g), Rooted(g), Transacts(g, n, s, e)
  PROVE  Rooted(n)
<1>0. /\ \A f \in Folders : g.folders[f] # NoNode => n.folders[f] # NoNode
      /\ g.childOf \subseteq Folders \X Folders /\ g.hasFolderSignal \subseteq Folders
      /\ g.about \subseteq Folders \X Documents
  <2>1. NodesStay(g, n, s)
    BY TransactsNodes
  <2> QED
    BY <2>1 DEF NodesStay, GraphShape
<1>1. CASE IndexesDocument(g, n, s, e)
  BY <1>0, <1>1 DEF Rooted, GraphIs, IndexesDocument
<1>2. CASE PutsInFolders(g, n, s, e)
  BY <1>0, <1>2 DEF Rooted, GraphIs, PutsInFolders
<1>3. CASE DeletesDocument(g, n, s, e)
  BY <1>0, <1>3 DEF Rooted, GraphIs, DeletesDocument
<1>4. CASE IndexesFolder(g, n, s, e)
  <2>1. n.folders[s] # NoNode
    BY <1>4 DEF GraphShape, GraphIs, IndexesFolder, WithReferences, FolderNode, FolderReferenceNode,
                NoNode
  <2>2. \A r \in n.childOf : \/ r \in g.childOf
                            \/ \E h \in {e.parent} \cap Folders : r = <<s, h>>
    BY <1>4 DEF IndexesFolder, GraphIs
  <2>3. /\ n.hasFolderSignal = g.hasFolderSignal /\ n.about = g.about
        /\ n.folderSignals = g.folderSignals
    BY <1>4 DEF IndexesFolder, GraphIs
  <2> QED
    BY <1>0, <2>1, <2>2, <2>3 DEF Rooted
<1>5. CASE IndexesSignals(g, n, s, e)
  <2>1. n.folderSignals[s] = FolderSignalRecord(e)
        /\ \A f \in Folders \ {s} : n.folderSignals[f] = g.folderSignals[f]
    BY <1>5 DEF GraphShape, GraphIs, IndexesSignals
  <2>2. FolderSignalRecord(e).related = e.related
    BY DEF FolderSignalRecord
  <2>3. \A r \in n.about : \/ r \in g.about /\ r[1] # s
                           \/ r[1] = s /\ r[2] \in e.related
    BY <1>5 DEF GraphIs, IndexesSignals
  <2>4. \A f \in n.hasFolderSignal : g.folders[f] # NoNode
    BY <1>5 DEF GraphIs, IndexesSignals, Rooted
  <2>5. n.folders = g.folders /\ n.childOf = g.childOf
    BY <1>5 DEF GraphIs, IndexesSignals
  <2>6. ASSUME NEW r \in n.about, n.folderSignals[r[1]] # None
        PROVE  r[2] \in n.folderSignals[r[1]].related
    <3>1. CASE r \in g.about /\ r[1] # s
      <4>1. r[1] \in Folders
        BY <1>0, <3>1
      <4> QED
        BY <2>1, <2>6, <3>1, <4>1 DEF Rooted
    <3>2. CASE r[1] = s /\ r[2] \in e.related
      BY <2>1, <2>2, <3>2
    <3> QED
      BY <2>3, <3>1, <3>2
  <2> QED
    BY <1>0, <2>4, <2>5, <2>6 DEF Rooted
<1>6. CASE DropsSignals(g, n, s, e)
  <2>1. \A f \in Folders : n.folderSignals[f] = IF f = s THEN None ELSE g.folderSignals[f]
    BY <1>6 DEF GraphShape, GraphIs, DropsSignals
  <2> QED
    BY <1>0, <1>6, <2>1 DEF Rooted, GraphIs, DropsSignals
<1>7. CASE DeletesFolder(g, n, s, e)
  <2>1. \A f \in Folders : n.folderSignals[f] = g.folderSignals[f] \/ n.folderSignals[f] = None
    BY <1>7 DEF GraphShape, GraphIs, DeletesFolder
  <2>2. n.about \subseteq g.about /\ n.childOf \subseteq g.childOf
        /\ n.hasFolderSignal \subseteq g.hasFolderSignal
    BY <1>7 DEF GraphIs, DeletesFolder
  <2> QED
    BY <1>0, <2>1, <2>2 DEF Rooted
<1>8. CASE n = g
  BY <1>8
<1> QED
  BY <1>1, <1>2, <1>3, <1>4, <1>5, <1>6, <1>7, <1>8
     DEF Transacts, KeepsCurrentSignals, DeletesNothing

\* What is there of a folder, after a transaction of another source or of an event in its log.
LEMMA TransactsSourced ==
  ASSUME NEW g, NEW n, NEW s, NEW e, GraphShape(g), Transacts(g, n, s, e), NEW f \in Folders,
         NEW log, NEW gone, Sourced2(g, f, log, gone),
         f = s => (\E i \in DOMAIN log : log[i] = e) /\ (e.type = "FOLDER_DELETED" => s \in gone)
  PROVE  Sourced2(n, f, log, gone)
<1>0. /\ f # s => \/ n.folders[f] = g.folders[f]
                  \/ g.folders[f] = NoNode /\ n.folders[f] = FolderReferenceNode
  BY TransactsNodes DEF NodesStay
<1>a. n.folders[f].state \in {"absent", "reference", "active", "deleted"}
  <2>1. CASE f # s
    BY <1>0, <2>1 DEF Sourced2, FolderReferenceNode
  <2>2. CASE f = s /\ DeletesFolder(g, n, s, e)
    BY <2>2 DEF GraphShape, GraphIs, DeletesFolder
  <2>3. CASE f = s /\ IndexesFolder(g, n, s, e)
    BY <2>3 DEF GraphShape, GraphIs, IndexesFolder, WithReferences, FolderNode, FolderReferenceNode,
                NoNode
  <2>4. CASE f = s /\ (IndexesSignals(g, n, s, e) \/ DropsSignals(g, n, s, e) \/ n = g)
    BY <2>4 DEF GraphIs, IndexesSignals, DropsSignals, Sourced2
  <2>5. CASE f = s /\ s \in Documents
    BY <2>5, SourcesAreApart
  <2> QED
    BY <2>1, <2>2, <2>3, <2>4, <2>5
       DEF Transacts, KeepsCurrentSignals, DeletesNothing, IndexesDocument,
           PutsInFolders, DeletesDocument
<1>1. n.folders[f].state = "deleted" => f \in gone
  <2>1. CASE f # s
    BY <1>0, <2>1 DEF Sourced2, FolderReferenceNode
  <2>2. CASE f = s /\ e.type = "FOLDER_DELETED"
    BY <2>2
  <2>3. CASE f = s /\ IndexesFolder(g, n, s, e)
    BY <2>3 DEF GraphShape, GraphIs, IndexesFolder, WithReferences, FolderNode, FolderReferenceNode,
                NoNode
  <2>4. CASE f = s /\ (IndexesSignals(g, n, s, e) \/ DropsSignals(g, n, s, e) \/ n = g)
    BY <2>4 DEF GraphIs, IndexesSignals, DropsSignals, Sourced2
  <2>5. CASE f = s /\ s \in Documents
    BY <2>5, SourcesAreApart
  <2> QED
    BY <2>1, <2>2, <2>3, <2>4, <2>5
       DEF Transacts, KeepsCurrentSignals, DeletesNothing, DeletesFolder, IndexesDocument,
           PutsInFolders, DeletesDocument
<1>2. \/ n.folderSignals[f] = g.folderSignals[f] \/ n.folderSignals[f] = None
      \/ f = s /\ e.type = "FOLDER_SIGNALS_INDEXED" /\ n.folderSignals[f] = FolderSignalRecord(e)
  <2>1. CASE IndexesDocument(g, n, s, e) \/ PutsInFolders(g, n, s, e) \/ DeletesDocument(g, n, s, e)
             \/ IndexesFolder(g, n, s, e)
    BY <2>1 DEF GraphIs, IndexesDocument, PutsInFolders, DeletesDocument, IndexesFolder
  <2>2. CASE IndexesSignals(g, n, s, e)
    BY <2>2 DEF GraphShape, GraphIs, IndexesSignals
  <2>3. CASE DropsSignals(g, n, s, e)
    BY <2>3 DEF GraphShape, GraphIs, DropsSignals
  <2>4. CASE DeletesFolder(g, n, s, e)
    BY <2>4 DEF GraphShape, GraphIs, DeletesFolder
  <2>5. CASE n = g
    BY <2>5
  <2> QED
    BY <2>1, <2>2, <2>3, <2>4, <2>5 DEF Transacts, KeepsCurrentSignals, DeletesNothing
<1>3. n.folderSignals[f] # None =>
        \E j \in DOMAIN log : /\ log[j].type = "FOLDER_SIGNALS_INDEXED"
                              /\ n.folderSignals[f] = FolderSignalRecord(log[j])
  BY <1>2 DEF Sourced2
<1> QED
  BY <1>a, <1>1, <1>3 DEF Sourced2

-----------------------------------------------------------------------------
(***************************************************************************)
(* A facet that is not the event's keeps what the log says of it, but for  *)
(* what only a deletion takes from others.                                 *)
(***************************************************************************)
KeepsEdges(new, old, t, gone) ==
  /\ EdgesOf(new, t) \subseteq EdgesOf(old, t)
  /\ \A r \in EdgesOf(old, t) : r \in new \/ r[2] \in gone

Keeps(g, n, t, k, gone) ==
  /\ k = "content" => /\ n.documents[t] = g.documents[t]
                      /\ EdgesOf(n.hasSignal, t) = EdgesOf(g.hasSignal, t)
  /\ k = "relations" => KeepsEdges(n.inFolder, g.inFolder, t, gone)
  /\ k = "folder" =>
       /\ \/ n.folders[t] = g.folders[t]
          \/ g.folders[t] = NoNode /\ n.folders[t] = FolderReferenceNode
       /\ KeepsEdges(n.childOf, g.childOf, t, gone)
  /\ k = "signals" => /\ n.folderSignals[t] = g.folderSignals[t]
                      /\ t \in n.hasFolderSignal <=> t \in g.hasFolderSignal

LEMMA NodesDiffer ==
  /\ \A e : FolderNode(e) # NoNode /\ FolderNode(e).state = "active"
  /\ FolderReferenceNode # NoNode /\ FolderReferenceNode.state = "reference"
  /\ NoNode.state = "absent"
  /\ \A e : Described(e) # NoNode
BY DEF FolderNode, NoNode, FolderReferenceNode, Described

LEMMA KeepsHeld ==
  ASSUME NEW g, NEW n, NEW t, NEW k \in FacetsOf(t), NEW gone, NEW log,
         Keeps(g, n, t, k, gone), Held(g, t, k, log, gone)
  PROVE  Held(n, t, k, log, gone)
<1>1. k = "content" => ContentHeld(n, t, log)
  BY DEF Keeps, Held, ContentHeld
<1>2. k = "relations" => FoldersHeld(n, t, log, gone)
  <2> SUFFICES ASSUME k = "relations" PROVE FoldersHeld(n, t, log, gone)
    OBVIOUS
  <2>1. /\ EdgesOf(n.inFolder, t) \subseteq EdgesOf(g.inFolder, t)
        /\ \A f : <<t, f>> \in g.inFolder => <<t, f>> \in n.inFolder \/ f \in gone
    BY DEF Keeps, KeepsEdges, EdgesOf
  <2> QED
    BY <2>1 DEF Held, FoldersHeld
<1>3. k = "folder" => FolderHeld(n, t, log, gone)
  <2> SUFFICES ASSUME k = "folder" PROVE FolderHeld(n, t, log, gone)
    OBVIOUS
  <2>1. /\ EdgesOf(n.childOf, t) \subseteq EdgesOf(g.childOf, t)
        /\ \A f : <<t, f>> \in g.childOf => <<t, f>> \in n.childOf \/ f \in gone
    BY DEF Keeps, KeepsEdges, EdgesOf
  <2>2. \A e : g.folders[t] = FolderNode(e) => n.folders[t] = FolderNode(e)
    BY NodesDiffer DEF Keeps
  <2>3. g.folders[t].state # "active" => n.folders[t].state # "active"
    BY NodesDiffer DEF Keeps
  <2>4. FolderHeld(g, t, log, gone)
    BY DEF Held
  <2> QED
    BY <2>1, <2>2, <2>3, <2>4 DEF FolderHeld
<1>4. k = "signals" => SignalsHeld(n, t, log, gone)
  BY DEF Keeps, Held, SignalsHeld
<1> QED
  BY <1>1, <1>2, <1>3, <1>4 DEF Held

LEMMA EdgesAreKept ==
  ASSUME NEW new, NEW old, NEW t, NEW gone
  PROVE  /\ new = old => KeepsEdges(new, old, t, gone)
         /\ \A s, F : /\ s # t
                      /\ new = {r \in old : r[1] # s} \cup {<<s, f>> : f \in F}
                      => KeepsEdges(new, old, t, gone)
         /\ \A s : s # t /\ new = {r \in old : r[1] # s} => KeepsEdges(new, old, t, gone)
<1>1. new = old => KeepsEdges(new, old, t, gone)
  BY DEF KeepsEdges, EdgesOf
<1>2. ASSUME NEW s, NEW F, s # t, new = {r \in old : r[1] # s} \cup {<<s, f>> : f \in F}
      PROVE  KeepsEdges(new, old, t, gone)
  BY <1>2 DEF KeepsEdges, EdgesOf
<1>3. ASSUME NEW s, s # t, new = {r \in old : r[1] # s}
      PROVE  KeepsEdges(new, old, t, gone)
  BY <1>3 DEF KeepsEdges, EdgesOf
<1> QED
  BY <1>1, <1>2, <1>3

\* No transaction touches a facet but of its own source, nor one that is not of its event's
\* type, except that a relation leaves a reference to a document that is not there.
LEMMA ContentIsKept ==
  ASSUME NEW g, NEW n, NEW s, NEW e, GraphShape(g), Transacts(g, n, s, e), NEW t \in Documents,
         t # s \/ e.type \notin ContentTypes, NEW gone
  PROVE  Keeps(g, n, t, "content", gone) \/ (t = s /\ PutsInFolders(g, n, s, e))
<1>0. t # s \/ e.type \notin {"DOCUMENT_INDEXED", "DOCUMENT_DELETED"}
  BY DEF ContentTypes
<1>1. CASE IndexesDocument(g, n, s, e)
  <2>1. t # s
    BY <1>0, <1>1 DEF IndexesDocument
  <2>2. n.hasSignal = {r \in {r \in g.hasSignal : r[1] # s} : r[2].document # s}
                        \cup {<<s, DocumentSignalRecord(s, e)>>}
    BY <1>1 DEF IndexesDocument, GraphIs
  <2>3. EdgesOf(n.hasSignal, t) = EdgesOf(g.hasSignal, t)
    BY <2>1, <2>2 DEF EdgesOf, GraphShape
  <2>4. n.documents[t] = g.documents[t]
    BY <1>1, <2>1 DEF IndexesDocument, GraphIs, GraphShape
  <2> QED
    BY <2>3, <2>4 DEF Keeps
<1>2. CASE PutsInFolders(g, n, s, e)
  <2>1. n.hasSignal = g.hasSignal /\ (t # s => n.documents[t] = g.documents[t])
    BY <1>2 DEF PutsInFolders, GraphIs, GraphShape
  <2> QED
    BY <1>2, <2>1 DEF Keeps
<1>3. CASE DeletesDocument(g, n, s, e)
  <2>1. t # s
    BY <1>0, <1>3 DEF DeletesDocument
  <2>2. n.hasSignal = {r \in g.hasSignal : r[1] # s} /\ n.documents[t] = g.documents[t]
    BY <1>3, <2>1 DEF DeletesDocument, GraphIs, GraphShape
  <2> QED
    BY <2>1, <2>2 DEF Keeps, EdgesOf
<1>4. CASE IndexesFolder(g, n, s, e) \/ IndexesSignals(g, n, s, e) \/ DropsSignals(g, n, s, e)
           \/ DeletesFolder(g, n, s, e)
  <2>1. n.hasSignal = g.hasSignal /\ n.documents = g.documents
    BY <1>4 DEF IndexesFolder, IndexesSignals, DropsSignals, DeletesFolder, GraphIs
  <2> QED
    BY <2>1 DEF Keeps
<1>5. CASE n = g
  BY <1>5 DEF Keeps
<1> QED
  BY <1>1, <1>2, <1>3, <1>4, <1>5 DEF Transacts, KeepsCurrentSignals, DeletesNothing

LEMMA RelationsAreKept ==
  ASSUME NEW g, NEW n, NEW s, NEW e, GraphShape(g), Transacts(g, n, s, e), NEW t \in Documents,
         t # s \/ e.type \notin RelationTypes, NEW gone, e.type = "FOLDER_DELETED" => s \in gone
  PROVE  Keeps(g, n, t, "relations", gone)
<1>0. t # s \/ e.type \notin {"DOCUMENT_FOLDER_RELATIONS_INDEXED", "DOCUMENT_DELETED"}
  BY DEF RelationTypes
<1> SUFFICES KeepsEdges(n.inFolder, g.inFolder, t, gone)
  BY DEF Keeps
<1>1. CASE PutsInFolders(g, n, s, e)
  <2>1. t # s
    BY <1>0, <1>1 DEF PutsInFolders
  <2>2. PICK F : n.inFolder = {r \in g.inFolder : r[1] # s} \cup {<<s, f>> : f \in F}
    BY <1>1 DEF PutsInFolders, GraphIs
  <2> QED
    BY <2>1, <2>2, EdgesAreKept
<1>2. CASE DeletesDocument(g, n, s, e)
  <2>1. t # s /\ n.inFolder = {r \in g.inFolder : r[1] # s}
    BY <1>0, <1>2 DEF DeletesDocument, GraphIs
  <2> QED
    BY <2>1, EdgesAreKept
<1>3. CASE DeletesFolder(g, n, s, e)
  <2>1. n.inFolder = {r \in g.inFolder : r[2] # s} /\ s \in gone
    BY <1>3 DEF DeletesFolder, GraphIs
  <2> QED
    BY <2>1 DEF KeepsEdges, EdgesOf
<1>4. CASE n.inFolder = g.inFolder
  BY <1>4, EdgesAreKept
<1> QED
  BY <1>1, <1>2, <1>3, <1>4
     DEF Transacts, KeepsCurrentSignals, DeletesNothing, IndexesDocument, IndexesFolder,
         IndexesSignals, DropsSignals, GraphIs

LEMMA FoldersAreKept ==
  ASSUME NEW g, NEW n, NEW s, NEW e, GraphShape(g), Transacts(g, n, s, e), NEW t \in Folders,
         t # s \/ e.type \notin FolderTypes, NEW gone, e.type = "FOLDER_DELETED" => s \in gone
  PROVE  Keeps(g, n, t, "folder", gone)
<1>0. t # s \/ e.type \notin {"FOLDER_INDEXED", "FOLDER_DELETED"}
  BY DEF FolderTypes
<1>1. \/ n.folders[t] = g.folders[t]
      \/ g.folders[t] = NoNode /\ n.folders[t] = FolderReferenceNode
  <2>1. CASE t # s
    <3>1. NodesStay(g, n, s)
      BY TransactsNodes
    <3> QED
      BY <2>1, <3>1 DEF NodesStay
  <2>2. CASE t = s
    <3>1. e.type \notin {"FOLDER_INDEXED", "FOLDER_DELETED"} /\ s \notin Documents
      BY <1>0, <2>2, SourcesAreApart
    <3> QED
      BY <3>1 DEF Transacts, KeepsCurrentSignals, DeletesNothing, IndexesDocument, IndexesFolder,
                  IndexesSignals, DropsSignals, GraphIs, PutsInFolders, DeletesDocument, DeletesFolder
  <2> QED
    BY <2>1, <2>2
<1> SUFFICES KeepsEdges(n.childOf, g.childOf, t, gone)
  BY <1>1 DEF Keeps
<1>2. CASE IndexesFolder(g, n, s, e)
  <2>1. t # s
    BY <1>0, <1>2 DEF IndexesFolder
  <2>2. PICK F : n.childOf = {r \in g.childOf : r[1] # s} \cup {<<s, f>> : f \in F}
    BY <1>2 DEF IndexesFolder, GraphIs
  <2> QED
    BY <2>1, <2>2, EdgesAreKept
<1>3. CASE DeletesFolder(g, n, s, e)
  <2>1. t # s /\ n.childOf = {r \in g.childOf : s \notin {r[1], r[2]}} /\ s \in gone
    BY <1>0, <1>3 DEF DeletesFolder, GraphIs
  <2> QED
    BY <2>1 DEF KeepsEdges, EdgesOf
<1>4. CASE n.childOf = g.childOf
  BY <1>4, EdgesAreKept
<1> QED
  BY <1>2, <1>3, <1>4
     DEF Transacts, KeepsCurrentSignals, DeletesNothing, IndexesDocument, PutsInFolders,
         DeletesDocument, IndexesSignals, DropsSignals, GraphIs

LEMMA SignalsAreKept ==
  ASSUME NEW g, NEW n, NEW s, NEW e, GraphShape(g), Transacts(g, n, s, e), NEW t \in Folders,
         t # s \/ e.type \notin SignalTypes, NEW gone
  PROVE  Keeps(g, n, t, "signals", gone)
<1>0. \/ t # s
      \/ e.type \notin {"FOLDER_SIGNALS_INDEXED", "FOLDER_SIGNALS_INVALIDATED", "FOLDER_DELETED"}
  BY DEF SignalTypes
<1> SUFFICES n.folderSignals[t] = g.folderSignals[t] /\ (t \in n.hasFolderSignal <=> t \in g.hasFolderSignal)
  BY DEF Keeps
<1>1. CASE IndexesDocument(g, n, s, e) \/ PutsInFolders(g, n, s, e) \/ DeletesDocument(g, n, s, e)
           \/ IndexesFolder(g, n, s, e)
  BY <1>1 DEF GraphIs, IndexesDocument, PutsInFolders, DeletesDocument, IndexesFolder
<1>2. CASE IndexesSignals(g, n, s, e)
  <2>1. t # s
    BY <1>0, <1>2 DEF IndexesSignals
  <2> QED
    BY <1>2, <2>1 DEF GraphShape, GraphIs, IndexesSignals
<1>3. CASE DropsSignals(g, n, s, e)
  <2>1. t # s
    BY <1>0, <1>3 DEF DropsSignals
  <2> QED
    BY <1>3, <2>1 DEF GraphShape, GraphIs, DropsSignals
<1>4. CASE DeletesFolder(g, n, s, e)
  <2>1. t # s
    BY <1>0, <1>4 DEF DeletesFolder
  <2> QED
    BY <1>4, <2>1 DEF GraphShape, GraphIs, DeletesFolder
<1>5. CASE n = g
  BY <1>5
<1> QED
  BY <1>1, <1>2, <1>3, <1>4, <1>5 DEF Transacts, KeepsCurrentSignals, DeletesNothing

LEMMA TransactsKeeps ==
  ASSUME NEW g, NEW n, NEW s, NEW e, GraphShape(g), Transacts(g, n, s, e),
         NEW t, NEW k \in FacetsOf(t), t # s \/ e.type \notin TypesOf[k],
         NEW gone, e.type = "FOLDER_DELETED" => s \in gone, NEW log, Held(g, t, k, log, gone),
         t = s /\ e.type = "DOCUMENT_FOLDER_RELATIONS_INDEXED" /\ k = "content" =>
           LastOf(log, ContentTypes, "DOCUMENT_INDEXED") # {}
  PROVE  Held(n, t, k, log, gone)
<1>1. CASE k = "content"
  <2>1. t \in Documents /\ (t # s \/ e.type \notin ContentTypes)
    BY <1>1 DEF FacetsOf, TypesOf
  <2>2. CASE Keeps(g, n, t, "content", gone)
    BY <1>1, <2>2, KeepsHeld
  <2>3. CASE t = s /\ PutsInFolders(g, n, s, e)
    <3>1. PICK i \in LastOf(log, ContentTypes, "DOCUMENT_INDEXED") : TRUE
      BY <1>1, <2>3 DEF PutsInFolders
    <3>2. g.documents[t] # NoNode /\ ContentHeld(g, t, log)
      BY <1>1, <3>1, NodesDiffer DEF Held, ContentHeld
    <3>3. n.documents = [g.documents EXCEPT ![s] = IF g.documents[s] = NoNode
                                   THEN [state |-> "reference"] ELSE g.documents[s]]
          /\ n.hasSignal = g.hasSignal
      BY <2>3 DEF PutsInFolders, GraphIs
    <3>4. n.documents[t] = g.documents[t]
      BY <2>1, <2>3, <3>2, <3>3 DEF GraphShape
    <3>5. ContentHeld(n, t, log)
      BY <3>2, <3>3, <3>4 DEF ContentHeld
    <3> QED
      BY <1>1, <3>5 DEF Held
  <2> QED
    BY <2>1, <2>2, <2>3, ContentIsKept
<1>2. CASE k = "relations"
  <2>1. t \in Documents /\ (t # s \/ e.type \notin RelationTypes)
    BY <1>2 DEF FacetsOf, TypesOf
  <2> QED
    BY <1>2, <2>1, RelationsAreKept, KeepsHeld
<1>3. CASE k = "folder"
  <2>1. t \in Folders /\ (t # s \/ e.type \notin FolderTypes)
    BY <1>3 DEF FacetsOf, TypesOf
  <2> QED
    BY <1>3, <2>1, FoldersAreKept, KeepsHeld
<1>4. CASE k = "signals"
  <2>1. t \in Folders /\ (t # s \/ e.type \notin SignalTypes)
    BY <1>4 DEF FacetsOf, TypesOf
  <2> QED
    BY <1>4, <2>1, SignalsAreKept, KeepsHeld
<1> QED
  BY <1>1, <1>2, <1>3, <1>4 DEF FacetsOf

-----------------------------------------------------------------------------
(***************************************************************************)
(* The event that is the last of a facet's types leaves it as it says.     *)
(***************************************************************************)
LEMMA OnlyLast ==
  ASSUME NEW log \in Seq(DocumentEvents \cup FolderEvents), NEW types, NEW i \in DOMAIN log,
         IsLast(log, types, i)
  PROVE  \A type : LastOf(log, types, type) = IF log[i].type = type THEN {i} ELSE {}
<1>1. ASSUME NEW type, NEW j \in LastOf(log, types, type)
      PROVE  j = i
  <2>1. j \in DOMAIN log /\ IsLast(log, types, j)
    BY <1>1 DEF LastOf
  <2>2. j <= i /\ i <= j /\ i \in Nat /\ j \in Nat
    BY <2>1 DEF IsLast
  <2> QED
    BY <2>2
<1>2. ASSUME NEW type
      PROVE  i \in LastOf(log, types, type) <=> log[i].type = type
  BY DEF LastOf
<1>3. ASSUME NEW type, NEW j \in LastOf(log, types, type)
      PROVE  log[j].type = type
  BY <1>3 DEF LastOf
<1> QED
  BY <1>1, <1>2, <1>3

LEMMA ContentIsWritten ==
  ASSUME NEW g, NEW n, NEW s, NEW log, NEW i, GraphShape(g), Transacts(g, n, s, log[i]),
         log[i].type \in ContentTypes,
         \A type : LastOf(log, ContentTypes, type) = IF log[i].type = type THEN {i} ELSE {}
  PROVE  ContentHeld(n, s, log)
<1> DEFINE e == log[i]
<1>0. e.type \in {"DOCUMENT_INDEXED", "DOCUMENT_DELETED"}
  BY DEF ContentTypes
<1>1. CASE IndexesDocument(g, n, s, e)
  <2>1. LastOf(log, ContentTypes, "DOCUMENT_INDEXED") = {i}
    BY <1>1 DEF IndexesDocument
  <2>2. n.hasSignal = {r \in {r \in g.hasSignal : r[1] # s} : r[2].document # s}
                        \cup {<<s, DocumentSignalRecord(s, e)>>}
    BY <1>1 DEF IndexesDocument, GraphIs
  <2>3. EdgesOf(n.hasSignal, s) = {<<s, DocumentSignalRecord(s, e)>>}
    BY <2>2 DEF EdgesOf
  <2>4. n.documents[s] = Described(e)
    BY <1>1 DEF IndexesDocument, GraphIs, GraphShape
  <2> HIDE DEF e
  <2> QED
    BY <2>1, <2>3, <2>4 DEF ContentHeld, e
<1>2. CASE DeletesDocument(g, n, s, e)
  <2>1. LastOf(log, ContentTypes, "DOCUMENT_INDEXED") = {}
    BY <1>2 DEF DeletesDocument
  <2>2. EdgesOf(n.hasSignal, s) = {} /\ n.documents[s] = NoNode
    BY <1>2 DEF DeletesDocument, GraphIs, GraphShape, EdgesOf
  <2> QED
    BY <2>1, <2>2 DEF ContentHeld
<1> QED
  BY <1>0, <1>1, <1>2
     DEF Transacts, KeepsCurrentSignals, DeletesNothing, PutsInFolders, IndexesFolder,
         IndexesSignals, DropsSignals, DeletesFolder

LEMMA RelationsAreWritten ==
  ASSUME NEW g, NEW n, NEW s, NEW log, NEW i, GraphShape(g), Transacts(g, n, s, log[i]),
         log[i].type \in RelationTypes, NEW gone,
         \A f \in Folders : g.folders[f].state = "deleted" => f \in gone,
         \A type : LastOf(log, RelationTypes, type) = IF log[i].type = type THEN {i} ELSE {}
  PROVE  FoldersHeld(n, s, log, gone)
<1> DEFINE e == log[i]
<1>0. e.type \in {"DOCUMENT_FOLDER_RELATIONS_INDEXED", "DOCUMENT_DELETED"}
  BY DEF RelationTypes
<1>1. CASE PutsInFolders(g, n, s, e)
  <2>1. LastOf(log, RelationTypes, "DOCUMENT_FOLDER_RELATIONS_INDEXED") = {i}
    BY <1>1 DEF PutsInFolders
  <2>2. PICK folders :
          /\ folders = WithReferences(g.folders, e.folders)
          /\ n.inFolder = {r \in g.inFolder : r[1] # s}
                            \cup {<<s, f>> : f \in {f \in e.folders : folders[f].state # "deleted"}}
    BY <1>1 DEF PutsInFolders, GraphIs
  <2>3. \A r \in EdgesOf(n.inFolder, s) : r[2] \in e.folders
    BY <2>2 DEF EdgesOf
  <2>4. ASSUME NEW f \in e.folders, f \notin gone
        PROVE  <<s, f>> \in n.inFolder
    <3>1. f \in Folders /\ g.folders[f].state # "deleted"
      BY <1>1, <2>4 DEF PutsInFolders
    <3>2. folders[f].state # "deleted"
      BY <2>2, <3>1, NodesDiffer DEF WithReferences
    <3> QED
      BY <2>2, <2>4, <3>2
  <2> HIDE DEF e
  <2> QED
    BY <2>1, <2>3, <2>4 DEF FoldersHeld, e
<1>2. CASE DeletesDocument(g, n, s, e)
  <2>1. LastOf(log, RelationTypes, "DOCUMENT_FOLDER_RELATIONS_INDEXED") = {}
    BY <1>2 DEF DeletesDocument
  <2>2. EdgesOf(n.inFolder, s) = {}
    BY <1>2 DEF DeletesDocument, GraphIs, EdgesOf
  <2> QED
    BY <2>1, <2>2 DEF FoldersHeld
<1> QED
  BY <1>0, <1>1, <1>2
     DEF Transacts, KeepsCurrentSignals, DeletesNothing, IndexesDocument, IndexesFolder,
         IndexesSignals, DropsSignals, DeletesFolder

LEMMA FolderIsWritten ==
  ASSUME NEW g, NEW n, NEW s, NEW log, NEW i, GraphShape(g), Rooted(g), Transacts(g, n, s, log[i]),
         log[i].type \in FolderTypes, NEW gone,
         \A f \in Folders : g.folders[f].state = "deleted" => f \in gone,
         \A type : LastOf(log, FolderTypes, type) = IF log[i].type = type THEN {i} ELSE {}
  PROVE  FolderHeld(n, s, log, gone)
<1> DEFINE e == log[i]
<1>0. e.type \in {"FOLDER_INDEXED", "FOLDER_DELETED"}
  BY DEF FolderTypes
<1>1. CASE IndexesFolder(g, n, s, e)
  <2>1. LastOf(log, FolderTypes, "FOLDER_INDEXED") = {i} /\ s \in Folders
    BY <1>1 DEF IndexesFolder
  <2>2. PICK folders :
          /\ folders = WithReferences([g.folders EXCEPT ![s] = FolderNode(e)], {e.parent})
          /\ n.folders = folders
          /\ n.childOf = {r \in g.childOf : r[1] # s}
                           \cup {<<s, h>> : h \in {h \in {e.parent} \cap Folders :
                                                    folders[h].state # "deleted"}}
    BY <1>1 DEF IndexesFolder, GraphIs
  <2>3. \A r \in EdgesOf(n.childOf, s) : r[2] = e.parent
    BY <2>2 DEF EdgesOf
  <2>4. n.folders[s] = FolderNode(e)
    BY <2>1, <2>2, NodesDiffer DEF WithReferences, GraphShape
  <2>5. ASSUME e.parent \in Folders, e.parent \notin gone
        PROVE  <<s, e.parent>> \in n.childOf
    <3>1. g.folders[e.parent].state # "deleted"
      BY <2>5
    <3>2. folders[e.parent].state # "deleted"
      BY <2>1, <2>2, <2>5, <3>1, NodesDiffer DEF WithReferences, GraphShape
    <3> QED
      BY <2>2, <2>5, <3>2
  <2> HIDE DEF e
  <2> QED
    BY <2>1, <2>3, <2>4, <2>5 DEF FolderHeld, e
<1>2. CASE DeletesFolder(g, n, s, e)
  <2>1. LastOf(log, FolderTypes, "FOLDER_INDEXED") = {}
    BY <1>2 DEF DeletesFolder
  <2>2. EdgesOf(n.childOf, s) = {}
    BY <1>2 DEF DeletesFolder, GraphIs, EdgesOf
  <2>3. n.folders[s].state # "active"
    BY <1>2 DEF DeletesFolder, GraphIs, GraphShape
  <2> QED
    BY <2>1, <2>2, <2>3 DEF FolderHeld
<1>3. CASE DeletesNothing(g, n, s, e)
  <2>1. LastOf(log, FolderTypes, "FOLDER_INDEXED") = {}
    BY <1>3 DEF DeletesNothing
  <2>2. EdgesOf(n.childOf, s) = {} /\ n.folders[s].state # "active"
    BY <1>3, NodesDiffer DEF DeletesNothing, EdgesOf, Rooted
  <2> QED
    BY <2>1, <2>2 DEF FolderHeld
<1> QED
  BY <1>0, <1>1, <1>2, <1>3
     DEF Transacts, KeepsCurrentSignals, IndexesDocument, PutsInFolders, DeletesDocument,
         IndexesSignals, DropsSignals

\* Signals that were stored for the same input would have been announced after an equal
\* invalidation.
LEMMA SignalsAreWritten ==
  ASSUME NEW g, NEW n, NEW s \in Folders, NEW log \in Seq(FolderEvents), NEW i \in DOMAIN log,
         GraphShape(g), Rooted(g), Transacts(g, n, s, log[i]), NEW gone,
         IsLast(log, SignalTypes, i), Sourced2(g, s, log, gone), Once(log), Preceded(log),
         log[i].type = "FOLDER_DELETED" => s \in gone,
         log[i].type = "FOLDER_SIGNALS_INDEXED" => s \in gone \/ g.folders[s] # NoNode,
         \A type : LastOf(log, SignalTypes, type) = IF log[i].type = type THEN {i} ELSE {}
  PROVE  SignalsHeld(n, s, log, gone)
<1> DEFINE e == log[i]
<1>0. e.type \in {"FOLDER_SIGNALS_INDEXED", "FOLDER_SIGNALS_INVALIDATED", "FOLDER_DELETED"}
  BY DEF IsLast, SignalTypes
<1>1. CASE IndexesSignals(g, n, s, e)
  <2>1. i \in LastOf(log, SignalTypes, "FOLDER_SIGNALS_INDEXED")
    BY <1>1 DEF IndexesSignals
  <2>2. n.folderSignals[s] = FolderSignalRecord(e)
    BY <1>1 DEF IndexesSignals, GraphIs, GraphShape
  <2>3. s \notin gone => s \in n.hasFolderSignal
    BY <1>1 DEF IndexesSignals, GraphIs
  <2> HIDE DEF e
  <2> QED
    BY <2>1, <2>2, <2>3 DEF SignalsHeld, e
<1>2. CASE DropsSignals(g, n, s, e)
  <2>1. n.folderSignals[s] = None
    BY <1>2 DEF DropsSignals, GraphIs, GraphShape
  <2> QED
    BY <2>1 DEF SignalsHeld
<1>3. CASE KeepsCurrentSignals(g, n, s, e)
  <2>1. ASSUME g.folderSignals[s] # None
        PROVE  FALSE
    <3>1. PICK j \in DOMAIN log : /\ log[j].type = "FOLDER_SIGNALS_INDEXED"
                                  /\ g.folderSignals[s] = FolderSignalRecord(log[j])
      BY <2>1 DEF Sourced2
    <3>2. log[j].input = e.input /\ e.type = "FOLDER_SIGNALS_INVALIDATED"
      BY <1>3, <2>1, <3>1 DEF KeepsCurrentSignals, FolderSignalRecord
    <3>3. PICK k \in DOMAIN log : /\ k < j /\ log[k].type = "FOLDER_SIGNALS_INVALIDATED"
                                  /\ log[k].input = log[j].input
      BY <3>1 DEF Preceded
    <3>4. log[k] = log[i]
      <4>1. log[k] \in FolderEvents /\ log[i] \in FolderEvents
        OBVIOUS
      <4>2. log[k].type = "FOLDER_SIGNALS_INVALIDATED" /\ log[i].type = "FOLDER_SIGNALS_INVALIDATED"
            /\ log[k].input = log[i].input
        BY <3>2, <3>3
      <4> QED
        BY <4>1, <4>2 DEF FolderEvents
    <3>5. k = i
      BY <3>4 DEF Once
    <3>6. j <= i
      BY <3>1 DEF IsLast, SignalTypes
    <3> QED
      BY <3>3, <3>5, <3>6
  <2> QED
    BY <1>3, <2>1 DEF SignalsHeld, KeepsCurrentSignals
<1>4. CASE DeletesFolder(g, n, s, e)
  <2>1. s \in gone /\ s \notin n.hasFolderSignal
    BY <1>4 DEF DeletesFolder, GraphIs
  <2> QED
    BY <2>1 DEF SignalsHeld
<1>5. CASE DeletesNothing(g, n, s, e)
  <2>1. s \in gone /\ s \notin n.hasFolderSignal
    BY <1>5 DEF DeletesNothing, Rooted
  <2> QED
    BY <2>1 DEF SignalsHeld
<1> QED
  BY <1>0, <1>1, <1>2, <1>3, <1>4, <1>5
     DEF Transacts, IndexesDocument, PutsInFolders, DeletesDocument, IndexesFolder

LEMMA WritesHold ==
  ASSUME NEW g, NEW n, NEW s \in Sources, NEW k \in FacetsOf(s), NEW gone,
         NEW log \in Seq(DocumentEvents \cup FolderEvents), NEW i \in DOMAIN log,
         GraphShape(g), Rooted(g), Transacts(g, n, s, log[i]), IsLast(log, TypesOf[k], i),
         \A f \in Folders : g.folders[f].state = "deleted" => f \in gone,
         k = "signals" =>
           /\ log \in Seq(FolderEvents) /\ Sourced2(g, s, log, gone) /\ Once(log) /\ Preceded(log)
           /\ log[i].type = "FOLDER_DELETED" => s \in gone
           /\ log[i].type = "FOLDER_SIGNALS_INDEXED" => s \in gone \/ g.folders[s] # NoNode
  PROVE  Held(n, s, k, log, gone)
<1>1. CASE k = "content"
  <2>1. IsLast(log, ContentTypes, i)
    BY <1>1 DEF TypesOf
  <2>2. ContentHeld(n, s, log)
    BY <2>1, OnlyLast, ContentIsWritten DEF IsLast
  <2> QED
    BY <1>1, <2>2 DEF Held
<1>2. CASE k = "relations"
  <2>1. IsLast(log, RelationTypes, i)
    BY <1>2 DEF TypesOf
  <2>2. FoldersHeld(n, s, log, gone)
    BY <2>1, OnlyLast, RelationsAreWritten DEF IsLast
  <2> QED
    BY <1>2, <2>2 DEF Held
<1>3. CASE k = "folder"
  <2>1. IsLast(log, FolderTypes, i)
    BY <1>3 DEF TypesOf
  <2>2. FolderHeld(n, s, log, gone)
    BY <2>1, OnlyLast, FolderIsWritten DEF IsLast
  <2> QED
    BY <1>3, <2>2 DEF Held
<1>4. CASE k = "signals"
  <2>1. IsLast(log, SignalTypes, i) /\ s \in Folders
    BY <1>4 DEF TypesOf, FacetsOf
  <2>2. SignalsHeld(n, s, log, gone)
    BY <1>4, <2>1, OnlyLast, SignalsAreWritten
  <2> QED
    BY <1>4, <2>2 DEF Held
<1> QED
  BY <1>1, <1>2, <1>3, <1>4 DEF FacetsOf

-----------------------------------------------------------------------------
(***************************************************************************)
(* What the logs of the write side say besides.                            *)
(***************************************************************************)
\* The relations of a version follow its content.
RelationsFollow(log) ==
  \A i \in DOMAIN log : log[i].type = "DOCUMENT_FOLDER_RELATIONS_INDEXED" =>
    \E k \in DOMAIN log : /\ k < i /\ log[k].type = "DOCUMENT_INDEXED"
                          /\ \A j \in DOMAIN log : k < j /\ j < i => log[j].type # "DOCUMENT_DELETED"

\* The folders of a live document were said by its version, if that has any.
FoldersSaid(d) ==
  docSource[d].live /\ ~SnapshotOmitted(d) =>
    Ends(docEvents[d], RelationTypes, RelationsIndexed(docSource[d].version, member[d]))

\* A folder that is live and was never deleted has not been changed since its last
\* invalidation.
Unchanged(log) ==
  \A m \in LastOf(log, {"FOLDER_SIGNALS_INVALIDATED"}, "FOLDER_SIGNALS_INVALIDATED") :
    \E p \in DOMAIN log :
      /\ p < m /\ log[p].type = "FOLDER_INDEXED"
      /\ \A q \in DOMAIN log : q > p /\ log[q].type = "FOLDER_INDEXED"
                               => IndexOf(log[q]) = IndexOf(log[p])

Among(signals) == signals.related \subseteq {m.document : m \in signals.input.members}

Gone == {f \in Folders : EverDeleted(f)}

SignalsSaid(f) ==
  /\ f \notin untold /\ Live(f) /\ f \notin Gone => Unchanged(folderEvents[f])
  /\ folderSignals[f] # None => Among(folderSignals[f])
  /\ \A i \in DOMAIN folderEvents[f] :
       folderEvents[f][i].type = "FOLDER_SIGNALS_INDEXED" => Among(folderEvents[f][i])

SaidInv ==
  /\ \A d \in Documents : RelationsFollow(docEvents[d]) /\ FoldersSaid(d)
  /\ \A f \in Folders : SignalsSaid(f)

-----------------------------------------------------------------------------
(***************************************************************************)
(* The invariant.                                                          *)
(***************************************************************************)
GraphTodos ==
  {<<"check", "replace">>, <<"check", "delete">>, <<"replace">>, <<"delete">>, << >>}
GraphTasks == [at : Nat, replay : BOOLEAN, todo : GraphTodos, current : BOOLEAN]

GraphWrites(e) ==
  IF Head(GraphSteps(e)) = "check" THEN Tail(GraphSteps(e)) ELSE GraphSteps(e)

\* A task that is to write has found its event current, or deletes.  log is the source's, C
\* the places of what is consumed, c the cursor, own and late the tasks.
GraphTaskOK(log, C, task) ==
  /\ task.at \in C
  /\ \/ task.todo = GraphSteps(log[task.at])
     \/ /\ task.todo = GraphWrites(log[task.at])
        /\ log[task.at].type \in Deletions \/ task.current
     \/ task.todo = << >>

\* The owner goes on from the offset, or handles again what is behind it.
GraphPlaced(log, C, c, own, late) ==
  /\ c \in C \cup {0}
  /\ own # Idle =>
       /\ GraphTaskOK(log, C, own)
       /\ own.replay => own.at <= c
       /\ ~own.replay => c < own.at /\ \A j \in C : j <= c \/ own.at <= j
  /\ late # Idle =>
       GraphTaskOK(log, C, late) /\ (late.at <= c \/ (own # Idle /\ late.at = own.at))

\* The place of the last event handled, and whether those of the types all are.
Reached(c, own) == IF own # Idle /\ ~own.replay /\ own.todo = << >> THEN own.at ELSE c
Behind(log, types, h) == \A j \in DOMAIN log : log[j].type \in types => j <= h

\* A source whose events up to h are handled; the facets of excused are of no interest.
GraphPart(g, s, log, gone, excused, h) ==
  /\ \A k \in FacetsOf(s) \ excused :
       Behind(log, TypesOf[k], h) => Held(g, s, k, log, gone)
  /\ s \in Folders \ gone => Present(g, s, log, h)

\* The folders of a version that leaves them out are not in the log, and signals are
\* current for a worker that was told of every input.
Excused(s) == {k \in FacetsOf(s) : (k = "relations" /\ SnapshotOmitted(s)) \/ (k = "signals" /\ ~Told(s))}

GraphShapes ==
  /\ cursor \in [Sources -> Nat]
  /\ work \in [Sources -> [Slots -> GraphTasks]]

StoreOK(g, logs, gone) ==
  /\ GraphShape(g) /\ Rooted(g)
  /\ \A f \in Folders : Sourced2(g, f, logs[f], gone)

GraphSource(s) ==
  /\ GraphPlaced(Log(s), ConsumedAt(s), cursor[s], work[s].owner, work[s].late)
  /\ s \notin disturbed =>
       GraphPart(graph, s, Log(s), Gone, Excused(s), Reached(cursor[s], work[s].owner))

GraphInv ==
  /\ FeedInv /\ SaidInv
  /\ scenario.target = "graph" => GraphShapes /\ StoreOK(graph, folderEvents, Gone) /\ \A s \in Sources : GraphSource(s)

-----------------------------------------------------------------------------
(***************************************************************************)
(* A source's events and its tasks, as its worker sees them.               *)
(***************************************************************************)
LEMMA GraphViews ==
  ASSUME FeedInv, scenario.target = "graph", NEW s \in Sources
  PROVE  /\ Log(s) \in Seq(DocumentEvents \cup FolderEvents) /\ DOMAIN Log(s) \subseteq Nat \ {0}
         /\ s \in Documents => Log(s) = docEvents[s] /\ Log(s) \in Seq(DocumentEvents)
         /\ s \in Folders => Log(s) = folderEvents[s] /\ Log(s) \in Seq(FolderEvents)
         /\ ConsumedAt(s) = IF s \in scenario.watched THEN DOMAIN Log(s) ELSE {}
         /\ \A i \in DOMAIN Log(s) : EventFor(s, Log(s)[i]) /\ Log(s)[i].type \in GraphEvents
<1>1. s \in Documents => Log(s) = docEvents[s] /\ Log(s) \in Seq(DocumentEvents)
  BY DEF FeedInv, LogInv, DocumentLog, Log
<1>2. s \in Folders => Log(s) = folderEvents[s] /\ Log(s) \in Seq(FolderEvents)
  BY SourcesAreApart DEF FeedInv, LogInv, FolderLog, Log
<1>3. Log(s) \in Seq(DocumentEvents \cup FolderEvents)
  BY <1>1, <1>2 DEF Sources
<1>4. ASSUME NEW i \in DOMAIN Log(s)
      PROVE  EventFor(s, Log(s)[i]) /\ Log(s)[i].type \in GraphEvents
  <2>1. EventFor(s, Log(s)[i])
    BY <1>1, <1>2 DEF EventFor
  <2>2. Log(s)[i].type \in {"DOCUMENT_INDEXED", "DOCUMENT_FOLDER_RELATIONS_INDEXED",
                            "DOCUMENT_DELETED", "FOLDER_INDEXED", "FOLDER_DELETED",
                            "FOLDER_SIGNALS_INVALIDATED", "FOLDER_SIGNALS_INDEXED"}
    BY <2>1 DEF EventFor, Sources, DocumentEvents, FolderEvents
  <2> QED
    BY <2>1, <2>2 DEF GraphEvents, SignalEvents
<1>5. Consumed = GraphEvents
  BY DEF Consumed
<1>6. ConsumedAt(s) = IF s \in scenario.watched THEN DOMAIN Log(s) ELSE {}
  BY <1>4, <1>5 DEF ConsumedAt
<1>7. DOMAIN Log(s) \subseteq Nat \ {0}
  BY <1>3
<1> QED
  BY <1>1, <1>2, <1>3, <1>4, <1>6, <1>7

LEMMA GraphStepsAre ==
  ASSUME NEW e, e.type \in GraphEvents
  PROVE  /\ e.type \in Deletions => GraphSteps(e) = <<"delete">> /\ GraphWrites(e) = <<"delete">>
         /\ e.type = "FOLDER_SIGNALS_INVALIDATED" =>
              GraphSteps(e) = <<"check", "delete">> /\ GraphWrites(e) = <<"delete">>
         /\ e.type \notin Deletions \cup {"FOLDER_SIGNALS_INVALIDATED"} =>
              GraphSteps(e) = <<"check", "replace">> /\ GraphWrites(e) = <<"replace">>
         /\ scenario.target = "graph" => Steps(e) = GraphSteps(e) /\ Writes(e) = GraphWrites(e)
<1>1. e.type \in {"DOCUMENT_INDEXED", "DOCUMENT_FOLDER_RELATIONS_INDEXED",
                  "DOCUMENT_DELETED", "FOLDER_INDEXED", "FOLDER_DELETED",
                  "FOLDER_SIGNALS_INVALIDATED", "FOLDER_SIGNALS_INDEXED"}
  BY DEF GraphEvents, SignalEvents
<1>2. GraphSteps(e) = IF e.type \in Deletions THEN <<"delete">>
                      ELSE IF e.type = "FOLDER_SIGNALS_INVALIDATED" THEN <<"check", "delete">>
                      ELSE <<"check", "replace">>
  BY <1>1 DEF GraphSteps, Deletions, ProjectDocumentGraph, DropDocumentGraph,
              ProjectFolderGraph, InvalidateFolderGraph, DropFolderGraph
<1>3. /\ Head(<<"delete">>) = "delete" /\ Head(<<"check", "delete">>) = "check"
      /\ Head(<<"check", "replace">>) = "check"
      /\ Tail(<<"check", "delete">>) = <<"delete">> /\ Tail(<<"check", "replace">>) = <<"replace">>
  OBVIOUS
<1>4. "FOLDER_SIGNALS_INVALIDATED" \notin Deletions
  BY DEF Deletions
<1>5. scenario.target = "graph" => Steps(e) = GraphSteps(e) /\ Writes(e) = GraphWrites(e)
  BY DEF Steps, Writes, GraphWrites
<1> QED
  BY <1>2, <1>3, <1>4, <1>5 DEF GraphWrites

LEMMA GraphTodosGoOn ==
  /\ Head(<<"delete">>) = "delete" /\ Tail(<<"delete">>) = << >>
  /\ Head(<<"replace">>) = "replace" /\ Tail(<<"replace">>) = << >>
  /\ Head(<<"check", "delete">>) = "check" /\ Tail(<<"check", "delete">>) = <<"delete">>
  /\ Head(<<"check", "replace">>) = "check" /\ Tail(<<"check", "replace">>) = <<"replace">>
  /\ <<"delete">> # << >> /\ <<"replace">> # << >>
  /\ <<"check", "delete">> # << >> /\ <<"check", "replace">> # << >>
  /\ Len(<<"delete">>) = 1 /\ Len(<<"replace">>) = 1 /\ Len(<< >>) = 0
  /\ Len(<<"check", "delete">>) = 2 /\ Len(<<"check", "replace">>) = 2
OBVIOUS

\* What is left of a task, and what its next step does.
LEMMA GraphTasksGoOn ==
  ASSUME NEW log, NEW C, NEW task, GraphTaskOK(log, C, task),
         NEW e, e = log[task.at], e.type \in GraphEvents
  PROVE  /\ GraphSteps(e) \in GraphTodos /\ GraphSteps(e) # << >>
         /\ task.todo \in GraphTodos
         /\ task.todo # << >> /\ Head(task.todo) = "check" =>
              /\ e.type \notin Deletions
              /\ Tail(task.todo) = GraphWrites(e) /\ GraphWrites(e) \in GraphTodos /\ GraphWrites(e) # << >>
         /\ task.todo # << >> /\ Head(task.todo) # "check" =>
              /\ Tail(task.todo) = << >> /\ (e.type \in Deletions \/ task.current)
              /\ Head(task.todo) = IF e.type \in Deletions \cup {"FOLDER_SIGNALS_INVALIDATED"}
                                   THEN "delete" ELSE "replace"
         /\ Len(task.todo) < Len(GraphWrites(e)) <=> task.todo = << >>
<1>3. /\ e.type \in Deletions => GraphSteps(e) = <<"delete">> /\ GraphWrites(e) = <<"delete">>
      /\ e.type = "FOLDER_SIGNALS_INVALIDATED" =>
           GraphSteps(e) = <<"check", "delete">> /\ GraphWrites(e) = <<"delete">>
      /\ e.type \notin Deletions \cup {"FOLDER_SIGNALS_INVALIDATED"} =>
           GraphSteps(e) = <<"check", "replace">> /\ GraphWrites(e) = <<"replace">>
  BY GraphStepsAre
<1>4. "FOLDER_SIGNALS_INVALIDATED" \notin Deletions
  BY DEF Deletions
<1>5. /\ task.todo = GraphSteps(e) \/ task.todo = GraphWrites(e) \/ task.todo = << >>
      /\ task.todo = GraphWrites(e) /\ task.todo # GraphSteps(e) /\ task.todo # << >> =>
           e.type \in Deletions \/ task.current
  BY DEF GraphTaskOK
<1>6. GraphSteps(e) \in GraphTodos /\ GraphSteps(e) # << >> /\ GraphWrites(e) \in GraphTodos /\ GraphWrites(e) # << >>
      /\ << >> \in GraphTodos
  BY <1>3, GraphTodosGoOn DEF GraphTodos
<1>7. ASSUME task.todo # << >>, Head(task.todo) = "check"
      PROVE  e.type \notin Deletions /\ Tail(task.todo) = GraphWrites(e)
  BY <1>3, <1>4, <1>5, <1>7, GraphTodosGoOn
<1>8. ASSUME task.todo # << >>, Head(task.todo) # "check"
      PROVE  /\ Tail(task.todo) = << >> /\ (e.type \in Deletions \/ task.current)
             /\ Head(task.todo) = IF e.type \in Deletions \cup {"FOLDER_SIGNALS_INVALIDATED"}
                                  THEN "delete" ELSE "replace"
  BY <1>3, <1>4, <1>5, <1>8, GraphTodosGoOn
<1>9. Len(task.todo) < Len(GraphWrites(e)) <=> task.todo = << >>
  BY <1>3, <1>4, <1>5, GraphTodosGoOn
<1> QED
  BY <1>5, <1>6, <1>7, <1>8, <1>9

LEMMA GraphTasksAre ==
  /\ Idle \in GraphTasks /\ Idle.at = 0
  /\ \A i \in Nat, replay \in BOOLEAN, todo \in GraphTodos :
       /\ Task(i, replay, todo) \in GraphTasks
       /\ Task(i, replay, todo).at = i /\ Task(i, replay, todo).replay = replay
       /\ Task(i, replay, todo).todo = todo
  /\ << >> \in GraphTodos
BY DEF Idle, GraphTasks, GraphTodos, Task

LEMMA GraphSetTaskIs ==
  ASSUME GraphShapes, NEW s \in Sources, NEW slot \in Slots, NEW task \in GraphTasks,
         SetTask(s, slot, task)
  PROVE  /\ work' \in [Sources -> [Slots -> GraphTasks]]
         /\ slot = "owner" => work'[s].owner = task /\ work'[s].late = work[s].late
         /\ slot = "late" => work'[s].late = task /\ work'[s].owner = work[s].owner
         /\ \A t \in Sources \ {s} : work'[t] = work[t]
BY DEF GraphShapes, SetTask, Slots

LEMMA GraphWorkIs ==
  ASSUME GraphShapes, NEW s \in Sources
  PROVE  /\ work[s].owner \in GraphTasks /\ work[s].late \in GraphTasks
         /\ work[s]["owner"] = work[s].owner /\ work[s]["late"] = work[s].late
         /\ work[s].owner.at \in Nat /\ work[s].late.at \in Nat /\ cursor[s] \in Nat
         /\ work[s].owner.replay \in BOOLEAN
BY DEF GraphShapes, Slots, GraphTasks

-----------------------------------------------------------------------------
(***************************************************************************)
(* The places up to which a source is looked at.                           *)
(***************************************************************************)
LEMMA PartGoesBack ==
  ASSUME NEW g, NEW s, NEW log, NEW gone, NEW excused, NEW h \in Nat, NEW h2 \in Nat,
         DOMAIN log \subseteq Nat, h2 <= h, GraphPart(g, s, log, gone, excused, h)
  PROVE  GraphPart(g, s, log, gone, excused, h2)
<1>1. ASSUME NEW k \in FacetsOf(s) \ excused, Behind(log, TypesOf[k], h2)
      PROVE  Held(g, s, k, log, gone)
  <2>1. Behind(log, TypesOf[k], h)
    BY <1>1 DEF Behind
  <2> QED
    BY <2>1 DEF GraphPart
<1>2. ASSUME s \in Folders \ gone
      PROVE  Present(g, s, log, h2)
  <2>1. Present(g, s, log, h)
    BY <1>2 DEF GraphPart
  <2> QED
    BY <2>1 DEF Present
<1> QED
  BY <1>1, <1>2 DEF GraphPart

\* What was behind the worker before an event of other types was handled.
LEMMA BehindBefore ==
  ASSUME NEW log, DOMAIN log \subseteq Nat, NEW h \in Nat, NEW i \in DOMAIN log,
         \A j \in DOMAIN log : j <= h \/ i <= j,
         NEW types, log[i].type \notin types, Behind(log, types, i)
  PROVE  Behind(log, types, h)
BY DEF Behind

LEMMA SameGraphView ==
  ASSUME UNCHANGED <<vars, scenario, untold>>, NEW s
  PROVE  /\ Log(s)' = Log(s) /\ ConsumedAt(s)' = ConsumedAt(s) /\ Gone' = Gone
         /\ folderEvents' = folderEvents /\ scenario' = scenario
         /\ SaidInv => SaidInv'
         /\ Excused(s)' = Excused(s)
<1>1. Log(s)' = Log(s) /\ ConsumedAt(s)' = ConsumedAt(s) /\ scenario' = scenario /\ Told(s)' = Told(s)
  BY SameView
<1>2. Gone' = Gone /\ folderEvents' = folderEvents
  BY DEF Gone, EverDeleted, vars
<1>3. \A d : SnapshotOmitted(d)' = SnapshotOmitted(d)
  BY DEF SnapshotOmitted, vars, hostVars, docVars
<1>4. SaidInv => SaidInv'
  BY <1>2, <1>3 DEF SaidInv, SignalsSaid, FoldersSaid, Live, vars, docVars, folderVars
<1>5. Excused(s)' = Excused(s)
  BY <1>1, <1>3 DEF Excused
<1> QED
  BY <1>1, <1>2, <1>4, <1>5

-----------------------------------------------------------------------------
(***************************************************************************)
(* An event that is not current any more has a later one of its facet      *)
(* behind it.                                                              *)
(***************************************************************************)
LEMMA EndIsLast ==
  ASSUME NEW log, DOMAIN log \subseteq Nat, NEW types, NEW e, Ends(log, types, e), NEW i \in DOMAIN log,
         log[i].type \in types, \A j \in DOMAIN log : log[j].type \in types => j <= i
  PROVE  log[i] = e
<1>1. PICK m \in DOMAIN log : log[m] = e /\ e.type \in types
                              /\ \A j \in DOMAIN log : log[j].type \in types => j <= m
  BY DEF Ends
<1>2. m = i
  <2>1. i <= m /\ m <= i /\ i \in Nat /\ m \in Nat
    BY <1>1
  <2> QED
    BY <2>1
<1> QED
  BY <1>1, <1>2

LEMMA StaleContent ==
  ASSUME FeedInv, NEW d \in Documents, NEW i \in DOMAIN docEvents[d],
         docEvents[d][i].type = "DOCUMENT_INDEXED", ~CurrentDocument(d, docEvents[d][i])
  PROVE  \E j \in DOMAIN docEvents[d] : j > i /\ docEvents[d][j].type \in ContentTypes
<1> DEFINE log == docEvents[d]
           e == log[i]
<1> SUFFICES ASSUME \A j \in DOMAIN log : log[j].type \in ContentTypes => ~(j > i)
             PROVE  FALSE
  OBVIOUS
<1>1. /\ log \in Seq(DocumentEvents) /\ EventsOfHost(hostDocs[d], docSource[d], log)
      /\ LogEnds(docSource[d], docIndex[d], member[d], log)
  BY DEF FeedInv, LogInv, DocumentLog
<1>2. DOMAIN log \subseteq Nat
  BY <1>1
<1>3. e.type \in ContentTypes /\ \A j \in DOMAIN log : log[j].type \in ContentTypes => j <= i
  BY <1>2 DEF ContentTypes
<1>4. docSource[d].version \in Nat /\ docSource[d].live \in BOOLEAN
  BY DEF FeedInv, ManifestInv, TypeOK, DocumentRow
<1>5. CASE docSource[d].live
  <2>1. Ends(log, ContentTypes, DocumentIndexed(docSource[d].version, docSource[d].content,
                                                docIndex[d].extraction))
    BY <1>5 DEF FeedInv, LastIsStored
  <2>2. e = DocumentIndexed(docSource[d].version, docSource[d].content, docIndex[d].extraction)
    BY <1>2, <1>3, <2>1, EndIsLast
  <2>3. e.content = docSource[d].content
    BY <2>2 DEF DocumentIndexed
  <2>4. docIndex[d].live /\ docIndex[d].input = docSource[d].content
    BY <1>5 DEF FeedInv, ManifestInv, ManifestConsistent
  <2> QED
    BY <1>5, <2>3, <2>4 DEF CurrentDocument
<1>6. CASE ~docSource[d].live
  <2>1. Has(log, e)
    BY DEF Has
  <2>2. e.version \in 1..docSource[d].version
    BY <1>1, <2>1 DEF EventsOfHost
  <2>3. docSource[d].version > 0
    BY <1>4, <2>2
  <2>4. Ends(log, ContentTypes, DocumentDeleted(docSource[d].version))
    BY <1>1, <1>6, <2>3 DEF LogEnds
  <2>5. e = DocumentDeleted(docSource[d].version)
    BY <1>2, <1>3, <2>4, EndIsLast
  <2> QED
    BY <2>5 DEF DocumentDeleted
<1> QED
  BY <1>4, <1>5, <1>6

LEMMA StaleRelations ==
  ASSUME FeedInv, SaidInv, NEW d \in Documents, NEW i \in DOMAIN docEvents[d],
         docEvents[d][i].type = "DOCUMENT_FOLDER_RELATIONS_INDEXED",
         ~CurrentRelations(d, docEvents[d][i]), ~SnapshotOmitted(d)
  PROVE  \E j \in DOMAIN docEvents[d] : j > i /\ docEvents[d][j].type \in RelationTypes
<1> DEFINE log == docEvents[d]
           e == log[i]
<1> SUFFICES ASSUME \A j \in DOMAIN log : log[j].type \in RelationTypes => ~(j > i)
             PROVE  FALSE
  OBVIOUS
<1>1. /\ log \in Seq(DocumentEvents) /\ EventsOfHost(hostDocs[d], docSource[d], log)
      /\ LogEnds(docSource[d], docIndex[d], member[d], log)
  BY DEF FeedInv, LogInv, DocumentLog
<1>2. DOMAIN log \subseteq Nat
  BY <1>1
<1>3. e.type \in RelationTypes /\ \A j \in DOMAIN log : log[j].type \in RelationTypes => j <= i
  BY <1>2 DEF RelationTypes
<1>4. docSource[d].version \in Nat /\ docSource[d].live \in BOOLEAN
  BY DEF FeedInv, ManifestInv, TypeOK, DocumentRow
<1>5. CASE docSource[d].live
  <2>1. Ends(log, RelationTypes, RelationsIndexed(docSource[d].version, member[d]))
    BY <1>5 DEF SaidInv, FoldersSaid
  <2>2. e = RelationsIndexed(docSource[d].version, member[d])
    BY <1>2, <1>3, <2>1, EndIsLast
  <2> QED
    BY <1>5, <2>2 DEF CurrentRelations, RelationsIndexed
<1>6. CASE ~docSource[d].live
  <2>1. Has(log, e)
    BY DEF Has
  <2>2. e.version \in 1..docSource[d].version
    BY <1>1, <2>1 DEF EventsOfHost
  <2>3. docSource[d].version > 0
    BY <1>4, <2>2
  <2>4. Ends(log, ContentTypes, DocumentDeleted(docSource[d].version))
    BY <1>1, <1>6, <2>3 DEF LogEnds
  <2>5. PICK m \in DOMAIN log : /\ log[m].type = "DOCUMENT_DELETED"
                                /\ \A j \in DOMAIN log : log[j].type \in ContentTypes => j <= m
    BY <2>4 DEF Ends, DocumentDeleted
  <2>6. PICK k \in DOMAIN log :
          /\ k < i /\ log[k].type = "DOCUMENT_INDEXED"
          /\ \A j \in DOMAIN log : k < j /\ j < i => log[j].type # "DOCUMENT_DELETED"
    BY DEF SaidInv, RelationsFollow
  <2>7. m <= i /\ m # i /\ m # k /\ k <= m /\ m \in Nat /\ i \in Nat /\ k \in Nat
    BY <1>2, <1>3, <2>5, <2>6 DEF ContentTypes, RelationTypes
  <2> QED
    BY <2>5, <2>6, <2>7
<1> QED
  BY <1>4, <1>5, <1>6

\* The last event of a folder's own says what the table says.
LEMMA LastOfOwn ==
  ASSUME FeedInv, NEW f \in Folders, NEW i \in DOMAIN folderEvents[f],
         folderEvents[f][i].type \in FolderTypes
  PROVE  \E q \in DOMAIN folderEvents[f] :
           /\ \A j \in DOMAIN folderEvents[f] : folderEvents[f][j].type \in FolderTypes => j <= q
           /\ folderEvents[f][q] = IF Live(f)
                THEN FolderIndexed(folderSource[f].version, folderSource[f].parent, folderSource[f].label)
                ELSE FolderDeleted(folderSource[f].version)
<1> DEFINE log == folderEvents[f]
           e == log[i]
           row == folderSource[f]
<1>1. FolderLog(hostFolders[f], row, log)
  BY DEF FeedInv, LogInv
<1>2. row.version \in Nat
  BY DEF FeedInv, ManifestInv, TypeOK, FolderRow
<1>3. e.type = "FOLDER_INDEXED" \/ e.type = "FOLDER_DELETED"
  BY DEF FolderTypes
<1>4. Has(log, e)
  BY DEF Has
<1>5. e.version \in 1..row.version
  BY <1>1, <1>3, <1>4 DEF FolderLog
<1>6. row.version > 0
  BY <1>2, <1>5
<1>7. Ends(log, FolderTypes, IF row.live THEN FolderIndexed(row.version, row.parent, row.label)
                             ELSE FolderDeleted(row.version))
  BY <1>1, <1>6 DEF FolderLog, FolderIndexedAs
<1> QED
  BY <1>7 DEF Ends, Live

LEMMA StaleFolder ==
  ASSUME FeedInv, NEW f \in Folders, NEW i \in DOMAIN folderEvents[f],
         folderEvents[f][i].type = "FOLDER_INDEXED", ~CurrentFolder(f, folderEvents[f][i])
  PROVE  /\ \E j \in DOMAIN folderEvents[f] : j > i /\ folderEvents[f][j].type \in FolderTypes
         /\ f \notin Gone =>
              \E q \in DOMAIN folderEvents[f] :
                /\ q > i /\ folderEvents[f][q].type = "FOLDER_INDEXED"
                /\ IndexOf(folderEvents[f][q]) # IndexOf(folderEvents[f][i])
<1> DEFINE log == folderEvents[f]
           row == folderSource[f]
<1>1. log[i].type \in FolderTypes
  BY DEF FolderTypes
<1>2. PICK q \in DOMAIN log :
        /\ \A j \in DOMAIN log : log[j].type \in FolderTypes => j <= q
        /\ log[q] = IF Live(f) THEN FolderIndexed(row.version, row.parent, row.label)
                    ELSE FolderDeleted(row.version)
  BY <1>1, LastOfOwn
<1>3. DOMAIN log \subseteq Nat
  BY DEF FeedInv, LogInv, FolderLog
<1>4. Live(f) \in BOOLEAN
  BY DEF FeedInv, ManifestInv, TypeOK, FolderRow, Live
<1>5. CASE Live(f)
  <2>1. log[q].type = "FOLDER_INDEXED" /\ IndexOf(log[q]) = [parent |-> row.parent, label |-> row.label]
    BY <1>2, <1>5 DEF FolderIndexed, IndexOf
  <2>2. folderIndex[f].indexInput = [parent |-> row.parent, label |-> row.label]
    BY <1>5 DEF FeedInv, ManifestInv, ManifestConsistent, FolderDigestsFresh, IndexInput
  <2>3. IndexOf(log[i]) # IndexOf(log[q])
    BY <1>5, <2>1, <2>2 DEF CurrentFolder, IndexOf
  <2>4. q # i /\ i <= q /\ i \in Nat /\ q \in Nat
    BY <1>1, <1>2, <1>3, <2>3
  <2>5. q > i
    BY <2>4
  <2> QED
    BY <2>1, <2>3, <2>5 DEF FolderTypes
<1>6. CASE ~Live(f)
  <2>1. log[q].type = "FOLDER_DELETED"
    BY <1>2, <1>6 DEF FolderDeleted
  <2>2. q # i /\ i <= q /\ i \in Nat /\ q \in Nat
    BY <1>1, <1>2, <1>3, <2>1
  <2>3. q > i
    BY <2>2
  <2>4. f \in Gone
    BY <2>1 DEF Gone, EverDeleted
  <2> QED
    BY <2>1, <2>3, <2>4 DEF FolderTypes
<1> QED
  BY <1>4, <1>5, <1>6

LEMMA StaleSignals ==
  ASSUME FeedInv, scenario.target = "graph", NEW f \in Folders, Told(f), NEW i \in DOMAIN folderEvents[f],
         folderEvents[f][i].type \in {"FOLDER_SIGNALS_INDEXED", "FOLDER_SIGNALS_INVALIDATED"},
         ~CurrentFolderSignals(f, folderEvents[f][i])
  PROVE  \E j \in DOMAIN folderEvents[f] : j > i /\ folderEvents[f][j].type \in SignalTypes
<1>1. f \notin untold
  BY DEF Told
<1>2. Followed(folderEvents[f], Live(f), folderIndex[f].signalInput)
  BY <1>1 DEF FeedInv, SignalLog
<1> QED
  BY <1>2 DEF Followed, CurrentFolderSignals

\* An event that is out of date leaves its source as it is.
LEMMA StalePart ==
  ASSUME FeedInv, SaidInv, scenario.target = "graph", NEW s \in Sources, NEW i \in ConsumedAt(s),
         NEW h \in Nat, \A j \in ConsumedAt(s) : j <= h \/ i <= j,
         ~Fresh(s, Log(s)[i]), GraphPart(graph, s, Log(s), Gone, Excused(s), h)
  PROVE  GraphPart(graph, s, Log(s), Gone, Excused(s), i)
<1> DEFINE log == Log(s)
           e == log[i]
<1>1. /\ ConsumedAt(s) = DOMAIN log /\ DOMAIN log \subseteq Nat /\ i \in DOMAIN log
      /\ EventFor(s, e) /\ e.type \in GraphEvents
      /\ s \in Documents => log = docEvents[s] /\ s \notin Folders
      /\ s \in Folders => log = folderEvents[s]
  BY GraphViews, SourcesAreApart
<1>2. e.type \in {"DOCUMENT_INDEXED", "DOCUMENT_FOLDER_RELATIONS_INDEXED",
                  "FOLDER_INDEXED", "FOLDER_SIGNALS_INVALIDATED", "FOLDER_SIGNALS_INDEXED"}
      /\ ~Current(s, e)
  <2>1. e.type \in {"DOCUMENT_INDEXED", "DOCUMENT_FOLDER_RELATIONS_INDEXED", "DOCUMENT_DELETED",
                    "FOLDER_INDEXED", "FOLDER_SIGNALS_INVALIDATED", "FOLDER_SIGNALS_INDEXED",
                    "FOLDER_DELETED"}
    BY <1>1 DEF GraphEvents, SignalEvents
  <2>2. ~Current(s, e)
    BY DEF Fresh
  <2> HIDE DEF e
  <2> QED
    BY <2>1, <2>2 DEF Current
<1>3. ASSUME NEW k \in FacetsOf(s) \ Excused(s), e.type \in TypesOf[k]
      PROVE  \E j \in DOMAIN log : j > i /\ log[j].type \in TypesOf[k]
  <2>1. CASE k = "content"
    <3>1. s \in Documents /\ e.type = "DOCUMENT_INDEXED" /\ TypesOf[k] = ContentTypes
      BY <1>2, <1>3, <2>1 DEF FacetsOf, TypesOf, ContentTypes
    <3>2. ~CurrentDocument(s, e)
      BY <1>2, <3>1 DEF Current
    <3> QED
      BY <1>1, <3>1, <3>2, StaleContent
  <2>2. CASE k = "relations"
    <3>1. s \in Documents /\ e.type = "DOCUMENT_FOLDER_RELATIONS_INDEXED" /\ TypesOf[k] = RelationTypes
      BY <1>2, <1>3, <2>2 DEF FacetsOf, TypesOf, RelationTypes
    <3>2. ~CurrentRelations(s, e)
      BY <1>2, <3>1 DEF Current
    <3>3. ~SnapshotOmitted(s)
      BY <2>2 DEF Excused
    <3> QED
      BY <1>1, <3>1, <3>2, <3>3, StaleRelations
  <2>3. CASE k = "folder"
    <3>1. s \in Folders /\ e.type = "FOLDER_INDEXED" /\ TypesOf[k] = FolderTypes
      BY <1>2, <1>3, <2>3 DEF FacetsOf, TypesOf, FolderTypes
    <3>2. ~CurrentFolder(s, e)
      BY <1>2, <3>1 DEF Current
    <3> QED
      BY <1>1, <3>1, <3>2, StaleFolder
  <2>4. CASE k = "signals"
    <3>1. /\ s \in Folders /\ TypesOf[k] = SignalTypes
          /\ e.type \in {"FOLDER_SIGNALS_INDEXED", "FOLDER_SIGNALS_INVALIDATED"}
      BY <1>2, <1>3, <2>4 DEF FacetsOf, TypesOf, SignalTypes
    <3>2. ~CurrentFolderSignals(s, e)
      BY <1>2, <3>1 DEF Current
    <3>3. Told(s)
      BY <2>4 DEF Excused
    <3> QED
      BY <1>1, <3>1, <3>2, <3>3, StaleSignals
  <2> QED
    BY <2>1, <2>2, <2>3, <2>4 DEF FacetsOf
<1>4. ASSUME NEW k \in FacetsOf(s) \ Excused(s), Behind(log, TypesOf[k], i)
      PROVE  Held(graph, s, k, log, Gone)
  <2>1. e.type \notin TypesOf[k]
    BY <1>1, <1>3, <1>4 DEF Behind
  <2>2. Behind(log, TypesOf[k], h)
    BY <1>1, <1>4, <2>1, BehindBefore
  <2> QED
    BY <2>2 DEF GraphPart
<1>5. ASSUME s \in Folders \ Gone
      PROVE  Present(graph, s, log, i)
  <2>1. Present(graph, s, log, h)
    BY <1>5 DEF GraphPart
  <2>2. ASSUME e.type = "FOLDER_INDEXED"
        PROVE  \E q \in DOMAIN log : /\ q > i /\ log[q].type = "FOLDER_INDEXED"
                                     /\ IndexOf(log[q]) # IndexOf(e)
    <3>1. ~CurrentFolder(s, e)
      BY <1>2, <2>2 DEF Current
    <3> QED
      BY <1>1, <1>5, <2>2, <3>1, StaleFolder
  <2>3. \A p \in DOMAIN log : p <= i => p <= h \/ p = i
    BY <1>1
  <2> HIDE DEF e
  <2>4. ASSUME NEW p \in DOMAIN log, log[p].type = "FOLDER_INDEXED", p <= i
        PROVE  \/ graph.folders[s] # NoNode
               \/ \E q \in DOMAIN log : /\ q > p /\ log[q].type = "FOLDER_INDEXED"
                                        /\ IndexOf(log[q]) # IndexOf(log[p])
    <3>1. CASE p <= h
      BY <2>1, <2>4, <3>1 DEF Present
    <3>2. CASE p = i
      BY <2>2, <2>4, <3>2 DEF e
    <3> QED
      BY <2>3, <2>4, <3>1, <3>2
  <2> QED
    BY <2>4 DEF Present
<1> QED
  BY <1>4, <1>5 DEF GraphPart

-----------------------------------------------------------------------------
(***************************************************************************)
(* The handlers.  A step of one leaves the manifest and the other sources' *)
(* work alone.                                                             *)
(***************************************************************************)
PartOf(g, t) == GraphPart(g, t, Log(t), Gone, Excused(t), Reached(cursor[t], work[t].owner))

LEMMA GraphHandlerKeeps ==
  ASSUME GraphInv, scenario.target = "graph", UNCHANGED <<vars, scenario, untold>>, NEW s \in Sources,
         work' \in [Sources -> [Slots -> GraphTasks]], cursor' \in [Sources -> Nat],
         StoreOK(graph', folderEvents, Gone),
         \A t \in Sources \ {s} :
           /\ work'[t] = work[t] /\ cursor'[t] = cursor[t] /\ (t \in disturbed' <=> t \in disturbed)
           /\ t \notin disturbed => PartOf(graph', t),
         GraphPlaced(Log(s), ConsumedAt(s), cursor'[s], work'[s].owner, work'[s].late),
         s \notin disturbed' =>
           GraphPart(graph', s, Log(s), Gone, Excused(s), Reached(cursor'[s], work'[s].owner))
  PROVE  GraphInv'
<1>1. FeedInv' /\ SaidInv' /\ scenario' = scenario
  BY HandlersKeepFeed, SameGraphView DEF GraphInv
<1>2. StoreOK(graph, folderEvents, Gone)' /\ GraphShapes'
  BY SameGraphView DEF GraphShapes
<1>3. ASSUME NEW t \in Sources PROVE GraphSource(t)'
  <2>1. /\ Log(t)' = Log(t) /\ ConsumedAt(t)' = ConsumedAt(t) /\ Gone' = Gone
        /\ Excused(t)' = Excused(t)
    BY SameGraphView
  <2>2. CASE t = s
    BY <2>1, <2>2 DEF GraphSource
  <2>3. CASE t # s
    <3>1. GraphSource(t)
      BY DEF GraphInv
    <3>2. /\ cursor'[t] = cursor[t] /\ work'[t] = work[t] /\ (t \in disturbed' <=> t \in disturbed)
          /\ t \notin disturbed => PartOf(graph', t)
      BY <2>3
    <3> QED
      BY <2>1, <3>1, <3>2 DEF GraphSource, PartOf
  <2> QED
    BY <2>2, <2>3
<1> QED
  BY <1>1, <1>2, <1>3 DEF GraphInv

\* A step that does not write.
LEMMA QuietGraphKeeps ==
  ASSUME GraphInv, scenario.target = "graph", UNCHANGED <<vars, scenario, untold, graph>>,
         NEW s \in Sources,
         work' \in [Sources -> [Slots -> GraphTasks]], cursor' \in [Sources -> Nat],
         \A t \in Sources \ {s} :
           work'[t] = work[t] /\ cursor'[t] = cursor[t] /\ (t \in disturbed' <=> t \in disturbed),
         GraphPlaced(Log(s), ConsumedAt(s), cursor'[s], work'[s].owner, work'[s].late),
         s \notin disturbed' =>
           GraphPart(graph, s, Log(s), Gone, Excused(s), Reached(cursor'[s], work'[s].owner))
  PROVE  GraphInv'
<1>1. StoreOK(graph', folderEvents, Gone)
  BY DEF GraphInv
<1>2. \A t \in Sources \ {s} : t \notin disturbed => PartOf(graph', t)
  BY DEF GraphInv, GraphSource, PartOf
<1> QED
  BY <1>1, <1>2, GraphHandlerKeeps

\* What the invariant says of a source and of its tasks.
LEMMA GraphSourceIs ==
  ASSUME GraphInv, scenario.target = "graph", NEW s \in Sources
  PROVE  /\ FeedInv /\ SaidInv /\ GraphShapes
         /\ ConsumedAt(s) \subseteq DOMAIN Log(s) /\ DOMAIN Log(s) \subseteq Nat \ {0}
         /\ \A i \in ConsumedAt(s) : ConsumedAt(s) = DOMAIN Log(s)
         /\ \A i \in DOMAIN Log(s) : Log(s)[i].type \in GraphEvents
         /\ cursor[s] \in Nat /\ cursor[s] \in ConsumedAt(s) \cup {0}
         /\ GraphPlaced(Log(s), ConsumedAt(s), cursor[s], work[s].owner, work[s].late)
         /\ s \notin disturbed => PartOf(graph, s)
         /\ Reached(cursor[s], work[s].owner) \in Nat
         /\ \A i \in ConsumedAt(s) : /\ StepsAt(s, i) = GraphSteps(Log(s)[i])
                                     /\ StepsAt(s, i) \in GraphTodos /\ StepsAt(s, i) # << >>
<1>1. FeedInv /\ SaidInv /\ GraphShapes /\ GraphSource(s)
  BY DEF GraphInv
<1>2. /\ ConsumedAt(s) \subseteq DOMAIN Log(s) /\ DOMAIN Log(s) \subseteq Nat \ {0}
      /\ \A i \in ConsumedAt(s) : ConsumedAt(s) = DOMAIN Log(s)
      /\ \A i \in DOMAIN Log(s) : Log(s)[i].type \in GraphEvents
  BY <1>1, GraphViews
<1>3. cursor[s] \in Nat /\ work[s].owner.at \in Nat
  BY <1>1, GraphWorkIs
<1>4. ASSUME NEW i \in ConsumedAt(s)
      PROVE  /\ StepsAt(s, i) = GraphSteps(Log(s)[i])
             /\ StepsAt(s, i) \in GraphTodos /\ StepsAt(s, i) # << >>
  BY <1>2, GraphStepsAre, GraphTodosGoOn DEF StepsAt, GraphTodos
<1> QED
  BY <1>1, <1>2, <1>3, <1>4 DEF GraphSource, GraphPlaced, PartOf, Reached

\* A handler begins.
Begun(s, i, replay) == Task(i, replay, StepsAt(s, i))

LEMMA BegunIs ==
  ASSUME GraphInv, scenario.target = "graph", NEW s \in Sources, NEW i \in ConsumedAt(s),
         NEW replay \in BOOLEAN, NEW task, task = Begun(s, i, replay)
  PROVE  /\ task \in GraphTasks /\ task # Idle /\ task.at = i /\ task.replay = replay
         /\ task.todo # << >> /\ GraphTaskOK(Log(s), ConsumedAt(s), task)
         /\ i \in Nat \ {0}
         /\ \A c : Reached(c, task) = c
<1>1. StepsAt(s, i) = GraphSteps(Log(s)[i]) /\ StepsAt(s, i) \in GraphTodos /\ StepsAt(s, i) # << >>
      /\ i \in Nat \ {0}
  BY GraphSourceIs
<1>2. task \in GraphTasks /\ task.at = i /\ task.replay = replay /\ task.todo = StepsAt(s, i)
  BY <1>1, GraphTasksAre DEF Begun
<1>3. task # Idle
  BY <1>1, <1>2, GraphTasksAre
<1>4. GraphTaskOK(Log(s), ConsumedAt(s), task)
  BY <1>1, <1>2 DEF GraphTaskOK
<1> QED
  BY <1>1, <1>2, <1>3, <1>4 DEF Reached

LEMMA AnyBegunIs ==
  ASSUME GraphInv, scenario.target = "graph", NEW s \in Sources, NEW i \in ConsumedAt(s),
         NEW replay \in BOOLEAN
  PROVE  LET task == Begun(s, i, replay)
         IN  /\ task \in GraphTasks /\ task # Idle /\ task.at = i /\ task.replay = replay
             /\ GraphTaskOK(Log(s), ConsumedAt(s), task) /\ \A c : Reached(c, task) = c
<1> DEFINE task == Begun(s, i, replay)
<1>1. task = Begun(s, i, replay)
  OBVIOUS
<1> HIDE DEF task
<1>2. /\ task \in GraphTasks /\ task # Idle /\ task.at = i /\ task.replay = replay
      /\ GraphTaskOK(Log(s), ConsumedAt(s), task) /\ \A c : Reached(c, task) = c
  BY <1>1, BegunIs
<1> QED
  BY <1>1, <1>2

LEMMA ReceiveKeepsGraph ==
  ASSUME GraphInv, scenario.target = "graph", NEW s \in Sources, Receive(s)
  PROVE  GraphInv'
<1> DEFINE i == First(Waiting(s))
           task == Begun(s, i, FALSE)
<1>1. /\ GraphShapes /\ ConsumedAt(s) \subseteq Nat /\ cursor[s] \in Nat
      /\ GraphPlaced(Log(s), ConsumedAt(s), cursor[s], work[s].owner, work[s].late)
      /\ s \notin disturbed => PartOf(graph, s)
  BY GraphSourceIs
<1>2. i \in ConsumedAt(s) /\ cursor[s] < i /\ \A j \in ConsumedAt(s) : j <= cursor[s] \/ i <= j
  <2>1. Waiting(s) \in SUBSET Nat /\ Waiting(s) # {}
    BY <1>1 DEF Waiting, Receive
  <2>2. i \in Waiting(s) /\ \A j \in Waiting(s) : i <= j
    BY <2>1, FirstIs
  <2> HIDE DEF i
  <2> QED
    BY <1>1, <2>2 DEF Waiting
<1>3. /\ work[s].owner = Idle /\ SetTask(s, "owner", task)
      /\ UNCHANGED <<vars, scenario, cursor, disturbed, untold, graph>>
  BY DEF Receive, storeVars, Begun
<1> HIDE DEF i
<1>4. /\ task \in GraphTasks /\ task # Idle /\ task.at = i /\ task.replay = FALSE
      /\ GraphTaskOK(Log(s), ConsumedAt(s), task) /\ \A c : Reached(c, task) = c
  BY <1>2, AnyBegunIs
<1> HIDE DEF task
<1>5. /\ work' \in [Sources -> [Slots -> GraphTasks]]
      /\ work'[s].owner = task /\ work'[s].late = work[s].late
      /\ \A t \in Sources \ {s} : work'[t] = work[t]
  BY <1>1, <1>3, <1>4, GraphSetTaskIs DEF Slots
<1>6. GraphPlaced(Log(s), ConsumedAt(s), cursor[s], task, work[s].late)
  BY <1>1, <1>2, <1>3, <1>4 DEF GraphPlaced
<1>7. cursor' = cursor /\ cursor' \in [Sources -> Nat] /\ disturbed' = disturbed
  BY <1>1, <1>3 DEF GraphShapes
<1>8. s \notin disturbed => GraphPart(graph, s, Log(s), Gone, Excused(s), cursor[s])
  BY <1>1, <1>3 DEF PartOf, Reached
<1> QED
  BY <1>3, <1>4, <1>5, <1>6, <1>7, <1>8, QuietGraphKeeps

LEMMA RetryKeepsGraph ==
  ASSUME GraphInv, scenario.target = "graph", NEW s \in Sources, Retry(s) \/ LosePartition(s)
  PROVE  GraphInv'
<1> DEFINE own == work[s].owner
           i == own.at
           task == Begun(s, i, own.replay)
           late == IF Retry(s) THEN work[s].late ELSE own
<1>1. /\ GraphShapes /\ DOMAIN Log(s) \subseteq Nat /\ cursor[s] \in Nat
      /\ GraphPlaced(Log(s), ConsumedAt(s), cursor[s], own, work[s].late)
      /\ s \notin disturbed => PartOf(graph, s)
      /\ Reached(cursor[s], own) \in Nat
  BY GraphSourceIs
<1>2. own \in GraphTasks /\ work[s].late \in GraphTasks /\ own.replay \in BOOLEAN
  BY <1>1, GraphWorkIs
<1>3. own # Idle /\ UNCHANGED <<vars, scenario, cursor, disturbed, untold, graph>>
  BY DEF Retry, LosePartition, storeVars
<1>4. i \in ConsumedAt(s)
  BY <1>1, <1>3 DEF GraphPlaced, GraphTaskOK
<1>5. /\ task \in GraphTasks /\ task # Idle /\ task.at = i /\ task.replay = own.replay
      /\ GraphTaskOK(Log(s), ConsumedAt(s), task) /\ \A c : Reached(c, task) = c
  BY <1>2, <1>4, AnyBegunIs
<1>6. /\ work' \in [Sources -> [Slots -> GraphTasks]]
      /\ work'[s].owner = task /\ work'[s].late = late
      /\ \A t \in Sources \ {s} : work'[t] = work[t]
  <2>1. CASE Retry(s)
    <3>1. SetTask(s, "owner", task)
      BY <2>1 DEF Retry, Begun
    <3> HIDE DEF task
    <3> QED
      BY <1>1, <1>5, <2>1, <3>1, GraphSetTaskIs DEF Slots
  <2>2. CASE ~Retry(s)
    <3>1. work' = [work EXCEPT ![s] = [late |-> own, owner |-> task]]
      BY <2>2 DEF LosePartition, Begun
    <3> HIDE DEF task, own
    <3>2. [late |-> own, owner |-> task] \in [Slots -> GraphTasks]
      BY <1>2, <1>5 DEF Slots
    <3> QED
      BY <1>1, <2>2, <3>1, <3>2 DEF GraphShapes
  <2> QED
    BY <2>1, <2>2
<1> HIDE DEF task, own
<1>7. GraphPlaced(Log(s), ConsumedAt(s), cursor[s], task, late)
  <2>1. late # Idle => /\ GraphTaskOK(Log(s), ConsumedAt(s), late)
                       /\ late.at <= cursor[s] \/ late.at = i
    BY <1>1, <1>3 DEF GraphPlaced
  <2> QED
    BY <1>1, <1>3, <1>5, <2>1 DEF GraphPlaced
<1>8. s \notin disturbed => GraphPart(graph, s, Log(s), Gone, Excused(s), cursor[s])
  <2>1. cursor[s] <= Reached(cursor[s], own)
    BY <1>1, <1>2, <1>3 DEF Reached, GraphPlaced, GraphTasks
  <2>2. s \notin disturbed => GraphPart(graph, s, Log(s), Gone, Excused(s), Reached(cursor[s], own))
    BY <1>1 DEF PartOf, own
  <2> QED
    BY <1>1, <2>1, <2>2, PartGoesBack
<1>9. cursor' = cursor /\ cursor' \in [Sources -> Nat] /\ disturbed' = disturbed
  BY <1>1, <1>3 DEF GraphShapes
<1> HIDE DEF late
<1> QED
  BY <1>3, <1>5, <1>6, <1>7, <1>8, <1>9, QuietGraphKeeps

LEMMA ReplayKeepsGraph ==
  ASSUME GraphInv, scenario.target = "graph", NEW s \in Sources, Replay(s)
  PROVE  GraphInv'
<1>1. /\ GraphShapes /\ DOMAIN Log(s) \subseteq Nat /\ cursor[s] \in Nat
      /\ GraphPlaced(Log(s), ConsumedAt(s), cursor[s], work[s].owner, work[s].late)
      /\ s \notin disturbed => PartOf(graph, s)
  BY GraphSourceIs
<1>2. PICK i \in ConsumedAt(s) : i <= cursor[s] /\ SetTask(s, "owner", Begun(s, i, TRUE))
  BY DEF Replay, Begun
<1> DEFINE task == Begun(s, i, TRUE)
<1>3. work[s].owner = Idle /\ UNCHANGED <<vars, scenario, cursor, disturbed, untold, graph>>
  BY DEF Replay, storeVars
<1>4. /\ task \in GraphTasks /\ task # Idle /\ task.at = i /\ task.replay = TRUE
      /\ GraphTaskOK(Log(s), ConsumedAt(s), task) /\ \A c : Reached(c, task) = c
  BY <1>2, AnyBegunIs
<1>5. SetTask(s, "owner", task)
  BY <1>2
<1> HIDE DEF task
<1>6. /\ work' \in [Sources -> [Slots -> GraphTasks]]
      /\ work'[s].owner = task /\ work'[s].late = work[s].late
      /\ \A t \in Sources \ {s} : work'[t] = work[t]
  BY <1>1, <1>4, <1>5, GraphSetTaskIs DEF Slots
<1>7. GraphPlaced(Log(s), ConsumedAt(s), cursor[s], task, work[s].late)
  BY <1>1, <1>2, <1>3, <1>4 DEF GraphPlaced
<1>8. cursor' = cursor /\ cursor' \in [Sources -> Nat] /\ disturbed' = disturbed
  BY <1>1, <1>3 DEF GraphShapes
<1>9. s \notin disturbed => GraphPart(graph, s, Log(s), Gone, Excused(s), cursor[s])
  BY <1>1, <1>3 DEF PartOf, Reached
<1> QED
  BY <1>3, <1>4, <1>6, <1>7, <1>8, <1>9, QuietGraphKeeps

LEMMA LateDiesKeepsGraph ==
  ASSUME GraphInv, scenario.target = "graph", NEW s \in Sources, SetTask(s, "late", Idle),
         UNCHANGED <<vars, scenario, cursor, disturbed, untold, graph>>
  PROVE  GraphInv'
<1>1. /\ GraphShapes
      /\ GraphPlaced(Log(s), ConsumedAt(s), cursor[s], work[s].owner, work[s].late)
      /\ s \notin disturbed => PartOf(graph, s)
  BY GraphSourceIs
<1>2. /\ work' \in [Sources -> [Slots -> GraphTasks]]
      /\ work'[s].owner = work[s].owner /\ work'[s].late = Idle
      /\ \A t \in Sources \ {s} : work'[t] = work[t]
  BY <1>1, GraphTasksAre, GraphSetTaskIs DEF Slots
<1>3. GraphPlaced(Log(s), ConsumedAt(s), cursor[s], work[s].owner, Idle)
  BY <1>1 DEF GraphPlaced
<1>4. cursor' = cursor /\ cursor' \in [Sources -> Nat] /\ disturbed' = disturbed
  BY <1>1 DEF GraphShapes
<1> QED
  BY <1>1, <1>2, <1>3, <1>4, QuietGraphKeeps DEF PartOf

LEMMA OwnerEndsKeepsGraph ==
  ASSUME GraphInv, scenario.target = "graph", NEW s \in Sources,
         work[s].owner # Idle, SetTask(s, "owner", Idle),
         cursor' = IF work[s].owner.replay THEN cursor
                   ELSE [cursor EXCEPT ![s] = work[s].owner.at],
         \/ work[s].owner.todo = << >> /\ disturbed' = disturbed
         \/ disturbed' = disturbed \cup {s},
         UNCHANGED <<vars, scenario, untold, graph>>
  PROVE  GraphInv'
<1> DEFINE own == work[s].owner
           c2 == IF own.replay THEN cursor[s] ELSE own.at
<1>1. /\ GraphShapes /\ ConsumedAt(s) \subseteq Nat /\ cursor[s] \in Nat
      /\ GraphPlaced(Log(s), ConsumedAt(s), cursor[s], own, work[s].late)
      /\ s \notin disturbed => PartOf(graph, s)
  BY GraphSourceIs
<1>2. own \in GraphTasks /\ work[s].late \in GraphTasks /\ own.replay \in BOOLEAN
  BY <1>1, GraphWorkIs
<1>3. /\ work' \in [Sources -> [Slots -> GraphTasks]]
      /\ work'[s].owner = Idle /\ work'[s].late = work[s].late
      /\ \A t \in Sources \ {s} : work'[t] = work[t]
  BY <1>1, GraphTasksAre, GraphSetTaskIs DEF Slots
<1>4. /\ cursor' \in [Sources -> Nat] /\ cursor'[s] = c2
      /\ \A t \in Sources \ {s} : cursor'[t] = cursor[t]
  BY <1>1, <1>2 DEF GraphShapes, GraphTasks
<1>5. /\ own.at \in ConsumedAt(s) /\ c2 \in ConsumedAt(s) \cup {0} /\ cursor[s] <= c2 /\ own.at <= c2
      /\ work[s].late # Idle => work[s].late.at \in ConsumedAt(s)
  BY <1>1, <1>2 DEF GraphPlaced, GraphTaskOK
<1>6. GraphPlaced(Log(s), ConsumedAt(s), c2, Idle, work[s].late)
  <2> HIDE DEF c2, own
  <2>1. work[s].late # Idle => work[s].late.at <= c2
    <3>1. work[s].late # Idle => work[s].late.at <= cursor[s] \/ work[s].late.at = own.at
      BY <1>1 DEF GraphPlaced
    <3>2. c2 \in Nat /\ own.at \in Nat /\ work[s].late # Idle => work[s].late.at \in Nat
      BY <1>1, <1>5
    <3> QED
      BY <1>1, <1>5, <3>1, <3>2
  <2> QED
    BY <1>1, <1>5, <2>1 DEF GraphPlaced
<1>7. own.todo = << >> => Reached(cursor[s], own) = c2 /\ Reached(c2, Idle) = c2
  BY DEF Reached
<1>8. s \notin disturbed' => GraphPart(graph, s, Log(s), Gone, Excused(s), Reached(c2, Idle))
  BY <1>1, <1>7 DEF PartOf
<1>9. \A t \in Sources \ {s} : t \in disturbed' <=> t \in disturbed
  OBVIOUS
<1> HIDE DEF c2, own
<1> QED
  BY <1>3, <1>4, <1>6, <1>8, <1>9, QuietGraphKeeps

\* What the check leaves of a task.
LEMMA CheckedIs ==
  ASSUME GraphInv, scenario.target = "graph", NEW s \in Sources, NEW slot \in Slots, Check(s, slot),
         NEW task, task = work[s][slot]
  PROVE  \E next \in GraphTasks :
           /\ SetTask(s, slot, next) /\ task # Idle /\ next # Idle
           /\ next.at = task.at /\ next.replay = task.replay
           /\ GraphTaskOK(Log(s), ConsumedAt(s), next)
           /\ task.todo # << >>
           /\ next.todo = << >> => ~Fresh(s, Log(s)[task.at])
<1> DEFINE e == Log(s)[task.at]
           next == [task EXCEPT !.todo = IF Fresh(s, e) THEN Tail(@) ELSE << >>,
                                !.current = Current(s, e)]
<1>1. /\ FeedInv /\ GraphShapes
      /\ GraphPlaced(Log(s), ConsumedAt(s), cursor[s], work[s].owner, work[s].late)
      /\ ConsumedAt(s) \subseteq DOMAIN Log(s) /\ DOMAIN Log(s) \subseteq Nat \ {0}
      /\ \A i \in DOMAIN Log(s) : Log(s)[i].type \in GraphEvents
  BY GraphSourceIs
<1>2. /\ task # Idle /\ task.todo # << >> /\ Head(task.todo) = "check" /\ SetTask(s, slot, next)
  BY DEF Check, Step, EventOf
<1>3. task \in GraphTasks /\ GraphTaskOK(Log(s), ConsumedAt(s), task)
  BY <1>1, <1>2, GraphWorkIs DEF Slots, GraphPlaced
<1>4. task.at \in ConsumedAt(s) /\ e.type \in GraphEvents /\ Current(s, e) \in BOOLEAN
  BY <1>1, <1>3, CurrentIsBoolean DEF GraphTaskOK
<1> HIDE DEF e
<1>5. /\ Tail(task.todo) = GraphWrites(e) /\ GraphWrites(e) \in GraphTodos /\ GraphWrites(e) # << >>
  BY <1>2, <1>3, <1>4, GraphTasksGoOn DEF e
<1>6. << >> \in GraphTodos
  BY GraphTasksAre
<1>7. /\ next \in GraphTasks /\ next.at = task.at /\ next.replay = task.replay
      /\ next.todo = (IF Fresh(s, e) THEN GraphWrites(e) ELSE << >>) /\ next.current = Current(s, e)
  BY <1>3, <1>4, <1>5, <1>6 DEF GraphTasks
<1> HIDE DEF next
<1>8. next # Idle
  BY <1>1, <1>4, <1>7, GraphTasksAre
<1>9. GraphTaskOK(Log(s), ConsumedAt(s), next)
  BY <1>4, <1>7 DEF GraphTaskOK, Fresh, e
<1> QED
  BY <1>2, <1>5, <1>7, <1>8, <1>9 DEF e

LEMMA CheckKeepsGraph ==
  ASSUME GraphInv, scenario.target = "graph", NEW s \in Sources, NEW slot \in Slots, Check(s, slot)
  PROVE  GraphInv'
<1> DEFINE own == work[s].owner
           late == work[s].late
<1>1. /\ FeedInv /\ SaidInv /\ GraphShapes /\ ConsumedAt(s) \subseteq Nat \ {0} /\ cursor[s] \in Nat
      /\ GraphPlaced(Log(s), ConsumedAt(s), cursor[s], own, late)
      /\ s \notin disturbed => GraphPart(graph, s, Log(s), Gone, Excused(s), Reached(cursor[s], own))
  BY GraphSourceIs DEF PartOf
<1>2. PICK next \in GraphTasks :
         /\ SetTask(s, slot, next) /\ work[s][slot] # Idle /\ next # Idle
         /\ next.at = work[s][slot].at /\ next.replay = work[s][slot].replay
         /\ GraphTaskOK(Log(s), ConsumedAt(s), next)
         /\ work[s][slot].todo # << >>
         /\ next.todo = << >> => ~Fresh(s, Log(s)[work[s][slot].at])
  BY CheckedIs
<1>3. UNCHANGED <<vars, scenario, cursor, disturbed, untold, graph>>
  BY DEF Check, storeVars
<1>4. cursor' = cursor /\ cursor' \in [Sources -> Nat] /\ disturbed' = disturbed
  BY <1>1, <1>3 DEF GraphShapes
<1>5. CASE slot = "owner"
  <2>1. /\ work' \in [Sources -> [Slots -> GraphTasks]]
        /\ work'[s].owner = next /\ work'[s].late = late
        /\ \A t \in Sources \ {s} : work'[t] = work[t]
    BY <1>1, <1>2, <1>5, GraphSetTaskIs
  <2>2. /\ own # Idle /\ next.at = own.at /\ next.replay = own.replay /\ own.todo # << >>
        /\ next.todo = << >> => ~Fresh(s, Log(s)[own.at])
    BY <1>2, <1>5
  <2> HIDE DEF own, late
  <2>3. GraphPlaced(Log(s), ConsumedAt(s), cursor[s], next, late)
    BY <1>1, <1>2, <2>2 DEF GraphPlaced
  <2>4. Reached(cursor[s], own) = cursor[s]
    BY <2>2 DEF Reached
  <2>5. s \notin disturbed => GraphPart(graph, s, Log(s), Gone, Excused(s), Reached(cursor[s], next))
    <3>1. CASE Reached(cursor[s], next) = cursor[s]
      BY <1>1, <2>4, <3>1
    <3>2. CASE Reached(cursor[s], next) # cursor[s]
      <4>1. next.todo = << >> /\ ~next.replay /\ Reached(cursor[s], next) = own.at
        BY <2>2, <3>2 DEF Reached
      <4>2. own.at \in ConsumedAt(s) /\ \A j \in ConsumedAt(s) : j <= cursor[s] \/ own.at <= j
        BY <1>1, <2>2, <4>1 DEF GraphPlaced, GraphTaskOK
      <4> QED
        BY <1>1, <2>2, <2>4, <4>1, <4>2, StalePart
    <3> QED
      BY <3>1, <3>2
  <2> QED
    BY <1>3, <1>4, <2>1, <2>3, <2>5, QuietGraphKeeps
<1>6. CASE slot = "late"
  <2>1. /\ work' \in [Sources -> [Slots -> GraphTasks]]
        /\ work'[s].owner = own /\ work'[s].late = next
        /\ \A t \in Sources \ {s} : work'[t] = work[t]
    BY <1>1, <1>2, <1>6, GraphSetTaskIs
  <2>2. late # Idle /\ next.at = late.at
    BY <1>2, <1>6
  <2> HIDE DEF own, late
  <2>3. GraphPlaced(Log(s), ConsumedAt(s), cursor[s], own, next)
    BY <1>1, <1>2, <2>2 DEF GraphPlaced
  <2> QED
    BY <1>1, <1>3, <1>4, <2>1, <2>3, QuietGraphKeeps
<1> QED
  BY <1>5, <1>6 DEF Slots

-----------------------------------------------------------------------------
(***************************************************************************)
(* A write of a handler.                                                   *)
(***************************************************************************)
\* The content of a document was indexed before its folders.
LEMMA ContentBefore ==
  ASSUME FeedInv, SaidInv, NEW d \in Documents, NEW i \in DOMAIN docEvents[d],
         docEvents[d][i].type = "DOCUMENT_FOLDER_RELATIONS_INDEXED",
         Behind(docEvents[d], ContentTypes, i)
  PROVE  LastOf(docEvents[d], ContentTypes, "DOCUMENT_INDEXED") # {}
<1> DEFINE log == docEvents[d]
<1>1. /\ log \in Seq(DocumentEvents) /\ EventsOfHost(hostDocs[d], docSource[d], log)
      /\ LogEnds(docSource[d], docIndex[d], member[d], log)
  BY DEF FeedInv, LogInv, DocumentLog
<1>2. DOMAIN log \subseteq Nat
  BY <1>1
<1>3. docSource[d].version \in Nat /\ docSource[d].live \in BOOLEAN
  BY DEF FeedInv, ManifestInv, TypeOK, DocumentRow
<1>4. docSource[d].version > 0
  <2>1. log[i].version \in 1..docSource[d].version
    BY <1>1 DEF EventsOfHost, Has
  <2> QED
    BY <1>3, <2>1
<1>5. \E e : Ends(log, ContentTypes, e)
  BY <1>1, <1>3, <1>4 DEF LogEnds
<1>6. PICK m \in DOMAIN log : /\ log[m].type \in ContentTypes
                              /\ \A j \in DOMAIN log : log[j].type \in ContentTypes => j <= m
  BY <1>5 DEF Ends
<1>7. PICK k \in DOMAIN log : /\ k < i /\ log[k].type = "DOCUMENT_INDEXED"
                              /\ \A j \in DOMAIN log : k < j /\ j < i => log[j].type # "DOCUMENT_DELETED"
  BY DEF SaidInv, RelationsFollow
<1>8. k <= m /\ m <= i /\ m # i
  BY <1>6, <1>7 DEF Behind, ContentTypes
<1>9. log[m].type = "DOCUMENT_INDEXED"
  BY <1>2, <1>6, <1>7, <1>8 DEF ContentTypes
<1>10. m \in LastOf(log, ContentTypes, "DOCUMENT_INDEXED")
  BY <1>6, <1>9 DEF LastOf, IsLast
<1> QED
  BY <1>10

\* A folder that was never deleted has its node before its signals.
LEMMA NodeBefore ==
  ASSUME FeedInv, SaidInv, scenario.target = "graph", NEW f \in Folders \ Gone, Told(f),
         NEW i \in DOMAIN folderEvents[f], folderEvents[f][i].type = "FOLDER_SIGNALS_INDEXED",
         Behind(folderEvents[f], SignalTypes, i),
         NEW h, \A j \in DOMAIN folderEvents[f] : j <= h \/ i <= j,
         NEW g, Present(g, f, folderEvents[f], h)
  PROVE  g.folders[f] # NoNode
<1> DEFINE log == folderEvents[f]
<1>1. /\ f \notin untold /\ Quiet(log, Live(f))
      /\ SignalLog(log, Live(f), folderIndex[f].signalInput)
  BY DEF FeedInv, Told
<1>2. DOMAIN log \subseteq Nat
  BY GraphViews, SourcesAreApart DEF Sources
<1>3. \A j \in DOMAIN log : log[j].type \in SignalTypes => j <= i
  BY DEF Behind
<1>4. Live(f)
  <2>1. ASSUME NEW v \in Nat, Ends(log, SignalTypes, FolderDeleted(v)) PROVE FALSE
    <3>1. log[i] = FolderDeleted(v)
      BY <1>2, <1>3, <2>1, EndIsLast DEF SignalTypes
    <3> QED
      BY <3>1 DEF FolderDeleted
  <2>2. ~NoneOf(log, SignalTypes)
    BY DEF NoneOf, SignalTypes
  <2> QED
    BY <1>1, <2>1, <2>2 DEF Quiet
<1>5. PICK m \in DOMAIN log :
        /\ log[m].type = "FOLDER_SIGNALS_INVALIDATED"
        /\ \A j \in DOMAIN log : log[j].type = "FOLDER_SIGNALS_INVALIDATED" => j <= m
  BY <1>1, <1>4 DEF SignalLog, InvalidatedLast
<1>6. m \in LastOf(log, {"FOLDER_SIGNALS_INVALIDATED"}, "FOLDER_SIGNALS_INVALIDATED")
  BY <1>5 DEF LastOf, IsLast
<1>7. m <= i
  BY <1>3, <1>5 DEF SignalTypes
<1>8. Unchanged(log)
  BY <1>1, <1>4 DEF SaidInv, SignalsSaid
<1>9. PICK p \in DOMAIN log :
         /\ p < m /\ log[p].type = "FOLDER_INDEXED"
         /\ \A q \in DOMAIN log : q > p /\ log[q].type = "FOLDER_INDEXED"
                                  => IndexOf(log[q]) = IndexOf(log[p])
  BY <1>6, <1>8 DEF Unchanged
<1>10. p <= h
  BY <1>2, <1>7, <1>9
<1> QED
  BY <1>9, <1>10 DEF Present

\* The source's own facets: n is the graph after the transaction of its i-th event.
LEMMA PartIsWritten ==
  ASSUME FeedInv, SaidInv, scenario.target = "graph", NEW s \in Sources, NEW i \in ConsumedAt(s),
         NEW h \in Nat, NEW h2 \in {h, i}, h <= i, \A j \in ConsumedAt(s) : j <= h \/ i <= j,
         StoreOK(graph, folderEvents, Gone), NEW n, Transacts(graph, n, s, Log(s)[i]),
         GraphPart(graph, s, Log(s), Gone, Excused(s), h)
  PROVE  GraphPart(n, s, Log(s), Gone, Excused(s), h2)
<1> DEFINE log == Log(s)
           e == log[i]
<1>1. /\ ConsumedAt(s) = DOMAIN log /\ DOMAIN log \subseteq Nat /\ i \in DOMAIN log /\ i \in Nat
      /\ log \in Seq(DocumentEvents \cup FolderEvents)
      /\ EventFor(s, e)
      /\ s \in Documents => log = docEvents[s] /\ s \notin Folders
      /\ s \in Folders => log = folderEvents[s] /\ log \in Seq(FolderEvents)
  BY GraphViews, SourcesAreApart
<1>2. GraphShape(graph) /\ Rooted(graph) /\ \A f \in Folders : Sourced2(graph, f, folderEvents[f], Gone)
  BY DEF StoreOK
<1>3. \A f \in Folders : graph.folders[f].state = "deleted" => f \in Gone
  BY <1>2 DEF Sourced2
<1>4. e.type = "FOLDER_DELETED" => s \in Folders /\ s \in Gone
  <2>1. e.type = "FOLDER_DELETED" => s \in Folders
    BY <1>1 DEF EventFor, DocumentEvents, Sources
  <2> QED
    BY <1>1, <2>1 DEF Gone, EverDeleted
<1>5. \A types : Behind(log, types, h2) => Behind(log, types, i)
  BY <1>1 DEF Behind
<1>6. ASSUME NEW k \in FacetsOf(s) \ Excused(s), Behind(log, TypesOf[k], h2)
      PROVE  Held(n, s, k, log, Gone)
  <2>1. Behind(log, TypesOf[k], i)
    BY <1>5, <1>6
  <2>2. CASE e.type \in TypesOf[k]
    <3>1. IsLast(log, TypesOf[k], i)
      BY <2>1, <2>2 DEF IsLast, Behind
    <3>2. ASSUME k = "signals"
          PROVE  /\ log \in Seq(FolderEvents) /\ Sourced2(graph, s, log, Gone) /\ Once(log) /\ Preceded(log)
                 /\ e.type = "FOLDER_DELETED" => s \in Gone
                 /\ e.type = "FOLDER_SIGNALS_INDEXED" => s \in Gone \/ graph.folders[s] # NoNode
      <4>1. s \in Folders /\ log = folderEvents[s] /\ Told(s) /\ TypesOf[k] = SignalTypes
        BY <1>1, <1>6, <3>2 DEF FacetsOf, Excused, TypesOf
      <4>2. Once(log) /\ Preceded(log)
        BY <4>1 DEF FeedInv, Told, SignalLog
      <4>3. s \notin Gone => Present(graph, s, log, h)
        BY <4>1 DEF GraphPart
      <4>4. e.type = "FOLDER_SIGNALS_INDEXED" => s \in Gone \/ graph.folders[s] # NoNode
        <5>1. SUFFICES ASSUME e.type = "FOLDER_SIGNALS_INDEXED", s \notin Gone
                       PROVE  graph.folders[s] # NoNode
          OBVIOUS
        <5> QED
          BY <1>1, <2>1, <4>1, <4>3, <5>1, NodeBefore
      <4> QED
        BY <1>1, <1>2, <1>4, <4>1, <4>2, <4>4
    <3>3. Transacts(graph, n, s, log[i]) /\ k \in FacetsOf(s) /\ i \in DOMAIN log
          /\ log \in Seq(DocumentEvents \cup FolderEvents)
      BY <1>1, <1>6
    <3> HIDE DEF log
    <3> QED
      BY <1>2, <1>3, <3>1, <3>2, <3>3, WritesHold DEF e
  <2>3. CASE e.type \notin TypesOf[k]
    <3>1. Behind(log, TypesOf[k], h)
      <4>1. CASE h2 = h
        BY <1>6, <4>1
      <4>2. CASE h2 = i
        BY <1>1, <2>1, <2>3, BehindBefore
      <4> QED
        BY <4>1, <4>2
    <3>2. Held(graph, s, k, log, Gone)
      BY <1>6, <3>1 DEF GraphPart
    <3>3. e.type = "DOCUMENT_FOLDER_RELATIONS_INDEXED" /\ k = "content" =>
            LastOf(log, ContentTypes, "DOCUMENT_INDEXED") # {}
      <4>1. k = "content" => s \in Documents /\ log = docEvents[s] /\ TypesOf[k] = ContentTypes
        BY <1>1, <1>6 DEF FacetsOf, TypesOf
      <4> QED
        BY <1>1, <2>1, <4>1, ContentBefore
    <3> HIDE DEF log, e
    <3> QED
      BY <1>2, <1>4, <1>6, <2>3, <3>2, <3>3, TransactsKeeps DEF e, log
  <2> QED
    BY <2>2, <2>3
<1>7. ASSUME s \in Folders \ Gone PROVE Present(n, s, log, h2)
  <2>1. NodesStay(graph, n, s)
    BY <1>2, TransactsNodes
  <2>2. Present(graph, s, log, h)
    BY <1>7 DEF GraphPart
  <2>3. e.type = "FOLDER_INDEXED" => n.folders[s] # NoNode
    <3>1. e.type = "FOLDER_INDEXED" => IndexesFolder(graph, n, s, e)
      BY DEF Transacts, IndexesDocument, PutsInFolders, DeletesDocument, IndexesSignals,
             DropsSignals, KeepsCurrentSignals, DeletesFolder, DeletesNothing
    <3>2. IndexesFolder(graph, n, s, e) => n.folders[s] = FolderNode(e)
      <4> HIDE DEF e
      <4>1. SUFFICES ASSUME IndexesFolder(graph, n, s, e) PROVE n.folders[s] = FolderNode(e)
        OBVIOUS
      <4>2. n.folders = WithReferences([graph.folders EXCEPT ![s] = FolderNode(e)], {e.parent})
        BY <4>1 DEF IndexesFolder, GraphIs
      <4> QED
        BY <1>2, <1>7, <4>2, NodesDiffer DEF WithReferences, GraphShape
    <3> QED
      BY <3>1, <3>2, NodesDiffer
  <2>4. ASSUME NEW p \in DOMAIN log, log[p].type = "FOLDER_INDEXED", p <= h2
        PROVE  \/ n.folders[s] # NoNode
               \/ \E q \in DOMAIN log : /\ q > p /\ log[q].type = "FOLDER_INDEXED"
                                        /\ IndexOf(log[q]) # IndexOf(log[p])
    <3>1. p <= h \/ p = i
      BY <1>1, <2>4
    <3>2. CASE p = i
      BY <2>3, <2>4, <3>2
    <3>3. CASE p <= h
      <4>1. \/ graph.folders[s] # NoNode
            \/ \E q \in DOMAIN log : /\ q > p /\ log[q].type = "FOLDER_INDEXED"
                                     /\ IndexOf(log[q]) # IndexOf(log[p])
        BY <2>2, <2>4, <3>3 DEF Present
      <4> QED
        BY <1>7, <2>1, <4>1 DEF NodesStay
    <3> QED
      BY <3>1, <3>2, <3>3
  <2> HIDE DEF log
  <2> QED
    BY <2>4 DEF Present
<1> HIDE DEF log
<1> QED
  BY <1>6, <1>7 DEF GraphPart, log

\* The store as a whole, and the parts of the other sources.
LEMMA StoreIsWritten ==
  ASSUME FeedInv, scenario.target = "graph", NEW s \in Sources, NEW i \in ConsumedAt(s),
         StoreOK(graph, folderEvents, Gone), NEW n, Transacts(graph, n, s, Log(s)[i])
  PROVE  /\ StoreOK(n, folderEvents, Gone)
         /\ Log(s)[i].type = "FOLDER_DELETED" => s \in Gone
<1> DEFINE e == Log(s)[i]
<1>1. /\ i \in DOMAIN Log(s) /\ EventFor(s, e)
      /\ s \in Folders => Log(s) = folderEvents[s]
  BY GraphViews
<1>2. GraphShape(graph) /\ Rooted(graph) /\ \A f \in Folders : Sourced2(graph, f, folderEvents[f], Gone)
  BY DEF StoreOK
<1>3. e.type = "FOLDER_DELETED" => s \in Gone
  <2>1. e.type = "FOLDER_DELETED" => s \in Folders
    BY <1>1 DEF EventFor, DocumentEvents, Sources
  <2> QED
    BY <1>1, <2>1 DEF Gone, EverDeleted
<1>4. ASSUME NEW f \in Folders PROVE Sourced2(n, f, folderEvents[f], Gone)
  <2>1. f = s => (\E j \in DOMAIN folderEvents[f] : folderEvents[f][j] = e)
                 /\ (e.type = "FOLDER_DELETED" => s \in Gone)
    BY <1>1, <1>3
  <2>2. Sourced2(graph, f, folderEvents[f], Gone)
    BY <1>2
  <2> HIDE DEF e
  <2> QED
    BY <1>2, <2>1, <2>2, TransactsSourced DEF e
<1>5. GraphShape(n) /\ Rooted(n)
  BY <1>2, TransactsShape, TransactsRooted
<1> QED
  BY <1>3, <1>4, <1>5 DEF StoreOK

LEMMA OthersAreKept ==
  ASSUME NEW g, GraphShape(g), NEW n, NEW s, NEW e, Transacts(g, n, s, e), NEW gone,
         e.type = "FOLDER_DELETED" => s \in gone, NEW t, t # s, NEW log, NEW excused, NEW h,
         GraphPart(g, t, log, gone, excused, h)
  PROVE  GraphPart(n, t, log, gone, excused, h)
<1>1. NodesStay(g, n, s)
  BY TransactsNodes
<1>2. ASSUME NEW k \in FacetsOf(t) \ excused, Behind(log, TypesOf[k], h)
      PROVE  Held(n, t, k, log, gone)
  <2>1. Held(g, t, k, log, gone)
    BY <1>2 DEF GraphPart
  <2> QED
    BY <1>2, <2>1, TransactsKeeps
<1>3. ASSUME t \in Folders \ gone PROVE Present(n, t, log, h)
  BY <1>1, <1>3 DEF GraphPart, Present, NodesStay
<1> QED
  BY <1>2, <1>3 DEF GraphPart

\* What the write leaves of a task, and what it does to the graph.
LEMMA WrittenIs ==
  ASSUME GraphInv, scenario.target = "graph", NEW s \in Sources, NEW slot \in Slots, Write(s, slot),
         NEW task, task = work[s][slot]
  PROVE  /\ \E next \in GraphTasks :
              /\ SetTask(s, slot, next) /\ next # Idle
              /\ next.at = task.at /\ next.replay = task.replay /\ next.todo = << >>
              /\ GraphTaskOK(Log(s), ConsumedAt(s), next)
         /\ task # Idle /\ task.todo # << >> /\ task.at \in ConsumedAt(s)
         /\ Transacts(graph, graph', s, Log(s)[task.at])
         /\ UNCHANGED <<vars, scenario, cursor, untold>>
         /\ \A t \in Sources \ {s} : t \in disturbed' <=> t \in disturbed
         /\ s \notin disturbed' =>
              /\ s \notin disturbed /\ InOrder(s, slot)
              /\ ~(slot = "late" /\ OwnerHasWritten(s, GraphWrites(Log(s)[task.at])))
<1> DEFINE e == Log(s)[task.at]
           next == [task EXCEPT !.todo = Tail(@)]
<1>1. /\ FeedInv /\ GraphShapes /\ StoreOK(graph, folderEvents, Gone)
      /\ GraphPlaced(Log(s), ConsumedAt(s), cursor[s], work[s].owner, work[s].late)
      /\ ConsumedAt(s) \subseteq DOMAIN Log(s) /\ DOMAIN Log(s) \subseteq Nat \ {0}
      /\ \A i \in DOMAIN Log(s) : Log(s)[i].type \in GraphEvents /\ EventFor(s, Log(s)[i])
  BY GraphSourceIs, GraphViews DEF GraphInv
<1>2. /\ task # Idle /\ task.todo # << >> /\ SetTask(s, slot, next)
      /\ GraphWrite(s, e, Head(task.todo))
      /\ disturbed' = IF Disturbs(s, slot) THEN disturbed \cup {s}
                      ELSE IF Heals(s, slot) THEN disturbed \ {s} ELSE disturbed
      /\ UNCHANGED <<vars, scenario, cursor, untold>>
  BY DEF Write, Step, EventOf
<1>3. task \in GraphTasks /\ GraphTaskOK(Log(s), ConsumedAt(s), task)
  BY <1>1, <1>2, GraphWorkIs DEF Slots, GraphPlaced
<1>4. task.at \in ConsumedAt(s) /\ e.type \in GraphEvents /\ EventFor(s, e)
  BY <1>1, <1>3 DEF GraphTaskOK
<1>5. Head(task.todo) # "check"
  BY <1>2 DEF GraphWrite
<1>6. /\ Tail(task.todo) = << >> /\ (e.type \in Deletions \/ task.current)
      /\ graph' = After(graph, s, e)
  <2>1. e = Log(s)[task.at]
    OBVIOUS
  <2> HIDE DEF e
  <2> DEFINE log == Log(s)
             C == ConsumedAt(s)
  <2>2. GraphTaskOK(log, C, task) /\ e = log[task.at]
    BY <1>3, <2>1
  <2> HIDE DEF log, C
  <2>3. /\ Tail(task.todo) = << >> /\ (e.type \in Deletions \/ task.current)
        /\ Head(task.todo) = IF e.type \in Deletions \cup {"FOLDER_SIGNALS_INVALIDATED"}
                             THEN "delete" ELSE "replace"
    BY <1>2, <1>4, <1>5, <2>2, GraphTasksGoOn
  <2>4. graph' = After(graph, s, e)
    BY <1>2, <2>3 DEF GraphWrite, After
  <2> QED
    BY <2>3, <2>4
<1>7. /\ next \in GraphTasks /\ next.at = task.at /\ next.replay = task.replay /\ next.todo = << >>
  <2>1. << >> \in GraphTodos
    BY GraphTasksAre
  <2> QED
    BY <1>3, <1>6, <2>1 DEF GraphTasks
<1>8. next # Idle
  <2>1. next.at # 0
    BY <1>1, <1>4, <1>7
  <2> HIDE DEF next
  <2> QED
    BY <2>1, GraphTasksAre
<1>9. GraphTaskOK(Log(s), ConsumedAt(s), next)
  <2> HIDE DEF next
  <2> QED
    BY <1>4, <1>7 DEF GraphTaskOK
<1>10. Transacts(graph, graph', s, e)
  BY <1>1, <1>4, <1>6, AfterIs DEF StoreOK
<1>11. ~Heals(s, slot)
  BY DEF Heals, Rewrites
<1>12. s \notin disturbed' =>
         /\ s \notin disturbed /\ InOrder(s, slot)
         /\ ~(slot = "late" /\ OwnerHasWritten(s, GraphWrites(e)))
  <2>1. Writes(e) = GraphWrites(e)
    BY <1>4, GraphStepsAre
  <2>2. e = EventOf(s, slot)
    BY DEF EventOf
  <2> HIDE DEF e
  <2> QED
    BY <1>2, <1>6, <1>11, <2>1, <2>2 DEF Disturbs
<1>13. \A t \in Sources \ {s} : t \in disturbed' <=> t \in disturbed
  BY <1>2
<1> HIDE DEF next
<1> QED
  BY <1>2, <1>4, <1>7, <1>8, <1>9, <1>10, <1>12, <1>13

\* A write of the owner, in order: what it has reached is this event.
LEMMA OwnerInOrder ==
  ASSUME NEW log, NEW C, C \subseteq Nat \ {0}, NEW c \in Nat, NEW own, NEW late,
         GraphPlaced(log, C, c, own, late), own # Idle, own.todo # << >>, own.replay \in BOOLEAN,
         ~\E j \in C : own.at < j /\ j <= c,
         NEW next, next # Idle, next.replay = own.replay, next.at = own.at, next.todo = << >>
  PROVE  /\ own.at \in C /\ Reached(c, own) = c /\ c <= own.at
         /\ Reached(c, next) \in {c, own.at} /\ \A j \in C : j <= c \/ own.at <= j
<1>1. own.at \in C /\ c \in C \cup {0}
  BY DEF GraphPlaced, GraphTaskOK
<1>2. Reached(c, own) = c /\ Reached(c, next) \in {c, own.at}
  BY DEF Reached
<1>3. CASE own.replay
  <2>1. own.at <= c /\ own.at \in Nat \ {0}
    BY <1>1, <1>3 DEF GraphPlaced
  <2>2. c \in C
    BY <1>1, <2>1
  <2>3. own.at = c
    BY <2>1, <2>2
  <2>4. c <= own.at /\ \A j \in C : j <= c \/ own.at <= j
    BY <2>3
  <2> QED
    BY <1>1, <1>2, <2>4
<1>4. CASE ~own.replay
  <2>1. c < own.at /\ \A j \in C : j <= c \/ own.at <= j
    BY <1>4 DEF GraphPlaced
  <2>2. own.at \in Nat
    BY <1>1
  <2>3. c <= own.at
    BY <2>1, <2>2
  <2> QED
    BY <1>1, <1>2, <2>1, <2>3
<1> QED
  BY <1>3, <1>4

\* A write of a worker that lost the partition, in order and before the owner's.
LEMMA LateInOrder ==
  ASSUME NEW log, NEW C, C \subseteq Nat \ {0}, NEW c \in Nat, NEW own, NEW late,
         GraphPlaced(log, C, c, own, late), late # Idle, own.replay \in BOOLEAN, Idle.at = 0,
         ~\E j \in C : late.at < j /\ j <= c,
         own.at = late.at => own.todo # << >>, own.at # late.at => ~(late.at <= c)
  PROVE  /\ late.at \in C /\ Reached(c, own) = c /\ c <= late.at
         /\ \A j \in C : j <= c \/ late.at <= j
<1>1. late.at \in C /\ c \in C \cup {0}
  BY DEF GraphPlaced, GraphTaskOK
<1>2. own # Idle /\ own.at = late.at
  BY <1>1 DEF GraphPlaced
<1>3. Reached(c, own) = c
  BY <1>2 DEF Reached
<1>4. CASE own.replay
  <2>1. late.at <= c /\ late.at \in Nat \ {0}
    BY <1>1, <1>2, <1>4 DEF GraphPlaced
  <2>2. c \in C
    BY <1>1, <2>1
  <2>3. late.at = c
    BY <2>1, <2>2
  <2>4. c <= late.at /\ \A j \in C : j <= c \/ late.at <= j
    BY <2>3
  <2> QED
    BY <1>1, <1>3, <2>4
<1>5. CASE ~own.replay
  <2>1. c < late.at /\ \A j \in C : j <= c \/ late.at <= j
    BY <1>2, <1>5 DEF GraphPlaced
  <2>2. late.at \in Nat
    BY <1>1
  <2>3. c <= late.at
    BY <2>1, <2>2
  <2> QED
    BY <1>1, <1>3, <2>1, <2>3
<1> QED
  BY <1>4, <1>5

LEMMA WriteKeepsGraph ==
  ASSUME GraphInv, scenario.target = "graph", NEW s \in Sources, NEW slot \in Slots, Write(s, slot)
  PROVE  GraphInv'
<1> DEFINE own == work[s].owner
           late == work[s].late
           task == work[s][slot]
           i == task.at
           e == Log(s)[i]
<1>1. /\ FeedInv /\ SaidInv /\ GraphShapes /\ ConsumedAt(s) \subseteq Nat \ {0} /\ cursor[s] \in Nat
      /\ GraphPlaced(Log(s), ConsumedAt(s), cursor[s], own, late)
      /\ s \notin disturbed => GraphPart(graph, s, Log(s), Gone, Excused(s), Reached(cursor[s], own))
      /\ StoreOK(graph, folderEvents, Gone) /\ own.replay \in BOOLEAN /\ Idle.at = 0
      /\ \A j \in DOMAIN Log(s) : Log(s)[j].type \in GraphEvents
      /\ ConsumedAt(s) \subseteq DOMAIN Log(s)
  BY GraphSourceIs, GraphWorkIs, GraphTasksAre DEF PartOf, GraphInv
<1>2. PICK next \in GraphTasks :
        /\ SetTask(s, slot, next) /\ next # Idle
        /\ next.at = task.at /\ next.replay = task.replay /\ next.todo = << >>
        /\ GraphTaskOK(Log(s), ConsumedAt(s), next)
  BY WrittenIs
<1>3. /\ task # Idle /\ task.todo # << >> /\ i \in ConsumedAt(s)
      /\ Transacts(graph, graph', s, e)
      /\ UNCHANGED <<vars, scenario, cursor, untold>>
      /\ \A t \in Sources \ {s} : t \in disturbed' <=> t \in disturbed
      /\ s \notin disturbed' =>
           /\ s \notin disturbed /\ InOrder(s, slot)
           /\ ~(slot = "late" /\ OwnerHasWritten(s, GraphWrites(e)))
  BY WrittenIs
<1> HIDE DEF e
<1>4. StoreOK(graph', folderEvents, Gone) /\ (e.type = "FOLDER_DELETED" => s \in Gone)
  BY <1>1, <1>3, StoreIsWritten DEF e
<1>5. ASSUME NEW t \in Sources \ {s}, t \notin disturbed PROVE PartOf(graph', t)
  <2>1. PartOf(graph, t)
    BY <1>5 DEF GraphInv, GraphSource, PartOf
  <2> QED
    BY <1>1, <1>3, <1>4, <1>5, <2>1, OthersAreKept DEF PartOf, StoreOK
<1>6. cursor' = cursor /\ cursor' \in [Sources -> Nat]
  BY <1>1, <1>3 DEF GraphShapes
<1>7. CASE slot = "owner"
  <2>1. /\ work' \in [Sources -> [Slots -> GraphTasks]]
        /\ work'[s].owner = next /\ work'[s].late = late
        /\ \A t \in Sources \ {s} : work'[t] = work[t]
    BY <1>1, <1>2, <1>7, GraphSetTaskIs
  <2>2. task = own
    BY <1>7
  <2>3. GraphPlaced(Log(s), ConsumedAt(s), cursor[s], next, late)
    <3> HIDE DEF own, late
    <3> QED
      BY <1>1, <1>2, <1>3, <2>2 DEF GraphPlaced
  <2>4. ASSUME s \notin disturbed'
        PROVE  GraphPart(graph', s, Log(s), Gone, Excused(s), Reached(cursor[s], next))
    <3>1. ~\E j \in ConsumedAt(s) : own.at < j /\ j <= cursor[s]
      BY <1>3, <1>7, <2>4 DEF InOrder
    <3>2. /\ Reached(cursor[s], own) = cursor[s] /\ cursor[s] <= i
          /\ Reached(cursor[s], next) \in {cursor[s], i} /\ \A j \in ConsumedAt(s) : j <= cursor[s] \/ i <= j
      <4>1. own # Idle /\ own.todo # << >> /\ next # Idle /\ next.replay = own.replay
            /\ next.at = own.at /\ next.todo = << >> /\ i = own.at
        BY <1>2, <1>3, <2>2
      <4> DEFINE log == Log(s)
                 C == ConsumedAt(s)
                 c == cursor[s]
      <4>2. /\ GraphPlaced(log, C, c, own, late) /\ C \subseteq Nat \ {0} /\ c \in Nat
            /\ own.replay \in BOOLEAN /\ ~\E j \in C : own.at < j /\ j <= c
        BY <1>1, <3>1
      <4> HIDE DEF own, late, task, i, log, C, c
      <4>3. /\ own.at \in C /\ Reached(c, own) = c /\ c <= own.at
            /\ Reached(c, next) \in {c, own.at} /\ \A j \in C : j <= c \/ own.at <= j
        BY <4>1, <4>2, OwnerInOrder
      <4> QED
        BY <4>1, <4>3 DEF C, c
    <3> HIDE DEF i, own, task
    <3> QED
      BY <1>1, <1>3, <2>4, <3>2, PartIsWritten DEF e
  <2> HIDE DEF own, late, i, task
  <2> QED
    BY <1>3, <1>4, <1>5, <1>6, <2>1, <2>3, <2>4, GraphHandlerKeeps
<1>8. CASE slot = "late"
  <2>1. /\ work' \in [Sources -> [Slots -> GraphTasks]]
        /\ work'[s].owner = own /\ work'[s].late = next
        /\ \A t \in Sources \ {s} : work'[t] = work[t]
    BY <1>1, <1>2, <1>8, GraphSetTaskIs
  <2>2. task = late
    BY <1>8
  <2>3. GraphPlaced(Log(s), ConsumedAt(s), cursor[s], own, next)
    <3> HIDE DEF own, late
    <3> QED
      BY <1>1, <1>2, <1>3, <2>2 DEF GraphPlaced
  <2>4. ASSUME s \notin disturbed'
        PROVE  GraphPart(graph', s, Log(s), Gone, Excused(s), Reached(cursor[s], own))
    <3>1. ~\E j \in ConsumedAt(s) : late.at < j /\ j <= cursor[s]
      BY <1>3, <1>8, <2>4 DEF InOrder
    <3>2. /\ own.at = late.at => ~(Len(own.todo) < Len(GraphWrites(e)))
          /\ own.at # late.at => ~(late.at <= cursor[s])
      BY <1>3, <1>8, <2>4 DEF OwnerHasWritten
    <3>3. own.at = late.at => own.todo # << >>
      <4>1. own.at = late.at => own # Idle
        BY <1>1, <1>3, <2>2
      <4>2. own # Idle => GraphTaskOK(Log(s), ConsumedAt(s), own)
        BY <1>1 DEF GraphPlaced
      <4>3. own.at = late.at => e = Log(s)[own.at] /\ e.type \in GraphEvents
        BY <1>1, <1>3, <2>2 DEF e
      <4> HIDE DEF own, late
      <4> QED
        BY <3>2, <4>1, <4>2, <4>3, GraphTasksGoOn
    <3>4. /\ Reached(cursor[s], own) = cursor[s] /\ cursor[s] <= i
          /\ \A j \in ConsumedAt(s) : j <= cursor[s] \/ i <= j
      <4>1. late # Idle /\ i = late.at
        BY <1>3, <2>2
      <4> HIDE DEF own, late, i, task
      <4> QED
        BY <1>1, <3>1, <3>2, <3>3, <4>1, LateInOrder
    <3>5. cursor[s] \in {cursor[s], i}
      OBVIOUS
    <3> HIDE DEF i, own, task, late
    <3> QED
      BY <1>1, <1>3, <2>4, <3>4, <3>5, PartIsWritten DEF e
  <2> HIDE DEF own, late, i, task
  <2> QED
    BY <1>3, <1>4, <1>5, <1>6, <2>1, <2>3, <2>4, GraphHandlerKeeps
<1> QED
  BY <1>7, <1>8 DEF Slots

-----------------------------------------------------------------------------
(***************************************************************************)
(* The write side: what the logs say besides.  First the documents.        *)
(***************************************************************************)
\* An event of these types is new.
NewOf(log, new, types) == \E j \in DOMAIN new \ DOMAIN log : new[j].type \in types

LEMMA NewEventIsThere ==
  ASSUME NEW E, NEW log \in Seq(E), NEW e \in E, ~Has(log, e), NEW types, e.type \in types
  PROVE  NewOf(log, Logged(log, e), types)
<1> DEFINE new == Append(log, e)
           n == Len(log) + 1
<1>1. n \in DOMAIN new /\ n \notin DOMAIN log /\ new[n] = e
  OBVIOUS
<1>2. Logged(log, e) = new
  BY DEF Logged, Has
<1> HIDE DEF new, n
<1> QED
  BY <1>1, <1>2 DEF NewOf

LEMMA RelationsGoOn ==
  ASSUME NEW E, NEW log \in Seq(E), NEW e \in E, RelationsFollow(log),
         e.type = "DOCUMENT_FOLDER_RELATIONS_INDEXED" =>
           \E k \in DOMAIN log : /\ log[k].type = "DOCUMENT_INDEXED"
                                 /\ \A j \in DOMAIN log : log[j].type = "DOCUMENT_DELETED" => j <= k
  PROVE  RelationsFollow(Logged(log, e))
<1> DEFINE new == Append(log, e)
           n == Len(log) + 1
<1>1. /\ n \in Nat /\ n \in DOMAIN new /\ new[n] = e
      /\ \A i \in DOMAIN new : i \in DOMAIN log \/ i = n
      /\ \A i \in DOMAIN log : i \in DOMAIN new /\ new[i] = log[i] /\ i \in Nat /\ i < n
  OBVIOUS
<1>2. Logged(log, e) = log \/ Logged(log, e) = new
  BY DEF Logged
<1> HIDE DEF new, n
<1>3. ASSUME NEW i \in DOMAIN new, new[i].type = "DOCUMENT_FOLDER_RELATIONS_INDEXED"
      PROVE  \E k \in DOMAIN new :
               /\ k < i /\ new[k].type = "DOCUMENT_INDEXED"
               /\ \A j \in DOMAIN new : k < j /\ j < i => new[j].type # "DOCUMENT_DELETED"
  <2>1. CASE i \in DOMAIN log
    <3>1. PICK k \in DOMAIN log :
            /\ k < i /\ log[k].type = "DOCUMENT_INDEXED"
            /\ \A j \in DOMAIN log : k < j /\ j < i => log[j].type # "DOCUMENT_DELETED"
      BY <1>1, <1>3, <2>1 DEF RelationsFollow
    <3>2. \A j \in DOMAIN new : j < i => j \in DOMAIN log /\ new[j] = log[j]
      BY <1>1, <2>1
    <3> QED
      BY <1>1, <3>1, <3>2
  <2>2. CASE i = n
    <3>1. PICK k \in DOMAIN log :
            /\ log[k].type = "DOCUMENT_INDEXED"
            /\ \A j \in DOMAIN log : log[j].type = "DOCUMENT_DELETED" => j <= k
      BY <1>1, <1>3, <2>2
    <3>2. \A j \in DOMAIN new : j < i => j \in DOMAIN log /\ new[j] = log[j]
      BY <1>1, <2>2
    <3>3. \A j \in DOMAIN new : k < j /\ j < i => new[j].type # "DOCUMENT_DELETED"
      BY <1>1, <3>1, <3>2
    <3> QED
      BY <1>1, <2>2, <3>1, <3>3
  <2> QED
    BY <1>1, <2>1, <2>2
<1>4. RelationsFollow(new)
  BY <1>3 DEF RelationsFollow
<1> QED
  BY <1>2, <1>4

\* A request that commits says the folders of its version, or leaves them out.
LEMMA CommitSays ==
  ASSUME FeedInv, SaidInv, NEW d \in Documents, CommitDocument(d)
  PROVE  /\ RelationsFollow(docEvents'[d]) /\ FoldersSaid(d)'
         /\ SnapshotOmitted(d)' \/ NewOf(docEvents[d], docEvents'[d], RelationTypes)
         /\ \A e \in Documents \ {d} : /\ docSource'[e] = docSource[e] /\ member'[e] = member[e]
                                       /\ docEvents'[e] = docEvents[e]
         /\ hostDocs' = hostDocs
<1> DEFINE host == hostDocs[d]
           row == docSource[d]
           log == docEvents[d]
           n == Len(hostDocs[d].edits)
           Goal == /\ RelationsFollow(docEvents'[d]) /\ FoldersSaid(d)'
                   /\ SnapshotOmitted(d)' \/ NewOf(log, docEvents'[d], RelationTypes)
                   /\ \A e \in Documents \ {d} : /\ docSource'[e] = docSource[e]
                                                 /\ member'[e] = member[e]
                                                 /\ docEvents'[e] = docEvents[e]
                   /\ hostDocs' = hostDocs
<1>1. /\ TypeOK /\ log \in Seq(DocumentEvents) /\ row.version \in 0..n /\ n \in Nat
      /\ \A e : Has(log, e) => e.version \in 1..row.version
      /\ \A e : Has(log, e) /\ e.type = "DOCUMENT_DELETED" /\ e.version = row.version => ~row.live
      /\ host.edits \in Seq(DocumentEdit)
      /\ docEvents = [e \in Documents |-> docEvents[e]]
      /\ RelationsFollow(log)
  <2>1. TypeOK /\ DocumentLog(host, row, docIndex[d], member[d], log)
    BY DEF FeedInv, LogInv, VersionInv
  <2>2. host.edits \in Seq(DocumentEdit)
    BY <2>1 DEF TypeOK, Host
  <2>3. docEvents = [e \in Documents |-> docEvents[e]] /\ RelationsFollow(log)
    BY DEF FeedInv, LogInv, SaidInv
  <2> QED
    BY <2>1, <2>2, <2>3 DEF DocumentLog, RowOfHost, EventsOfHost
<1>2. ASSUME ~host.deleted PROVE n > row.version
  <2>1. row.version # n
    BY <1>2 DEF CommitDocument, NewestCommitted
  <2> QED
    BY <1>1, <2>1
<1>3. ASSUME NEW x \in Extractions, n > 0, IndexDocument(d, n, x)
      PROVE  Goal
  <2> DEFINE edit == host.edits[n]
             event == DocumentIndexed(n, edit.content, x)
             once == Logged(log, event)
             rel == RelationsIndexed(n, edit.folders)
             twice == Logged(once, rel)
  <2>1. edit \in DocumentEdit
    BY <1>1, <1>3
  <2>2. edit.content \in Contents /\ edit.folders \in SUBSET Folders /\ edit.snapshot \in BOOLEAN
    BY <2>1 DEF DocumentEdit
  <2>3. event \in DocumentEvents /\ event.type = "DOCUMENT_INDEXED" /\ event.version = n
        /\ rel \in DocumentEvents /\ rel.version = n
        /\ rel.type = "DOCUMENT_FOLDER_RELATIONS_INDEXED"
    BY <1>1, <2>2, EventTypes
  <2>4. n > row.version
    BY <1>2, <1>3, FeedAssumption DEF IndexDocument, MayIndex
  <2>5. ~Has(log, event) /\ ~Has(log, rel)
    BY <1>1, <2>3, <2>4
  <2>6. docEvents' = [docEvents EXCEPT ![d] = IF edit.snapshot THEN twice ELSE once]
    BY <1>3 DEF IndexDocument
  <2>7. /\ docSource' = [docSource EXCEPT ![d] =
             [version |-> n, updatedAt |-> edit.updatedAt, content |-> edit.content, live |-> TRUE]]
        /\ member' = IF edit.snapshot THEN [member EXCEPT ![d] = edit.folders] ELSE member
        /\ hostDocs' = hostDocs
    BY <1>3 DEF IndexDocument, hostVars
  <2>8. /\ docSource'[d].version = n /\ docSource'[d].live = TRUE
        /\ edit.snapshot => member'[d] = edit.folders
        /\ \A e \in Documents \ {d} : docSource'[e] = docSource[e] /\ member'[e] = member[e]
    BY <1>1, <2>7 DEF TypeOK
  <2>9. docEvents'[d] = (IF edit.snapshot THEN twice ELSE once)
        /\ \A e \in Documents \ {d} : docEvents'[e] = docEvents[e]
    BY <1>1, <2>6
  <2>10. SnapshotOmitted(d)' <=> ~edit.snapshot
    BY <2>7, <2>8 DEF SnapshotOmitted
  <2> HIDE DEF log, event, edit, rel, n
  <2>11. /\ once \in Seq(DocumentEvents) /\ RelationsFollow(once)
         /\ Ends(once, ContentTypes, event) /\ ~Has(once, rel) /\ Grows(log, once)
    <3>1. once \in Seq(DocumentEvents) /\ Grows(log, once)
      BY <1>1, <2>3, LoggedGrows
    <3>2. RelationsFollow(once)
      BY <1>1, <2>3, RelationsGoOn
    <3>3. Ends(once, ContentTypes, event)
      <4>1. event.type \in ContentTypes
        BY <2>3 DEF ContentTypes
      <4> QED
        BY <1>1, <2>3, <2>5, <4>1, NewEventEnds
    <3>4. ~Has(once, rel)
      <4>1. rel # event
        BY <2>3
      <4> QED
        BY <1>1, <2>3, <2>5, <4>1, LoggedIsThere
    <3> QED
      BY <3>1, <3>2, <3>3, <3>4
  <2> HIDE DEF once
  <2>12. rel.type \in RelationTypes
    BY <2>3 DEF RelationTypes
  <2>13. RelationsFollow(twice)
    <3>1. PICK k \in DOMAIN once : /\ once[k] = event
                                   /\ \A j \in DOMAIN once : once[j].type \in ContentTypes => j <= k
      BY <2>11 DEF Ends
    <3>2. \A j \in DOMAIN once : once[j].type = "DOCUMENT_DELETED" => j <= k
      BY <3>1 DEF ContentTypes
    <3> QED
      BY <2>3, <2>11, <3>1, <3>2, RelationsGoOn
  <2>14. Ends(twice, RelationTypes, rel)
    BY <2>3, <2>11, <2>12, NewEventEnds
  <2>15. NewOf(log, twice, RelationTypes)
    <3>1. NewOf(once, twice, RelationTypes)
      BY <2>3, <2>11, <2>12, NewEventIsThere
    <3> QED
      BY <2>11, <3>1 DEF NewOf, Grows
  <2>16. FoldersSaid(d)'
    <3>1. CASE ~edit.snapshot
      BY <2>10, <3>1 DEF FoldersSaid
    <3>2. CASE edit.snapshot
      <4>1. docEvents'[d] = twice
        BY <2>9, <3>2
      <4>2. rel = RelationsIndexed(docSource'[d].version, member'[d])
        BY <2>8, <3>2 DEF rel
      <4> QED
        BY <2>14, <4>1, <4>2 DEF FoldersSaid
    <3> QED
      BY <3>1, <3>2
  <2>17. RelationsFollow(docEvents'[d])
    BY <2>9, <2>11, <2>13
  <2>18. SnapshotOmitted(d)' \/ NewOf(log, docEvents'[d], RelationTypes)
    <3>1. CASE ~edit.snapshot
      BY <2>10, <3>1
    <3>2. CASE edit.snapshot
      BY <2>9, <2>15, <3>2
    <3> QED
      BY <3>1, <3>2
  <2> QED
    BY <2>7, <2>8, <2>9, <2>16, <2>17, <2>18
<1>4. ASSUME NEW r, r.version \in Nat, Retract(d, r), [r EXCEPT !.live = FALSE].live = FALSE,
             ~Has(log, DocumentDeleted(r.version))
      PROVE  Goal
  <2> DEFINE event == DocumentDeleted(r.version)
  <2>1. /\ docSource' = [docSource EXCEPT ![d] = [r EXCEPT !.live = FALSE]]
        /\ member' = [member EXCEPT ![d] = {}]
        /\ docEvents' = [docEvents EXCEPT ![d] = Logged(@, event)]
        /\ hostDocs' = hostDocs
    BY <1>4 DEF Retract, hostVars
  <2>2. /\ docSource'[d].live = FALSE /\ docEvents'[d] = Logged(log, event)
        /\ \A e \in Documents \ {d} : /\ docSource'[e] = docSource[e] /\ member'[e] = member[e]
                                      /\ docEvents'[e] = docEvents[e]
    BY <1>1, <1>4, <2>1 DEF TypeOK
  <2>3. event \in DocumentEvents /\ event.type = "DOCUMENT_DELETED"
    BY <1>4, EventTypes
  <2>4. event.type \in RelationTypes /\ event.type # "DOCUMENT_FOLDER_RELATIONS_INDEXED"
    BY <2>3 DEF RelationTypes
  <2>5. ~Has(log, event)
    BY <1>4
  <2> HIDE DEF log, event
  <2>6. RelationsFollow(docEvents'[d])
    BY <1>1, <2>2, <2>3, <2>4, RelationsGoOn
  <2>7. NewOf(log, docEvents'[d], RelationTypes)
    BY <1>1, <2>2, <2>3, <2>4, <2>5, NewEventIsThere
  <2>8. FoldersSaid(d)'
    BY <2>2 DEF FoldersSaid
  <2> QED
    BY <2>1, <2>2, <2>6, <2>7, <2>8
<1>5. ASSUME n > 0, IndexBlankDocument(d, n)
      PROVE  \E r : /\ r.version \in Nat /\ Retract(d, r) /\ [r EXCEPT !.live = FALSE].live = FALSE
                    /\ ~Has(log, DocumentDeleted(r.version))
  <2>1. n > row.version
    BY <1>2, <1>5, FeedAssumption DEF IndexBlankDocument, MayIndex
  <2>2. ~Has(log, DocumentDeleted(n))
    BY <1>1, <2>1, EventTypes
  <2>3. PICK r : r.version = n /\ Retract(d, r) /\ [r EXCEPT !.live = FALSE].live = FALSE
    BY <1>5 DEF IndexBlankDocument
  <2> QED
    BY <1>1, <2>2, <2>3
<1>6. ASSUME DeleteDocument(d)
      PROVE  \E r : /\ r.version \in Nat /\ Retract(d, r) /\ [r EXCEPT !.live = FALSE].live = FALSE
                    /\ ~Has(log, DocumentDeleted(r.version))
  <2>1. row.live /\ Retract(d, row) /\ row \in DocumentRow
    BY <1>1, <1>6 DEF DeleteDocument, TypeOK
  <2>2. row.version \in Nat /\ [row EXCEPT !.live = FALSE].live = FALSE
    BY <2>1 DEF DocumentRow
  <2>3. ~Has(log, DocumentDeleted(row.version))
    BY <1>1, <2>1, <2>2, EventTypes
  <2> QED
    BY <2>1, <2>2, <2>3
<1>7. \/ \E x \in Extractions : n > 0 /\ IndexDocument(d, n, x)
      \/ n > 0 /\ IndexBlankDocument(d, n)
      \/ DeleteDocument(d)
  BY DEF CommitDocument
<1> HIDE DEF log, n, Goal
<1>8. Goal
  BY <1>3, <1>4, <1>5, <1>6, <1>7
<1> QED
  BY <1>8 DEF log, Goal

\* The host keeps what it published.
LEMMA HostKeepsEdits ==
  ASSUME TypeOK, HostStep, NEW d \in Documents, NEW v \in DOMAIN hostDocs[d].edits
  PROVE  hostDocs'[d].edits[v] = hostDocs[d].edits[v]
<1>1. /\ hostDocs = [e \in Documents |-> hostDocs[e]]
      /\ \A e \in Documents : hostDocs[e].edits \in Seq(DocumentEdit)
                              /\ hostDocs[e] \in Host(DocumentEdit)
  BY DEF TypeOK, Host
<1>2. ASSUME NEW e \in Documents, NEW edit, edit \in DocumentEdit, PublishDocument(e, edit)
      PROVE  hostDocs'[d].edits[v] = hostDocs[d].edits[v]
  <2>1. hostDocs' = [hostDocs EXCEPT ![e] = Published(hostDocs[e], edit)]
    BY <1>2 DEF PublishDocument
  <2>2. Published(hostDocs[e], edit).edits = Append(hostDocs[e].edits, edit)
    BY <1>1 DEF Published, Host
  <2>3. CASE d # e
    BY <1>1, <2>1, <2>3
  <2>4. CASE d = e
    <3>1. hostDocs'[d].edits = Append(hostDocs[d].edits, edit)
      BY <1>1, <2>1, <2>2, <2>4
    <3>2. Append(hostDocs[d].edits, edit)[v] = hostDocs[d].edits[v]
      BY <1>1, <1>2
    <3> QED
      BY <3>1, <3>2
  <2> QED
    BY <2>3, <2>4
<1>3. ASSUME hostDocs' = hostDocs \/ \E e \in Documents : \/ hostDocs' = [hostDocs EXCEPT ![e] = Deleted(@)]
                                                          \/ hostDocs' = [hostDocs EXCEPT ![e] = Restored(@)]
      PROVE  hostDocs'[d].edits[v] = hostDocs[d].edits[v]
  <2>1. \A e \in Documents : /\ Deleted(hostDocs[e]).edits = hostDocs[e].edits
                             /\ Restored(hostDocs[e]).edits = hostDocs[e].edits
    BY <1>1 DEF Deleted, Restored, Host
  <2> QED
    BY <1>1, <1>3, <2>1
<1>4. CASE HostDeletes \/ HostRestores
  BY <1>3, <1>4 DEF HostDeletes, HostRestores
<1>5. ASSUME NEW f \in Folders, NEW edit, PublishFolder(f, edit)
      PROVE  hostDocs'[d].edits[v] = hostDocs[d].edits[v]
  BY <1>3, <1>5 DEF PublishFolder
<1>6. ASSUME NEW e \in Documents, NEW c \in Contents, NEW F \in SUBSET Folders, NEW given \in BOOLEAN,
             NEW t \in NextUpdatedAt(hostDocs[e].edits)
      PROVE  [content |-> c, snapshot |-> given, folders |-> F, updatedAt |-> t] \in DocumentEdit
  <2>1. t \in Nat
    <3>1. \A edit \in DocumentEdit : edit.updatedAt \in Nat
      BY DEF DocumentEdit
    <3> QED
      BY <1>1, <1>6, <3>1, UpdatedAtTypes
  <2> QED
    BY <2>1 DEF DocumentEdit
<1> QED
  BY <1>2, <1>4, <1>5, <1>6 DEF HostStep

LEMMA DocumentsSay ==
  ASSUME FeedInv, SaidInv, WriteSide, NEW d \in Documents
  PROVE  /\ RelationsFollow(docEvents'[d]) /\ FoldersSaid(d)'
         /\ SnapshotOmitted(d) =>
              SnapshotOmitted(d)' \/ NewOf(docEvents[d], docEvents'[d], RelationTypes)
<1> DEFINE Goal == /\ RelationsFollow(docEvents'[d]) /\ FoldersSaid(d)'
                   /\ SnapshotOmitted(d) =>
                        SnapshotOmitted(d)' \/ NewOf(docEvents[d], docEvents'[d], RelationTypes)
<1>1. /\ \/ HostStep
         \/ \E e \in Documents : CommitDocument(e)
         \/ \E f \in Folders : FolderStep(f)
         \/ \E f \in Folders : AnnounceFolderSignals(f)
      /\ TypeOK /\ RelationsFollow(docEvents[d]) /\ FoldersSaid(d)
  BY WriteSideIs DEF FeedInv, ManifestInv, SaidInv
<1>2. docSource[d].live => docSource[d].version \in DOMAIN hostDocs[d].edits
  <2>1. RowOfHost(hostDocs[d], docSource[d], member[d]) /\ hostDocs[d].edits \in Seq(DocumentEdit)
        /\ docSource[d].version \in Nat
    BY <1>1 DEF FeedInv, LogInv, DocumentLog, TypeOK, Host, DocumentRow
  <2>2. docSource[d].live => docSource[d].version > 0 /\ docSource[d].version \in 0..Len(hostDocs[d].edits)
    BY <2>1 DEF RowOfHost
  <2> QED
    BY <2>1, <2>2
<1>3. ASSUME docSource'[d] = docSource[d], member'[d] = member[d], docEvents'[d] = docEvents[d],
             \A v \in DOMAIN hostDocs[d].edits : hostDocs'[d].edits[v] = hostDocs[d].edits[v]
      PROVE  Goal
  <2>1. SnapshotOmitted(d)' <=> SnapshotOmitted(d)
    BY <1>2, <1>3 DEF SnapshotOmitted
  <2>2. FoldersSaid(d)'
    BY <1>1, <1>3, <2>1 DEF FoldersSaid
  <2> QED
    BY <1>1, <1>3, <2>1, <2>2
<1>4. CASE HostStep
  <2>1. UNCHANGED <<docSource, member, docEvents>>
    BY <1>4 DEF HostStep, PublishDocument, PublishFolder, HostDeletes, HostRestores, docVars
  <2>2. \A v \in DOMAIN hostDocs[d].edits : hostDocs'[d].edits[v] = hostDocs[d].edits[v]
    BY <1>1, <1>4, HostKeepsEdits
  <2> QED
    BY <1>3, <2>1, <2>2
<1>5. ASSUME NEW e \in Documents, CommitDocument(e) PROVE Goal
  <2>1. CASE e = d
    BY <1>5, <2>1, CommitSays
  <2>2. CASE e # d
    BY <1>3, <1>5, <2>2, CommitSays
  <2> QED
    BY <2>1, <2>2
<1>6. ASSUME NEW f \in Folders, FolderStep(f) \/ AnnounceFolderSignals(f) PROVE Goal
  <2>1. UNCHANGED <<docSource, member, docEvents, hostDocs>>
    BY <1>6 DEF FolderStep, IndexFolder, DeleteFolder, StartFolderSignals, ReplaceFolderSignals,
                AnnounceFolderSignals, docVars, hostVars
  <2> QED
    BY <1>3, <2>1
<1> QED
  BY <1>1, <1>4, <1>5, <1>6

-----------------------------------------------------------------------------
(***************************************************************************)
(* Then the folders.                                                       *)
(***************************************************************************)
LEMMA LiveFolderEnds ==
  ASSUME NEW host, NEW row, NEW log, FolderLog(host, row, log), row.live
  PROVE  Ends(log, FolderTypes, FolderIndexed(row.version, row.parent, row.label))
BY DEF FolderLog, FolderIndexedAs

\* An invalidation that is new is behind the last version of its folder.
LEMMA InvalidatedUnchanged ==
  ASSUME NEW E, NEW log \in Seq(E), NEW e \in E, e.type = "FOLDER_SIGNALS_INVALIDATED",
         NEW x, x.type = "FOLDER_INDEXED", Ends(Append(log, e), FolderTypes, x)
  PROVE  Unchanged(Append(log, e))
<1> DEFINE new == Append(log, e)
           n == Len(log) + 1
<1>1. /\ n \in Nat /\ n \in DOMAIN new /\ new[n] = e
      /\ \A i \in DOMAIN new : i \in Nat /\ i <= n
  OBVIOUS
<1> HIDE DEF new, n
<1>2. PICK p \in DOMAIN new : /\ new[p] = x
                              /\ \A j \in DOMAIN new : new[j].type \in FolderTypes => j <= p
  BY DEF Ends, new
<1>3. p < n
  BY <1>1, <1>2
<1>4. \A m \in LastOf(new, {"FOLDER_SIGNALS_INVALIDATED"}, "FOLDER_SIGNALS_INVALIDATED") : m = n
  BY <1>1 DEF LastOf, IsLast
<1>5. \A q \in DOMAIN new : q > p => new[q].type # "FOLDER_INDEXED"
  BY <1>1, <1>2 DEF FolderTypes
<1> QED
  BY <1>2, <1>3, <1>4, <1>5 DEF Unchanged, new

\* Events of other types, and a version that is as the last one, change nothing.
LEMMA StaysUnchanged ==
  ASSUME NEW E, NEW log \in Seq(E), NEW e \in E, Unchanged(log),
         e.type # "FOLDER_SIGNALS_INVALIDATED",
         e.type = "FOLDER_INDEXED" =>
           \E x : /\ x.type = "FOLDER_INDEXED" /\ Ends(log, FolderTypes, x)
                  /\ IndexOf(e) = IndexOf(x)
  PROVE  Unchanged(Append(log, e))
<1> DEFINE new == Append(log, e)
           n == Len(log) + 1
           types == {"FOLDER_SIGNALS_INVALIDATED"}
<1>1. /\ n \in Nat /\ n \in DOMAIN new /\ new[n] = e
      /\ \A i \in DOMAIN new : i \in DOMAIN log \/ i = n
      /\ \A i \in DOMAIN log : i \in DOMAIN new /\ new[i] = log[i] /\ i \in Nat /\ i < n
  OBVIOUS
<1> HIDE DEF new, n
<1>2. ASSUME NEW m \in LastOf(new, types, "FOLDER_SIGNALS_INVALIDATED")
      PROVE  \E p \in DOMAIN new :
               /\ p < m /\ new[p].type = "FOLDER_INDEXED"
               /\ \A q \in DOMAIN new : q > p /\ new[q].type = "FOLDER_INDEXED"
                                        => IndexOf(new[q]) = IndexOf(new[p])
  <2>1. m \in DOMAIN new /\ new[m].type = "FOLDER_SIGNALS_INVALIDATED"
        /\ \A j \in DOMAIN new : new[j].type \in types => j <= m
    BY DEF LastOf, IsLast
  <2>2. m \in DOMAIN log
    BY <1>1, <2>1
  <2>3. m \in LastOf(log, types, "FOLDER_SIGNALS_INVALIDATED")
    BY <1>1, <2>1, <2>2 DEF LastOf, IsLast
  <2>4. PICK p \in DOMAIN log :
          /\ p < m /\ log[p].type = "FOLDER_INDEXED"
          /\ \A q \in DOMAIN log : q > p /\ log[q].type = "FOLDER_INDEXED"
                                   => IndexOf(log[q]) = IndexOf(log[p])
    BY <2>3 DEF Unchanged
  <2>5. ASSUME e.type = "FOLDER_INDEXED" PROVE IndexOf(e) = IndexOf(log[p])
    <3>1. PICK x : /\ x.type = "FOLDER_INDEXED" /\ Ends(log, FolderTypes, x)
                   /\ IndexOf(e) = IndexOf(x)
      BY <2>5
    <3>2. PICK r \in DOMAIN log : /\ log[r] = x
                                  /\ \A j \in DOMAIN log : log[j].type \in FolderTypes => j <= r
      BY <3>1 DEF Ends
    <3>3. p <= r
      BY <2>4, <3>2 DEF FolderTypes
    <3>4. r \in Nat /\ p \in Nat
      BY <1>1, <2>4, <3>2
    <3>5. IndexOf(log[r]) = IndexOf(log[p])
      <4>1. CASE r = p
        BY <4>1
      <4>2. CASE r > p
        BY <2>4, <3>1, <3>2, <4>2
      <4> QED
        BY <3>3, <3>4, <4>1, <4>2
    <3> QED
      BY <3>1, <3>2, <3>5
  <2>6. \A q \in DOMAIN new : q > p /\ new[q].type = "FOLDER_INDEXED"
                              => IndexOf(new[q]) = IndexOf(new[p])
    BY <1>1, <2>4, <2>5
  <2> QED
    BY <1>1, <2>4, <2>6
<1> QED
  BY <1>2 DEF Unchanged, new

LEMMA SignalsAmong ==
  ASSUME NEW log
  PROVE  (\A i \in DOMAIN log : log[i].type = "FOLDER_SIGNALS_INDEXED" => Among(log[i]))
         <=> \A e : Has(log, e) /\ e.type = "FOLDER_SIGNALS_INDEXED" => Among(e)
BY DEF Has

\* An invalidation that is dropped was logged for the same input, since when the folder is
\* the same.
LEMMA DroppedUnchanged ==
  ASSUME NEW log \in Seq(FolderEvents), NEW base \in Seq(FolderEvents), SameSignals(log, base),
         NEW live \in BOOLEAN, NEW input, NEW input2 \in SignalInputs, SignalLog(log, live, input),
         Quiet(log, live), NoneOf(log, {"FOLDER_DELETED"}),
         Has(base, SignalsInvalidated(input2)), InvalidatedLast(base, input2)
  PROVE  live /\ input = input2
<1>1. SignalsInvalidated(input2).type = "FOLDER_SIGNALS_INVALIDATED"
  BY FolderEventTypes
<1>2. PICK i \in DOMAIN base : base[i] = SignalsInvalidated(input2)
  BY DEF Has
<1>3. i \in DOMAIN log /\ log[i].type = "FOLDER_SIGNALS_INVALIDATED"
  BY <1>1, <1>2 DEF SameSignals, SignalTypes
<1>4. live
  <2>1. SUFFICES ASSUME ~live PROVE FALSE
    OBVIOUS
  <2>2. ~NoneOf(log, SignalTypes)
    BY <1>3 DEF NoneOf, SignalTypes
  <2>3. PICK v \in Nat : Ends(log, SignalTypes, FolderDeleted(v))
    BY <2>1, <2>2 DEF Quiet
  <2>4. FolderDeleted(v).type = "FOLDER_DELETED"
    BY FolderEventTypes
  <2> QED
    BY <2>3, <2>4 DEF Ends, NoneOf
<1>5. InvalidatedLast(base, input)
  BY <1>4, SameSignalsSay DEF SignalLog
<1>6. \A j \in DOMAIN base : j \in Nat
  OBVIOUS
<1> QED
  BY <1>4, <1>5, <1>6 DEF InvalidatedLast

\* What a folder's input says of its row.
LEMMA InputSaysIndex ==
  ASSUME ManifestInv, NEW f \in Folders, Live(f)
  PROVE  folderIndex[f].signalInput.index = [parent |-> folderSource[f].parent, label |-> folderSource[f].label]
<1>1. folderIndex[f].live
  BY DEF ManifestInv, ManifestConsistent
<1>2. folderIndex[f].signalInput = SignalInput(f)
  BY <1>1 DEF ManifestInv, FolderDigestsFresh
<1>3. SignalInput(f).index = IndexInput(f)
  BY DEF SignalInput
<1> QED
  BY <1>2, <1>3 DEF IndexInput

LEMMA InputSaysIndexNext ==
  ASSUME ManifestInv', NEW f \in Folders, Live(f)'
  PROVE  folderIndex'[f].signalInput.index
           = [parent |-> folderSource'[f].parent, label |-> folderSource'[f].label]
<1>1. folderIndex'[f].live
  BY DEF ManifestInv, ManifestConsistent
<1>2. folderIndex'[f].signalInput = SignalInput(f)'
  BY <1>1 DEF ManifestInv, FolderDigestsFresh
<1>3. SignalInput(f)'.index = IndexInput(f)'
  BY DEF SignalInput
<1> QED
  BY <1>2, <1>3 DEF IndexInput

\* The stored signals of a folder are about documents of the input they were built from.
LEMMA StoredAmong ==
  ASSUME FeedInv, SaidInv, WriteSide, NEW f \in Folders, folderSignals'[f] # None
  PROVE  Among(folderSignals'[f])
<1>1. /\ \/ HostStep
         \/ \E d \in Documents : CommitDocument(d)
         \/ \E g \in Folders : FolderStep(g)
         \/ \E g \in Folders : AnnounceFolderSignals(g)
      /\ folderSignals \in [Folders -> SignalRows] /\ signalBuild \in [Folders -> SignalInputs]
  BY WriteSideIs DEF FeedInv, ManifestInv, TypeOK
<1>2. ASSUME folderSignals'[f] \in {None, folderSignals[f]} PROVE Among(folderSignals'[f])
  BY <1>2 DEF SaidInv, SignalsSaid
<1>3. ASSUME NEW F, NEW index, NEW log, Invalidate(F, index, log)
      PROVE  folderSignals'[f] \in {None, folderSignals[f]}
  BY <1>3 DEF Invalidate
<1>4. CASE HostStep
  BY <1>2, <1>4 DEF HostStep, PublishDocument, PublishFolder, HostDeletes, HostRestores, folderVars
<1>5. ASSUME NEW d \in Documents, CommitDocument(d) PROVE Among(folderSignals'[f])
  <2>1. \E F : Invalidate(F, folderIndex, folderEvents)
    BY <1>5 DEF CommitDocument, IndexDocument, IndexBlankDocument, DeleteDocument, Retract
  <2> QED
    BY <1>2, <1>3, <2>1
<1>6. ASSUME NEW g \in Folders, AnnounceFolderSignals(g) PROVE Among(folderSignals'[f])
  BY <1>2, <1>6 DEF AnnounceFolderSignals, folderVars
<1>7. ASSUME NEW g \in Folders, FolderStep(g) PROVE Among(folderSignals'[f])
  <2>1. CASE \E v \in DOMAIN hostFolders[g].edits : IndexFolder(g, v)
    <3>1. \E F, index, log : Invalidate(F, index, log)
      BY <2>1 DEF IndexFolder
    <3> QED
      BY <1>2, <1>3, <3>1
  <2>2. CASE DeleteFolder(g)
    <3>1. \E F, index, log : Invalidate(F, index, log)
      BY <2>2 DEF DeleteFolder
    <3> QED
      BY <1>2, <1>3, <3>1
  <2>3. CASE StartFolderSignals(g)
    BY <1>2, <2>3 DEF StartFolderSignals, folderVars
  <2>4. CASE ReplaceFolderSignals(g)
    <3>1. CASE folderSignals' = folderSignals
      BY <1>2, <3>1
    <3>2. ASSUME NEW related \in SUBSET {m.document : m \in signalBuild[g].members},
                 folderSignals' = [folderSignals EXCEPT ![g] =
                   [input |-> signalBuild[g], related |-> related]]
          PROVE  Among(folderSignals'[f])
      <4>1. CASE f = g
        <5>1. folderSignals'[f] = [input |-> signalBuild[g], related |-> related]
          BY <1>1, <3>2, <4>1
        <5> QED
          BY <3>2, <5>1 DEF Among
      <4>2. CASE f # g
        BY <1>1, <1>2, <3>2, <4>2
      <4> QED
        BY <4>1, <4>2
    <3> QED
      BY <2>4, <3>1, <3>2 DEF ReplaceFolderSignals
  <2> QED
    BY <1>7, <2>1, <2>2, <2>3, <2>4 DEF FolderStep
<1> QED
  BY <1>1, <1>4, <1>5, <1>6, <1>7

LEMMA GoneIs ==
  ASSUME NEW f \in Folders
  PROVE  /\ f \in Gone <=> ~NoneOf(folderEvents[f], {"FOLDER_DELETED"})
         /\ f \in Gone' <=> ~NoneOf(folderEvents'[f], {"FOLDER_DELETED"})
BY DEF Gone, EverDeleted, NoneOf

LEMMA FolderSays ==
  ASSUME FeedInv, SaidInv, WriteSide, FeedInv', LogsGrow, NEW f \in Folders
  PROVE  SignalsSaid(f)'
<1> DEFINE log == folderEvents[f]
           new == folderEvents'[f]
           input == folderIndex[f].signalInput
           input2 == folderIndex'[f].signalInput
           live == Live(f)
           event == SignalsInvalidated(input2)
<1>1. /\ log \in Seq(FolderEvents) /\ Quiet(log, live) /\ live \in BOOLEAN
      /\ input2 \in SignalInputs
      /\ f \notin untold => SignalLog(log, live, input)
      /\ FolderLog(hostFolders[f], folderSource[f], log)
      /\ FolderLog(hostFolders'[f], folderSource'[f], new)
      /\ ManifestInv /\ ManifestInv'
  <2>1. folderIndex'[f] \in FolderIndexRow /\ folderSource[f] \in FolderRow
    BY DEF FeedInv, ManifestInv, TypeOK
  <2>2. /\ FolderLog(hostFolders[f], folderSource[f], log)
        /\ FolderLog(hostFolders'[f], folderSource'[f], new)
    BY DEF FeedInv, LogInv
  <2> QED
    BY <2>1, <2>2 DEF FeedInv, FolderLog, Live, FolderIndexRow, FolderRow
<1>2. /\ Grows(log, new) /\ FolderChange(f)
      /\ f \notin untold' => f \notin untold /\ (Live(f)' => InvalidationLogged(f)')
      /\ f \notin untold /\ live /\ f \notin Gone => Unchanged(log)
      /\ folderSignals[f] # None => Among(folderSignals[f])
      /\ \A e : Has(log, e) /\ e.type = "FOLDER_SIGNALS_INDEXED" => Among(e)
  <2>1. Log(f) = log /\ Log(f)' = new
    BY FeedAssumption DEF Log
  <2>2. Grows(log, new)
    BY <2>1 DEF LogsGrow, Sources
  <2>3. untold' = untold \cup {g \in Folders : Live(g)' /\ ~InvalidationLogged(g)'}
    BY WriteSideIs DEF FeedInv, ManifestInv
  <2>4. SignalsSaid(f)
    BY DEF SaidInv
  <2>5. \A e : Has(log, e) /\ e.type = "FOLDER_SIGNALS_INDEXED" => Among(e)
    BY <2>4, SignalsAmong DEF SignalsSaid
  <2> QED
    BY <2>2, <2>3, <2>4, <2>5, FolderChanges DEF SignalsSaid
<1>3. f \notin untold' /\ Live(f)' => InvalidatedLast(new, input2)
  <2>1. InvalidationLogged(f)' => InvalidatedLast(new, input2)
    BY DEF InvalidationLogged, LastIs, InvalidatedLast
  <2> QED
    BY <1>2, <2>1
<1>4. f \notin Gone' => f \notin Gone /\ NoneOf(log, {"FOLDER_DELETED"})
  BY <1>2, GoneIs DEF Grows, NoneOf
<1>5. event \in FolderEvents /\ event.type = "FOLDER_SIGNALS_INVALIDATED"
  BY <1>1, FolderEventTypes
<1>6. live => /\ Ends(log, FolderTypes, FolderIndexed(folderSource[f].version, folderSource[f].parent,
                                                      folderSource[f].label))
              /\ input.index = [parent |-> folderSource[f].parent, label |-> folderSource[f].label]
  BY <1>1, LiveFolderEnds, InputSaysIndex DEF Live
<1>7. Live(f)' => /\ Ends(new, FolderTypes, FolderIndexed(folderSource'[f].version,
                                             folderSource'[f].parent, folderSource'[f].label))
                  /\ input2.index = [parent |-> folderSource'[f].parent, label |-> folderSource'[f].label]
  <2>1. Live(f)' <=> folderSource'[f].live
    BY DEF Live
  <2> QED
    BY <1>1, <2>1, LiveFolderEnds, InputSaysIndexNext
<1>8. \A v, p, l : /\ FolderIndexed(v, p, l).type = "FOLDER_INDEXED"
                   /\ IndexOf(FolderIndexed(v, p, l)) = [parent |-> p, label |-> l]
  BY DEF FolderIndexed, IndexOf
<1> HIDE DEF log, new, input, input2, live, event
<1>9. ASSUME f \notin untold', Live(f)', f \notin Gone' PROVE Unchanged(new)
  <2>1. /\ f \notin untold /\ InvalidatedLast(new, input2) /\ f \notin Gone
        /\ NoneOf(log, {"FOLDER_DELETED"}) /\ SignalLog(log, live, input)
        /\ live => Unchanged(log)
    BY <1>1, <1>2, <1>3, <1>4, <1>9
  <2>2. CASE new = log /\ Live(f)' = live
    BY <1>9, <2>1, <2>2
  <2>3. ASSUME NEW base \in Seq(FolderEvents),
               \/ base = log
               \/ \E e \in FolderEvents : e.type = "FOLDER_INDEXED" /\ base = Logged(log, e),
               new = Logged(base, event)
        PROVE  Unchanged(new)
    <3>1. SameSignals(log, base)
      <4>1. CASE base = log
        BY <4>1 DEF SameSignals
      <4>2. ASSUME NEW e \in FolderEvents, e.type = "FOLDER_INDEXED", base = Logged(log, e)
            PROVE  SameSignals(log, base)
        <5>1. e.type \notin SignalTypes
          BY <4>2 DEF SignalTypes
        <5> QED
          BY <1>1, <4>2, <5>1, OtherEventSameSignals
      <4> QED
        BY <2>3, <4>1, <4>2
    <3>2. CASE ~Has(base, event)
      <4>1. new = Append(base, event)
        BY <2>3, <3>2 DEF Logged, Has
      <4>2. PICK x : x.type = "FOLDER_INDEXED" /\ Ends(new, FolderTypes, x)
        BY <1>7, <1>8, <1>9
      <4> QED
        BY <1>5, <4>1, <4>2, InvalidatedUnchanged
    <3>3. CASE Has(base, event)
      <4>1. new = base
        BY <2>3, <3>3 DEF Logged, Has
      <4>2. live /\ input = input2
        <5>1. Has(base, SignalsInvalidated(input2)) /\ InvalidatedLast(base, input2)
          BY <2>1, <3>3, <4>1 DEF event
        <5> QED
          BY <1>1, <2>1, <3>1, <5>1, DroppedUnchanged
      <4>3. Unchanged(log)
        BY <2>1, <4>2
      <4>4. CASE base = log
        BY <4>1, <4>3, <4>4
      <4>5. ASSUME NEW e \in FolderEvents, e.type = "FOLDER_INDEXED", base = Logged(log, e), base # log
            PROVE  Unchanged(new)
        <5>1. base = Append(log, e)
          BY <4>5 DEF Logged
        <5>2. PICK y : /\ Ends(new, FolderTypes, y)
                       /\ IndexOf(y) = [parent |-> folderSource'[f].parent,
                                        label |-> folderSource'[f].label]
          BY <1>7, <1>8, <1>9
        <5>3. y = e
          <6> DEFINE n == Len(log) + 1
          <6>1. /\ n \in DOMAIN Append(log, e) /\ Append(log, e)[n] = e
                /\ \A i \in DOMAIN Append(log, e) : i \in Nat /\ i <= n
            BY <1>1
          <6>2. PICK i \in DOMAIN new : new[i] = y /\ \A j \in DOMAIN new : new[j].type \in FolderTypes => j <= i
            BY <5>2 DEF Ends
          <6>3. n \in DOMAIN new /\ new[n] = e /\ e.type \in FolderTypes /\ n \in Nat /\ i \in Nat /\ i <= n
            BY <4>1, <4>5, <5>1, <6>1, <6>2 DEF FolderTypes
          <6> HIDE DEF n
          <6>4. n <= i
            BY <6>2, <6>3
          <6>5. n = i
            BY <6>3, <6>4
          <6> QED
            BY <6>2, <6>3, <6>5
        <5>4. PICK x : /\ x.type = "FOLDER_INDEXED" /\ Ends(log, FolderTypes, x)
                       /\ IndexOf(x) = [parent |-> folderSource[f].parent, label |-> folderSource[f].label]
          BY <1>6, <1>8, <4>2
        <5>5. IndexOf(e) = IndexOf(x)
          BY <1>6, <1>7, <1>9, <4>2, <5>2, <5>3, <5>4
        <5>6. e.type # "FOLDER_SIGNALS_INVALIDATED"
          BY <4>5
        <5> QED
          BY <1>1, <4>1, <4>3, <5>1, <5>4, <5>5, <5>6, StaysUnchanged
      <4> QED
        BY <2>3, <4>4, <4>5
    <3> QED
      BY <3>2, <3>3
  <2>4. ASSUME live, NEW e \in FolderEvents, e.type = "FOLDER_SIGNALS_INDEXED", new = Append(log, e)
        PROVE  Unchanged(new)
    <3>1. e.type # "FOLDER_SIGNALS_INVALIDATED" /\ e.type # "FOLDER_INDEXED"
      BY <2>4
    <3> QED
      BY <1>1, <2>1, <2>4, <3>1, StaysUnchanged
  <2> QED
    BY <1>2, <1>9, <2>2, <2>3, <2>4 DEF FolderChange, log, new, input2, live, event
<1>10. \A e : Has(new, e) /\ e.type = "FOLDER_SIGNALS_INDEXED" => Among(e)
  <2> SUFFICES ASSUME NEW g, Has(new, g), g.type = "FOLDER_SIGNALS_INDEXED" PROVE Among(g)
    OBVIOUS
  <2>1. CASE new = log
    BY <1>2, <2>1
  <2>2. ASSUME NEW base \in Seq(FolderEvents),
               \/ base = log
               \/ \E e \in FolderEvents : e.type = "FOLDER_INDEXED" /\ base = Logged(log, e),
               new = Logged(base, event)
        PROVE  Among(g)
    <3>1. Has(base, g)
      BY <1>5, <2>2, LoggedIsThere
    <3>2. Has(log, g)
      BY <1>1, <2>2, <3>1, LoggedIsThere
    <3> QED
      BY <1>2, <3>2
  <2>3. CASE new = Logged(log, FolderDeleted(folderSource[f].version))
    <3>1. folderSource[f].version \in Nat
      BY DEF FeedInv, ManifestInv, TypeOK, FolderRow
    <3>2. /\ FolderDeleted(folderSource[f].version) \in FolderEvents
          /\ FolderDeleted(folderSource[f].version).type = "FOLDER_DELETED"
      BY <3>1, FolderEventTypes
    <3>3. Has(log, g)
      BY <1>1, <2>3, <3>2, LoggedIsThere
    <3> QED
      BY <1>2, <3>3
  <2>4. ASSUME folderSignals[f] # None, NEW e \in FolderEvents, ~Has(log, e),
               e = FolderSignalsIndexed(folderSignals[f]), new = Append(log, e)
        PROVE  Among(g)
    <3>1. Among(e)
      BY <1>2, <2>4 DEF Among, FolderSignalsIndexed
    <3>2. new = Logged(log, e)
      BY <2>4 DEF Logged, Has
    <3>3. Has(log, g) \/ g = e
      BY <1>1, <3>2, LoggedIsThere
    <3> QED
      BY <1>2, <3>1, <3>3
  <2> QED
    BY <1>2, <2>1, <2>2, <2>3, <2>4 DEF FolderChange, log, new, input2, event
<1>11. \A i \in DOMAIN new : new[i].type = "FOLDER_SIGNALS_INDEXED" => Among(new[i])
  BY <1>10, SignalsAmong
<1>12. folderSignals'[f] # None => Among(folderSignals'[f])
  BY StoredAmong
<1>13. f \notin untold' /\ Live(f)' /\ f \notin Gone' => Unchanged(new)
  BY <1>9
<1> QED
  BY <1>11, <1>12, <1>13 DEF SignalsSaid, Unchanged, Among, LastOf, IsLast, IndexOf, new

LEMMA WriteSideSays ==
  ASSUME FeedInv, SaidInv, WriteSide
  PROVE  SaidInv'
<1>1. FeedInv' /\ LogsGrow
  BY WriteSideKeepsFeed
<1>2. \A f \in Folders : SignalsSaid(f)'
  BY <1>1, FolderSays
<1>3. \A d \in Documents : RelationsFollow(docEvents[d])' /\ FoldersSaid(d)'
  <2>1. ASSUME NEW d \in Documents
        PROVE  RelationsFollow(docEvents[d])' /\ FoldersSaid(d)'
    <3>1. RelationsFollow(docEvents'[d]) /\ FoldersSaid(d)'
      BY DocumentsSay
    <3> QED
      BY <3>1
  <2> QED
    BY <2>1
<1> QED
  BY <1>2, <1>3 DEF SaidInv

LEMMA InitSaid == ProjectionInit => SaidInv
<1> SUFFICES ASSUME ProjectionInit PROVE SaidInv
  OBVIOUS
<1>1. Init
  BY DEF ProjectionInit, FeedInit
<1>2. DOMAIN << >> = {}
  OBVIOUS
<1>3. ASSUME NEW d \in Documents PROVE RelationsFollow(docEvents[d]) /\ FoldersSaid(d)
  <2>1. docEvents[d] = << >> /\ ~docSource[d].live
    BY <1>1 DEF Init
  <2> QED
    BY <1>2, <2>1 DEF RelationsFollow, FoldersSaid
<1>4. ASSUME NEW f \in Folders PROVE SignalsSaid(f)
  <2>1. folderEvents[f] = << >> /\ ~Live(f) /\ folderSignals[f] = None
    BY <1>1 DEF Init, Live
  <2> QED
    BY <1>2, <2>1 DEF SignalsSaid
<1> QED
  BY <1>3, <1>4 DEF SaidInv

-----------------------------------------------------------------------------
(***************************************************************************)
(* What is handled stays handled while the log grows.                      *)
(***************************************************************************)
LEMMA LastOfGrown ==
  ASSUME NEW log, NEW new, Grows(log, new), NEW types, ~NewOf(log, new, types), NEW type
  PROVE  /\ LastOf(new, types, type) = LastOf(log, types, type)
         /\ \A i \in LastOf(log, types, type) : new[i] = log[i]
<1>1. \A i \in DOMAIN log : i \in DOMAIN new /\ new[i] = log[i]
  BY DEF Grows
<1>2. \A j \in DOMAIN new : new[j].type \in types => j \in DOMAIN log
  BY DEF NewOf
<1>3. \A i \in LastOf(log, types, type) : i \in LastOf(new, types, type)
  BY <1>1, <1>2 DEF LastOf, IsLast
<1>4. \A i \in LastOf(new, types, type) : i \in LastOf(log, types, type)
  BY <1>1, <1>2 DEF LastOf, IsLast
<1>5. LastOf(log, types, type) \subseteq DOMAIN log
  BY DEF LastOf
<1> QED
  BY <1>1, <1>3, <1>4, <1>5

LEMMA HeldGrows ==
  ASSUME NEW log, NEW new, Grows(log, new), NEW s, NEW k \in FacetsOf(s),
         ~NewOf(log, new, TypesOf[k]), NEW gone, NEW gone2, gone \subseteq gone2,
         NEW g, Held(g, s, k, log, gone)
  PROVE  Held(g, s, k, new, gone2)
<1>1. /\ k = "content" => TypesOf[k] = ContentTypes
      /\ k = "relations" => TypesOf[k] = RelationTypes
      /\ k = "folder" => TypesOf[k] = FolderTypes
      /\ k = "signals" => TypesOf[k] = SignalTypes
  BY DEF TypesOf
<1>2. ASSUME k = "content" PROVE ContentHeld(g, s, new)
  <2> DEFINE last == LastOf(log, ContentTypes, "DOCUMENT_INDEXED")
  <2>1. /\ LastOf(new, ContentTypes, "DOCUMENT_INDEXED") = last
        /\ \A i \in last : new[i] = log[i]
    BY <1>1, <1>2, LastOfGrown
  <2> QED
    BY <1>2, <2>1 DEF Held, ContentHeld
<1>3. ASSUME k = "relations" PROVE FoldersHeld(g, s, new, gone2)
  <2> DEFINE last == LastOf(log, RelationTypes, "DOCUMENT_FOLDER_RELATIONS_INDEXED")
  <2>1. /\ LastOf(new, RelationTypes, "DOCUMENT_FOLDER_RELATIONS_INDEXED") = last
        /\ \A i \in last : new[i] = log[i]
    BY <1>1, <1>3, LastOfGrown
  <2> QED
    BY <1>3, <2>1 DEF Held, FoldersHeld
<1>4. ASSUME k = "folder" PROVE FolderHeld(g, s, new, gone2)
  <2> DEFINE last == LastOf(log, FolderTypes, "FOLDER_INDEXED")
  <2>1. /\ LastOf(new, FolderTypes, "FOLDER_INDEXED") = last
        /\ \A i \in last : new[i] = log[i]
    BY <1>1, <1>4, LastOfGrown
  <2> QED
    BY <1>4, <2>1 DEF Held, FolderHeld
<1>5. ASSUME k = "signals" PROVE SignalsHeld(g, s, new, gone2)
  <2> DEFINE last == LastOf(log, SignalTypes, "FOLDER_SIGNALS_INDEXED")
  <2>1. /\ LastOf(new, SignalTypes, "FOLDER_SIGNALS_INDEXED") = last
        /\ \A i \in last : new[i] = log[i]
    BY <1>1, <1>5, LastOfGrown
  <2> QED
    BY <1>5, <2>1 DEF Held, SignalsHeld
<1> QED
  BY <1>2, <1>3, <1>4, <1>5 DEF Held

LEMMA PartGrows ==
  ASSUME NEW log, NEW new, Grows(log, new), DOMAIN log \subseteq Nat \ {0}, NEW s,
         NEW h, h \in DOMAIN log \cup {0}, NEW gone, NEW gone2, gone \subseteq gone2,
         NEW excused, NEW excused2,
         \A k \in FacetsOf(s) : k \in excused \ excused2 => NewOf(log, new, TypesOf[k]),
         NEW g, GraphPart(g, s, log, gone, excused, h)
  PROVE  GraphPart(g, s, new, gone2, excused2, h)
<1>1. /\ \A i \in DOMAIN log : i \in DOMAIN new /\ new[i] = log[i]
      /\ \A j \in DOMAIN new \ DOMAIN log : j \in Nat /\ h < j
  BY DEF Grows
<1>2. h \in Nat
  OBVIOUS
<1>3. ASSUME NEW k \in FacetsOf(s) \ excused2, Behind(new, TypesOf[k], h)
      PROVE  Held(g, s, k, new, gone2)
  <2>1. ~NewOf(log, new, TypesOf[k])
    BY <1>1, <1>2, <1>3 DEF Behind, NewOf
  <2>2. Behind(log, TypesOf[k], h) /\ k \notin excused
    BY <1>1, <1>3, <2>1 DEF Behind
  <2>3. Held(g, s, k, log, gone)
    BY <1>3, <2>2 DEF GraphPart
  <2> QED
    BY <1>3, <2>1, <2>3, HeldGrows
<1>4. ASSUME s \in Folders \ gone2 PROVE Present(g, s, new, h)
  <2>1. Present(g, s, log, h)
    BY <1>4 DEF GraphPart
  <2>2. SUFFICES ASSUME NEW p \in DOMAIN new, new[p].type = "FOLDER_INDEXED", p <= h,
                        g.folders[s] = NoNode
                 PROVE  \E q \in DOMAIN new : /\ q > p /\ new[q].type = "FOLDER_INDEXED"
                                              /\ IndexOf(new[q]) # IndexOf(new[p])
    BY DEF Present
  <2>3. p \in DOMAIN log /\ new[p] = log[p]
    BY <1>1, <1>2, <2>2
  <2>4. PICK q \in DOMAIN log : /\ q > p /\ log[q].type = "FOLDER_INDEXED"
                                /\ IndexOf(log[q]) # IndexOf(log[p])
    BY <2>1, <2>2, <2>3 DEF Present
  <2> QED
    BY <1>1, <2>3, <2>4
<1> QED
  BY <1>3, <1>4 DEF GraphPart

LEMMA PlacedGrows ==
  ASSUME NEW log, NEW new, Grows(log, new), NEW C \in SUBSET DOMAIN log, NEW C2, C \subseteq C2,
         \A j \in C2 \ C : j \in Nat /\ \A i \in C : i < j, C \subseteq Nat,
         NEW c, NEW own, NEW late, GraphPlaced(log, C, c, own, late)
  PROVE  GraphPlaced(new, C2, c, own, late)
<1>1. ASSUME NEW task, GraphTaskOK(log, C, task) PROVE GraphTaskOK(new, C2, task) /\ task.at \in C
  <2>1. task.at \in C /\ task.at \in C2 /\ new[task.at] = log[task.at]
    BY <1>1 DEF GraphTaskOK, Grows
  <2> QED
    BY <1>1, <2>1 DEF GraphTaskOK
<1>2. c \in C2 \cup {0}
  BY DEF GraphPlaced
<1>3. ASSUME own # Idle
      PROVE  /\ GraphTaskOK(new, C2, own)
             /\ own.replay => own.at <= c
             /\ ~own.replay => c < own.at /\ \A j \in C2 : j <= c \/ own.at <= j
  <2>1. /\ GraphTaskOK(log, C, own)
        /\ own.replay => own.at <= c
        /\ ~own.replay => c < own.at /\ \A j \in C : j <= c \/ own.at <= j
    BY <1>3 DEF GraphPlaced
  <2>2. GraphTaskOK(new, C2, own) /\ own.at \in C
    BY <1>1, <2>1
  <2>3. \A j \in C2 \ C : own.at <= j
    BY <2>2
  <2> QED
    BY <2>1, <2>2, <2>3
<1>4. ASSUME late # Idle
      PROVE  GraphTaskOK(new, C2, late) /\ (late.at <= c \/ (own # Idle /\ late.at = own.at))
  BY <1>1, <1>4 DEF GraphPlaced
<1> QED
  BY <1>2, <1>3, <1>4 DEF GraphPlaced

LEMMA StoreGrows ==
  ASSUME NEW g, NEW logs, NEW news, NEW gone, NEW gone2, gone \subseteq gone2,
         \A f \in Folders : Grows(logs[f], news[f]), StoreOK(g, logs, gone)
  PROVE  StoreOK(g, news, gone2)
<1>1. ASSUME NEW f \in Folders PROVE Sourced2(g, f, news[f], gone2)
  <2>1. Sourced2(g, f, logs[f], gone)
    BY DEF StoreOK
  <2>2. \A i \in DOMAIN logs[f] : i \in DOMAIN news[f] /\ news[f][i] = logs[f][i]
    BY DEF Grows
  <2> QED
    BY <2>1, <2>2 DEF Sourced2
<1> QED
  BY <1>1 DEF StoreOK

LEMMA WriteSideKeepsGraph ==
  ASSUME GraphInv, WriteSide, UNCHANGED graph
  PROVE  GraphInv'
<1>1. /\ FeedInv /\ SaidInv /\ FeedInv' /\ SaidInv' /\ LogsGrow
      /\ UNCHANGED <<scenario, cursor, work, disturbed>>
      /\ untold \subseteq untold'
  <2>1. /\ UNCHANGED <<scenario, cursor, work, disturbed>> /\ untold \subseteq untold'
    BY WriteSideIs DEF GraphInv, FeedInv, ManifestInv
  <2> QED
    BY <2>1, WriteSideKeepsFeed, WriteSideSays DEF GraphInv
<1>2. CASE scenario.target # "graph"
  BY <1>1, <1>2 DEF GraphInv
<1>3. CASE scenario.target = "graph"
  <2>1. GraphShapes /\ StoreOK(graph, folderEvents, Gone) /\ \A s \in Sources : GraphSource(s)
    BY <1>3 DEF GraphInv
  <2>2. \A f \in Folders : Grows(folderEvents[f], folderEvents'[f])
    <3>1. ASSUME NEW f \in Folders PROVE Grows(folderEvents[f], folderEvents'[f])
      <4>1. Log(f) = folderEvents[f] /\ Log(f)' = folderEvents'[f] /\ f \in Sources
        BY SourcesAreApart DEF Log, Sources
      <4> QED
        BY <1>1, <4>1 DEF LogsGrow
    <3> QED
      BY <3>1
  <2>3. Gone \subseteq Gone'
    BY <2>2, GoneIs DEF Gone, Grows, NoneOf
  <2>4. StoreOK(graph, folderEvents, Gone)' /\ GraphShapes'
    <3>1. StoreOK(graph, folderEvents', Gone')
      BY <2>1, <2>2, <2>3, StoreGrows
    <3> QED
      BY <1>1, <2>1, <3>1 DEF GraphShapes
  <2>5. ASSUME NEW s \in Sources PROVE GraphSource(s)'
    <3> DEFINE log == Log(s)
               new == Log(s)'
               C == ConsumedAt(s)
               C2 == ConsumedAt(s)'
               own == work[s].owner
               late == work[s].late
               c == cursor[s]
    <3>1. Grows(log, new) /\ DOMAIN log \subseteq Nat \ {0} /\ C \subseteq DOMAIN log
      BY <1>1, <1>3, GraphViews DEF LogsGrow, ConsumedAt
    <3>9. /\ C = IF s \in scenario.watched THEN {i \in DOMAIN log : log[i].type \in Consumed} ELSE {}
          /\ C2 = IF s \in scenario.watched THEN {i \in DOMAIN new : new[i].type \in Consumed} ELSE {}
      BY <1>1 DEF ConsumedAt, Consumed
    <3>2. /\ cursor'[s] = c /\ work'[s].owner = own /\ work'[s].late = late
          /\ (s \in disturbed' <=> s \in disturbed)
          /\ GraphPlaced(log, C, c, own, late)
          /\ s \notin disturbed => GraphPart(graph, s, log, Gone, Excused(s), Reached(c, own))
      BY <1>1, <2>1 DEF GraphSource
    <3>3. \A k \in FacetsOf(s) : k \in Excused(s) \ Excused(s)' => NewOf(log, new, TypesOf[k])
      <4> SUFFICES ASSUME NEW k \in FacetsOf(s), k \in Excused(s), k \notin Excused(s)'
                   PROVE  NewOf(log, new, TypesOf[k])
        OBVIOUS
      <4>1. FacetsOf(s)' = FacetsOf(s) /\ (~Told(s) => ~Told(s)')
        BY <1>1 DEF FacetsOf, Told
      <4>2. k = "relations" /\ SnapshotOmitted(s) /\ ~SnapshotOmitted(s)'
        BY <4>1 DEF Excused
      <4>3. s \in Documents /\ TypesOf[k] = RelationTypes
        BY <4>2 DEF FacetsOf, TypesOf
      <4>4. log = docEvents[s] /\ new = docEvents'[s]
        BY <4>3 DEF Log
      <4> HIDE DEF log, new
      <4>5. NewOf(docEvents[s], docEvents'[s], RelationTypes)
        BY <1>1, <4>2, <4>3, DocumentsSay
      <4> QED
        BY <4>3, <4>4, <4>5
    <3>4. C \subseteq DOMAIN log /\ C \subseteq C2 /\ C \subseteq Nat
          /\ \A j \in C2 \ C : j \in Nat /\ \A i \in C : i < j
      <4> HIDE DEF log, new, C, C2
      <4>1. /\ \A i \in DOMAIN log : i \in DOMAIN new /\ new[i] = log[i]
            /\ \A j \in DOMAIN new \ DOMAIN log : j \in Nat /\ \A i \in DOMAIN log : i < j
        BY <3>1 DEF Grows
      <4> QED
        BY <3>1, <3>9, <4>1
    <3>5. Reached(c, own) \in DOMAIN log \cup {0}
      BY <3>2, <3>4 DEF Reached, GraphPlaced, GraphTaskOK
    <3> HIDE DEF log, new, C, C2, own, late, c
    <3>6. GraphPlaced(new, C2, c, own, late)
      BY <3>1, <3>2, <3>4, PlacedGrows
    <3>7. s \notin disturbed => GraphPart(graph, s, new, Gone', Excused(s)', Reached(c, own))
      <4> SUFFICES ASSUME s \notin disturbed
                   PROVE  GraphPart(graph, s, new, Gone', Excused(s)', Reached(c, own))
        OBVIOUS
      <4> DEFINE h == Reached(c, own)
                 gone == Gone
                 gone2 == Gone'
                 excused == Excused(s)
                 excused2 == Excused(s)'
      <4>1. /\ h \in DOMAIN log \cup {0} /\ gone \subseteq gone2
            /\ GraphPart(graph, s, log, gone, excused, h)
            /\ \A k \in FacetsOf(s) : k \in excused \ excused2 => NewOf(log, new, TypesOf[k])
        BY <2>3, <3>2, <3>3, <3>5
      <4> HIDE DEF h, gone, gone2, excused, excused2
      <4>2. GraphPart(graph, s, new, gone2, excused2, h)
        BY <3>1, <4>1, PartGrows
      <4> QED
        BY <4>2 DEF h, gone2, excused2
    <3>8. GraphSource(s)' <=>
            /\ GraphPlaced(new, C2, cursor'[s], work'[s].owner, work'[s].late)
            /\ s \notin disturbed' =>
                 GraphPart(graph', s, new, Gone', Excused(s)', Reached(cursor'[s], work'[s].owner))
      BY DEF GraphSource, new, C2
    <3> QED
      BY <3>2, <3>6, <3>7, <3>8
  <2> QED
    BY <1>1, <2>4, <2>5 DEF GraphInv
<1> QED
  BY <1>2, <1>3

-----------------------------------------------------------------------------
(***************************************************************************)
(* The invariant holds of the composition.                                 *)
(***************************************************************************)
LEMMA EmptyHolds ==
  ASSUME NEW g, NEW s, NEW k \in FacetsOf(s), NEW gone, g.hasSignal = {}, g.inFolder = {},
         g.childOf = {}, \A d \in Documents : g.documents[d] = NoNode,
         \A f \in Folders : g.folders[f] = NoNode /\ g.folderSignals[f] = None
  PROVE  Held(g, s, k, << >>, gone)
<1>1. \A types, type : LastOf(<< >>, types, type) = {}
  BY DEF LastOf
<1>2. \A x : EdgesOf({}, x) = {}
  BY DEF EdgesOf
<1>3. k \in {"content", "relations"} => s \in Documents
  BY DEF FacetsOf
<1>4. k \in {"folder", "signals"} => s \in Folders
  BY DEF FacetsOf
<1>5. k = "content" => ContentHeld(g, s, << >>)
  BY <1>1, <1>2, <1>3 DEF ContentHeld
<1>6. k = "relations" => FoldersHeld(g, s, << >>, gone)
  BY <1>1, <1>2, <1>3 DEF FoldersHeld
<1>7. k = "folder" => FolderHeld(g, s, << >>, gone)
  BY <1>1, <1>2, <1>4, NodesDiffer DEF FolderHeld
<1>8. k = "signals" => SignalsHeld(g, s, << >>, gone)
  BY <1>4 DEF SignalsHeld
<1> QED
  BY <1>5, <1>6, <1>7, <1>8 DEF Held

LEMMA InitStore ==
  ASSUME GraphInit, NEW logs, NEW gone
  PROVE  StoreOK(graph, logs, gone)
<1>1. GraphShape(graph)
  BY DEF GraphInit, GraphShape, GraphIs
<1>2. Rooted(graph)
  BY DEF GraphInit, Rooted
<1>3. ASSUME NEW f \in Folders PROVE Sourced2(graph, f, logs[f], gone)
  BY NodesDiffer DEF GraphInit, Sourced2
<1> QED
  BY <1>1, <1>2, <1>3 DEF StoreOK

LEMMA InitGraph == ProjectionInit => GraphInv
<1> SUFFICES ASSUME ProjectionInit PROVE GraphInv
  OBVIOUS
<1>1. FeedInv /\ SaidInv
  BY InitFeed, InitSaid
<1>2. /\ cursor = [s \in Sources |-> 0] /\ work = [s \in Sources |-> [slot \in Slots |-> Idle]]
      /\ docEvents = [d \in Documents |-> << >>] /\ folderEvents = [f \in Folders |-> << >>]
  BY DEF ProjectionInit, FeedInit, Init
<1>3. GraphShapes
  BY <1>2, GraphTasksAre DEF GraphShapes
<1>4. StoreOK(graph, folderEvents, Gone)
  BY InitStore DEF ProjectionInit
<1>5. ASSUME NEW s \in Sources PROVE GraphSource(s)
  <2>1. cursor[s] = 0 /\ work[s].owner = Idle /\ work[s].late = Idle
    BY <1>2 DEF Slots
  <2>2. Log(s) = << >>
    BY <1>2 DEF Log, Sources
  <2>3. GraphPlaced(Log(s), ConsumedAt(s), 0, Idle, Idle)
    BY DEF GraphPlaced
  <2>4. ASSUME NEW k \in FacetsOf(s) PROVE Held(graph, s, k, << >>, Gone)
    BY EmptyHolds DEF ProjectionInit, GraphInit
  <2>5. Present(graph, s, << >>, Reached(0, Idle))
    BY DEF Present
  <2>6. GraphPart(graph, s, Log(s), Gone, Excused(s), Reached(0, Idle))
    BY <2>2, <2>4, <2>5 DEF GraphPart
  <2> QED
    BY <2>1, <2>3, <2>6 DEF GraphSource
<1> QED
  BY <1>1, <1>3, <1>4, <1>5 DEF GraphInv

LEMMA NextGraph == GraphInv /\ [ProjectionNext]_projectionVars => GraphInv'
<1> SUFFICES ASSUME GraphInv, [ProjectionNext]_projectionVars PROVE GraphInv'
  OBVIOUS
<1>1. CASE WriteSide /\ UNCHANGED storeVars
  BY <1>1, WriteSideKeepsGraph DEF storeVars
<1>2. CASE UNCHANGED projectionVars
  <2>1. /\ UNCHANGED <<vars, scenario, untold>> /\ UNCHANGED <<cursor, work, disturbed, graph>>
    BY <1>2 DEF projectionVars, feedVars, vectorVars
  <2>2. FeedInv' /\ SaidInv' /\ scenario' = scenario
    BY <2>1, HandlersKeepFeed, SameGraphView DEF GraphInv
  <2>3. ASSUME scenario.target = "graph"
        PROVE  GraphShapes' /\ StoreOK(graph, folderEvents, Gone)'
               /\ \A s \in Sources : GraphSource(s)'
    <3>1. GraphShapes'
      BY <2>1, <2>3 DEF GraphInv, GraphShapes
    <3>2. folderEvents' = folderEvents /\ Gone' = Gone
      BY <2>1, SameGraphView
    <3>3. StoreOK(graph, folderEvents, Gone)'
      BY <2>1, <2>3, <3>2 DEF GraphInv
    <3>4. ASSUME NEW s \in Sources PROVE GraphSource(s)'
      <4>1. /\ Log(s)' = Log(s) /\ ConsumedAt(s)' = ConsumedAt(s) /\ Excused(s)' = Excused(s)
        BY <2>1, SameGraphView
      <4>2. GraphSource(s)
        BY <2>3 DEF GraphInv
      <4> QED
        BY <2>1, <3>2, <4>1, <4>2 DEF GraphSource
    <3> QED
      BY <3>1, <3>3, <3>4
  <2> QED
    BY <2>2, <2>3 DEF GraphInv
<1>3. ASSUME NEW s \in Sources,
             \/ Handle(s)
             \/ Retry(s) \/ DeadLetter(s) \/ LosePartition(s) \/ LateDies(s) \/ Replay(s)
      PROVE  GraphInv'
  <2>1. UNCHANGED <<vars, scenario, untold>>
    BY <1>3 DEF Handle, Receive, Check, Write, Finish, Retry, DeadLetter, LosePartition, LateDies,
                Replay
  <2>2. CASE scenario.target # "graph"
    <3>1. FeedInv' /\ SaidInv' /\ scenario' = scenario
      BY <2>1, HandlersKeepFeed, SameGraphView DEF GraphInv
    <3> QED
      BY <2>2, <3>1 DEF GraphInv
  <2>3. CASE scenario.target = "graph"
    <3>1. CASE Receive(s)
      BY <2>3, <3>1, ReceiveKeepsGraph
    <3>2. ASSUME NEW slot \in Slots, Check(s, slot) PROVE GraphInv'
      BY <2>3, <3>2, CheckKeepsGraph
    <3>3. ASSUME NEW slot \in Slots, Write(s, slot) PROVE GraphInv'
      BY <2>3, <3>3, WriteKeepsGraph
    <3>4. CASE Finish(s, "owner")
      <4>1. GraphShapes /\ work[s]["owner"] = work[s].owner
        BY <2>3, GraphWorkIs DEF GraphInv
      <4>2. /\ work[s].owner # Idle /\ SetTask(s, "owner", Idle) /\ work[s].owner.todo = << >>
            /\ cursor' = IF work[s].owner.replay THEN cursor
                         ELSE [cursor EXCEPT ![s] = work[s].owner.at]
            /\ disturbed' = disturbed /\ UNCHANGED <<vars, scenario, untold, graph>>
        BY <3>4, <4>1 DEF Finish, storeVars
      <4> QED
        BY <2>3, <4>2, OwnerEndsKeepsGraph
    <3>5. CASE Finish(s, "late")
      <4>1. SetTask(s, "late", Idle) /\ UNCHANGED <<vars, scenario, cursor, disturbed, untold, graph>>
        BY <3>5 DEF Finish, storeVars
      <4> QED
        BY <2>3, <4>1, LateDiesKeepsGraph
    <3>6. CASE Retry(s) \/ LosePartition(s)
      BY <2>3, <3>6, RetryKeepsGraph
    <3>7. CASE DeadLetter(s)
      <4>1. /\ work[s].owner # Idle /\ SetTask(s, "owner", Idle)
            /\ cursor' = IF work[s].owner.replay THEN cursor
                         ELSE [cursor EXCEPT ![s] = work[s].owner.at]
            /\ disturbed' = disturbed \cup {s} /\ UNCHANGED <<vars, scenario, untold, graph>>
        BY <3>7 DEF DeadLetter, storeVars
      <4> QED
        BY <2>3, <4>1, OwnerEndsKeepsGraph
    <3>8. CASE LateDies(s)
      <4>1. SetTask(s, "late", Idle) /\ UNCHANGED <<vars, scenario, cursor, disturbed, untold, graph>>
        BY <3>8 DEF LateDies, storeVars
      <4> QED
        BY <2>3, <4>1, LateDiesKeepsGraph
    <3>9. CASE Replay(s)
      BY <2>3, <3>9, ReplayKeepsGraph
    <3> QED
      BY <1>3, <3>1, <3>2, <3>3, <3>4, <3>5, <3>6, <3>7, <3>8, <3>9 DEF Handle, Slots
  <2> QED
    BY <2>2, <2>3
<1> QED
  BY <1>1, <1>2, <1>3 DEF ProjectionNext

LEMMA GraphIsKept == ProjectionSpec => []GraphInv
BY InitGraph, NextGraph, PTL DEF ProjectionSpec

-----------------------------------------------------------------------------
(***************************************************************************)
(* A settled graph is as the tables say.                                   *)
(***************************************************************************)
LEMMA SettledHolds ==
  ASSUME GraphInv, GraphSettled, NEW s \in Sources, NEW k \in FacetsOf(s) \ Excused(s)
  PROVE  Held(graph, s, k, Log(s), Gone)
<1>1. /\ scenario.target = "graph" /\ Waiting(s) = {} /\ work[s] = [slot \in Slots |-> Idle]
      /\ s \in scenario.watched /\ s \notin disturbed
  BY DEF GraphSettled, Settled, AllHandled
<1>2. work[s].owner = Idle
  BY <1>1 DEF Slots
<1>3. /\ FeedInv /\ cursor[s] \in Nat /\ DOMAIN Log(s) \subseteq Nat \ {0} /\ PartOf(graph, s)
  BY <1>1, GraphSourceIs
<1>4. ConsumedAt(s) = DOMAIN Log(s)
  BY <1>1, <1>3, GraphViews
<1>5. \A i \in DOMAIN Log(s) : i <= cursor[s]
  BY <1>1, <1>3, <1>4 DEF Waiting
<1>6. Reached(cursor[s], work[s].owner) = cursor[s]
  BY <1>2 DEF Reached
<1>7. Behind(Log(s), TypesOf[k], cursor[s])
  BY <1>5 DEF Behind
<1> QED
  BY <1>3, <1>6, <1>7 DEF PartOf, GraphPart

LEMMA EndIsLastOf ==
  ASSUME NEW log, DOMAIN log \subseteq Nat, NEW types, NEW e, Ends(log, types, e)
  PROVE  /\ \E i \in DOMAIN log : log[i] = e /\ i \in LastOf(log, types, e.type)
         /\ \A type : type # e.type => LastOf(log, types, type) = {}
<1>1. PICK i \in DOMAIN log : /\ log[i] = e /\ e.type \in types
                              /\ \A j \in DOMAIN log : log[j].type \in types => j <= i
  BY DEF Ends
<1>2. i \in LastOf(log, types, e.type)
  BY <1>1 DEF LastOf, IsLast
<1>3. ASSUME NEW type, type # e.type, NEW j \in LastOf(log, types, type) PROVE FALSE
  <2>1. j \in DOMAIN log /\ log[j].type = type /\ log[j].type \in types /\ i <= j
    BY <1>1, <1>3 DEF LastOf, IsLast
  <2>2. j <= i
    BY <1>1, <2>1
  <2>3. i = j
    BY <2>1, <2>2
  <2> QED
    BY <1>1, <1>3, <2>1, <2>3
<1> QED
  BY <1>1, <1>2, <1>3

\* What every document and every folder has at the end of its log.
LEMMA DocumentEnds ==
  ASSUME FeedInv, NEW d \in Documents
  PROVE  LET log == docEvents[d]
             row == docSource[d]
             last == LastOf(log, ContentTypes, "DOCUMENT_INDEXED")
         IN  /\ row.live =>
                  \E i \in last : log[i] = DocumentIndexed(row.version, row.content, docIndex[d].extraction)
             /\ ~row.live => last = {}
<1> DEFINE log == docEvents[d]
           row == docSource[d]
           last == LastOf(log, ContentTypes, "DOCUMENT_INDEXED")
<1>1. /\ log \in Seq(DocumentEvents) /\ EventsOfHost(hostDocs[d], row, log)
      /\ LogEnds(row, docIndex[d], member[d], log)
  BY DEF FeedInv, LogInv, DocumentLog
<1>2. DOMAIN log \subseteq Nat
  BY <1>1
<1>3. row.version \in Nat /\ row.live \in BOOLEAN
  BY DEF FeedInv, ManifestInv, TypeOK, DocumentRow
<1>4. CASE row.live
  <2> DEFINE e == DocumentIndexed(row.version, row.content, docIndex[d].extraction)
  <2>1. Ends(log, ContentTypes, e)
    BY <1>4 DEF FeedInv, LastIsStored
  <2>2. e.type = "DOCUMENT_INDEXED"
    BY DEF DocumentIndexed
  <2> HIDE DEF e, log
  <2>3. \E i \in DOMAIN log : log[i] = e /\ i \in LastOf(log, ContentTypes, e.type)
    BY <1>2, <2>1, EndIsLastOf
  <2> QED
    BY <1>4, <2>2, <2>3 DEF e, log
<1>5. CASE ~row.live /\ row.version > 0
  <2> DEFINE e == DocumentDeleted(row.version)
  <2>1. Ends(log, ContentTypes, e)
    BY <1>1, <1>5 DEF LogEnds
  <2>2. e.type # "DOCUMENT_INDEXED"
    BY DEF DocumentDeleted
  <2> HIDE DEF e, log
  <2>3. \A type : type # e.type => LastOf(log, ContentTypes, type) = {}
    BY <1>2, <2>1, EndIsLastOf
  <2> QED
    BY <1>5, <2>2, <2>3 DEF log
<1>6. CASE ~row.live /\ row.version = 0
  <2>1. ASSUME NEW i \in last PROVE FALSE
    <3>1. Has(log, log[i])
      BY <2>1 DEF LastOf, Has
    <3>2. log[i].version \in 1..row.version
      BY <1>1, <3>1 DEF EventsOfHost
    <3> QED
      BY <1>6, <3>2
  <2> QED
    BY <1>6, <2>1
<1> QED
  BY <1>3, <1>4, <1>5, <1>6

LEMMA RelationsEnd ==
  ASSUME FeedInv, NEW d \in Documents
  PROVE  LET log == docEvents[d]
             last == LastOf(log, RelationTypes, "DOCUMENT_FOLDER_RELATIONS_INDEXED")
         IN  /\ \A i \in last : log[i].folders = member[d]
             /\ last = {} => member[d] = {}
<1> DEFINE log == docEvents[d]
           type == "DOCUMENT_FOLDER_RELATIONS_INDEXED"
           last == LastOf(log, RelationTypes, type)
<1>1. log \in Seq(DocumentEvents) /\ LogEnds(docSource[d], docIndex[d], member[d], log)
  BY DEF FeedInv, LogInv, DocumentLog
<1>2. DOMAIN log \subseteq Nat
  BY <1>1
<1>3. CASE NoneOf(log, RelationTypes) /\ member[d] = {}
  BY <1>3 DEF NoneOf, LastOf, IsLast
<1>4. CASE member[d] = {} /\ \E v \in Nat : Ends(log, RelationTypes, DocumentDeleted(v))
  <2>1. PICK v \in Nat : Ends(log, RelationTypes, DocumentDeleted(v))
    BY <1>4
  <2> DEFINE e == DocumentDeleted(v)
  <2>2. e.type # type
    BY DEF DocumentDeleted
  <2> HIDE DEF e, log
  <2>3. \A t : t # e.type => LastOf(log, RelationTypes, t) = {}
    BY <1>2, <2>1, EndIsLastOf DEF e
  <2> QED
    BY <1>4, <2>2, <2>3 DEF log
<1>5. CASE \E v \in Nat : Ends(log, RelationTypes, RelationsIndexed(v, member[d]))
  <2>1. PICK v \in Nat : Ends(log, RelationTypes, RelationsIndexed(v, member[d]))
    BY <1>5
  <2> DEFINE e == RelationsIndexed(v, member[d])
  <2>2. e.type = type /\ e.folders = member[d]
    BY DEF RelationsIndexed
  <2> HIDE DEF e, log
  <2>3. \E i \in DOMAIN log : log[i] = e /\ i \in LastOf(log, RelationTypes, e.type)
    BY <1>2, <2>1, EndIsLastOf DEF e
  <2>4. ASSUME NEW i \in last PROVE log[i] = e
    <3>1. i \in DOMAIN log /\ log[i].type \in RelationTypes
          /\ \A j \in DOMAIN log : log[j].type \in RelationTypes => j <= i
      BY <2>4 DEF LastOf, IsLast
    <3> QED
      BY <1>2, <2>1, <3>1, EndIsLast DEF e
  <2>5. last # {}
    BY <2>2, <2>3
  <2>6. \A i \in last : log[i].folders = member[d]
    BY <2>2, <2>4
  <2> QED
    BY <2>5, <2>6 DEF log
<1> QED
  BY <1>1, <1>3, <1>4, <1>5 DEF LogEnds

LEMMA FolderEnds ==
  ASSUME FeedInv, NEW f \in Folders
  PROVE  LET log == folderEvents[f]
             row == folderSource[f]
             last == LastOf(log, FolderTypes, "FOLDER_INDEXED")
         IN  /\ Live(f) =>
                  \E i \in last : log[i] = FolderIndexed(row.version, row.parent, row.label)
             /\ ~Live(f) => last = {}
<1> DEFINE log == folderEvents[f]
           row == folderSource[f]
           last == LastOf(log, FolderTypes, "FOLDER_INDEXED")
<1>1. FolderLog(hostFolders[f], row, log)
  BY DEF FeedInv, LogInv
<1>2. DOMAIN log \subseteq Nat
  BY <1>1 DEF FolderLog
<1>3. row.version \in Nat /\ row.live \in BOOLEAN /\ Live(f) = row.live
  BY DEF FeedInv, ManifestInv, TypeOK, FolderRow, Live
<1>4. CASE row.live
  <2> DEFINE e == FolderIndexed(row.version, row.parent, row.label)
  <2>1. Ends(log, FolderTypes, e)
    BY <1>1, <1>4, LiveFolderEnds
  <2>2. e.type = "FOLDER_INDEXED"
    BY DEF FolderIndexed
  <2> HIDE DEF e, log
  <2>3. \E i \in DOMAIN log : log[i] = e /\ i \in LastOf(log, FolderTypes, e.type)
    BY <1>2, <2>1, EndIsLastOf
  <2> QED
    BY <1>3, <1>4, <2>2, <2>3 DEF e, log
<1>5. CASE ~row.live /\ row.version > 0
  <2> DEFINE e == FolderDeleted(row.version)
  <2>1. Ends(log, FolderTypes, e)
    BY <1>1, <1>5 DEF FolderLog
  <2>2. e.type # "FOLDER_INDEXED"
    BY DEF FolderDeleted
  <2> HIDE DEF e, log
  <2>3. \A type : type # e.type => LastOf(log, FolderTypes, type) = {}
    BY <1>2, <2>1, EndIsLastOf
  <2> QED
    BY <1>3, <1>5, <2>2, <2>3 DEF log
<1>6. CASE ~row.live /\ row.version = 0
  <2>1. ASSUME NEW i \in last PROVE FALSE
    <3>1. Has(log, log[i]) /\ log[i].type = "FOLDER_INDEXED"
      BY <2>1 DEF LastOf, Has
    <3>2. log[i].version \in 1..row.version
      BY <1>1, <3>1 DEF FolderLog
    <3> QED
      BY <1>6, <3>2
  <2> QED
    BY <1>3, <1>6, <2>1
<1> QED
  BY <1>3, <1>4, <1>5, <1>6

\* Each source's part of the settled graph.
LEMMA ContentSettles ==
  ASSUME GraphInv, GraphSettled, NEW d \in Documents
  PROVE  LET row == docSource[d]
         IN  /\ graph.documents[d] = ManifestGraph.documents[d]
             /\ EdgesOf(graph.hasSignal, d) =
                  IF row.live
                  THEN {<<d, [document |-> d, extraction |-> docIndex[d].extraction,
                              content |-> row.content]>>}
                  ELSE {}
<1> DEFINE log == docEvents[d]
           row == docSource[d]
           e == DocumentIndexed(row.version, row.content, docIndex[d].extraction)
           last == LastOf(log, ContentTypes, "DOCUMENT_INDEXED")
<1>1. d \in Sources /\ "content" \in FacetsOf(d) \ Excused(d) /\ Log(d) = log
  BY DEF Sources, FacetsOf, Excused, Log
<1>2. ContentHeld(graph, d, log)
  <2> HIDE DEF log
  <2> QED
    BY <1>1, SettledHolds DEF Held
<1>3. /\ row.live => \E i \in last : log[i] = e
      /\ ~row.live => last = {}
  BY DocumentEnds DEF GraphInv
<1>4. /\ Described(e) = [state |-> "full", version |-> row.version, content |-> row.content,
                         label |-> row.content]
      /\ DocumentSignalRecord(d, e) = [document |-> d, extraction |-> docIndex[d].extraction,
                                       content |-> row.content]
  BY DEF Described, DocumentSignalRecord, DocumentIndexed
<1>5. ManifestGraph.documents[d] =
        IF row.live THEN [state |-> "full", version |-> row.version, content |-> row.content,
                          label |-> row.content]
        ELSE NoNode
  BY DEF ManifestGraph
<1> HIDE DEF e, log, row
<1>6. /\ \A i \in last : /\ graph.documents[d] = Described(log[i])
                         /\ EdgesOf(graph.hasSignal, d) = {<<d, DocumentSignalRecord(d, log[i])>>}
      /\ last = {} => graph.documents[d] = NoNode /\ EdgesOf(graph.hasSignal, d) = {}
  BY <1>2 DEF ContentHeld
<1> HIDE DEF last
<1> QED
  BY <1>3, <1>4, <1>5, <1>6 DEF row

LEMMA RelationsSettle ==
  ASSUME GraphInv, GraphSettled, NEW d \in Documents, ~SnapshotOmitted(d)
  PROVE  /\ \A r \in EdgesOf(graph.inFolder, d) : r[2] \in member[d]
         /\ \A f \in member[d] : f \in Gone \/ <<d, f>> \in graph.inFolder
<1> DEFINE log == docEvents[d]
           last == LastOf(log, RelationTypes, "DOCUMENT_FOLDER_RELATIONS_INDEXED")
<1>1. d \in Sources /\ "relations" \in FacetsOf(d) \ Excused(d) /\ Log(d) = log
  BY DEF Sources, FacetsOf, Excused, Log
<1>2. FoldersHeld(graph, d, log, Gone)
  <2> HIDE DEF log
  <2> QED
    BY <1>1, SettledHolds DEF Held
<1>3. /\ \A i \in last : log[i].folders = member[d]
      /\ last = {} => member[d] = {}
  BY RelationsEnd DEF GraphInv
<1>4. /\ \A i \in last :
           /\ \A r \in EdgesOf(graph.inFolder, d) : r[2] \in log[i].folders
           /\ \A f \in log[i].folders : f \in Gone \/ <<d, f>> \in graph.inFolder
      /\ last = {} => EdgesOf(graph.inFolder, d) = {}
  BY <1>2 DEF FoldersHeld
<1> HIDE DEF last, log
<1> QED
  BY <1>3, <1>4

LEMMA FolderSettles ==
  ASSUME GraphInv, GraphSettled, NEW f \in Folders
  PROVE  LET row == folderSource[f]
         IN  /\ Live(f) =>
                  /\ graph.folders[f] = ManifestGraph.folders[f]
                  /\ \A r \in EdgesOf(graph.childOf, f) : r[2] = row.parent
                  /\ row.parent \in Folders => row.parent \in Gone \/ <<f, row.parent>> \in graph.childOf
             /\ ~Live(f) => graph.folders[f].state # "active" /\ EdgesOf(graph.childOf, f) = {}
<1> DEFINE log == folderEvents[f]
           row == folderSource[f]
           e == FolderIndexed(row.version, row.parent, row.label)
           last == LastOf(log, FolderTypes, "FOLDER_INDEXED")
<1>1. f \in Sources /\ "folder" \in FacetsOf(f) \ Excused(f) /\ Log(f) = log
  BY SourcesAreApart DEF Sources, FacetsOf, Excused, Log
<1>2. FolderHeld(graph, f, log, Gone)
  <2> HIDE DEF log
  <2> QED
    BY <1>1, SettledHolds DEF Held
<1>3. /\ Live(f) => \E i \in last : log[i] = e
      /\ ~Live(f) => last = {}
  BY FolderEnds DEF GraphInv
<1>4. /\ FolderNode(e) = [state |-> "active", version |-> row.version, parent |-> row.parent,
                          label |-> row.label]
      /\ e.parent = row.parent
  BY DEF FolderNode, FolderIndexed
<1>5. Live(f) => ManifestGraph.folders[f] = [state |-> "active", version |-> row.version,
                                             parent |-> row.parent, label |-> row.label]
  BY DEF ManifestGraph
<1> HIDE DEF e, log, row
<1>6. /\ \A i \in last :
           /\ graph.folders[f] = FolderNode(log[i])
           /\ \A r \in EdgesOf(graph.childOf, f) : r[2] = log[i].parent
           /\ log[i].parent \in Folders =>
                log[i].parent \in Gone \/ <<f, log[i].parent>> \in graph.childOf
      /\ last = {} => graph.folders[f].state # "active" /\ EdgesOf(graph.childOf, f) = {}
  BY <1>2 DEF FolderHeld
<1> HIDE DEF last
<1> QED
  BY <1>3, <1>4, <1>5, <1>6 DEF row

\* The graph's fields.
LEMMA SettledShape ==
  ASSUME GraphInv, GraphSettled
  PROVE  /\ GraphShape(graph) /\ Rooted(graph)
         /\ \A f \in Folders : Sourced2(graph, f, folderEvents[f], Gone)
BY DEF GraphInv, GraphSettled, StoreOK

LEMMA NodesSettle ==
  ASSUME GraphInv, GraphSettled
  PROVE  /\ graph.documents = ManifestGraph.documents
         /\ graph.hasSignal = ManifestGraph.hasSignal
         /\ \A f \in Folders : IF Live(f) THEN graph.folders[f] = ManifestGraph.folders[f]
                               ELSE graph.folders[f].state # "active"
         /\ graph.childOf \subseteq ManifestGraph.childOf
<1>0. /\ graph.documents = [d \in Documents |-> graph.documents[d]]
      /\ \A r \in graph.hasSignal : r = <<r[1], r[2]>> /\ r[1] \in Documents
      /\ graph.childOf \subseteq Folders \X Folders
  BY SettledShape DEF GraphShape
<1>1. graph.documents = ManifestGraph.documents
  <2>1. \A d \in Documents : graph.documents[d] = ManifestGraph.documents[d]
    BY ContentSettles
  <2>2. ManifestGraph.documents = [d \in Documents |-> ManifestGraph.documents[d]]
    BY DEF ManifestGraph
  <2> QED
    BY <1>0, <2>1, <2>2
<1>2. graph.hasSignal = ManifestGraph.hasSignal
  <2> DEFINE X(d) == <<d, [document |-> d, extraction |-> docIndex[d].extraction,
                           content |-> docSource[d].content]>>
  <2>1. \A d \in Documents :
          EdgesOf(graph.hasSignal, d) = IF docSource[d].live THEN {X(d)} ELSE {}
    BY ContentSettles
  <2>2. ManifestGraph.hasSignal = {X(d) : d \in {d \in Documents : docSource[d].live}}
    BY DEF ManifestGraph
  <2> HIDE DEF X
  <2>3. ASSUME NEW r \in graph.hasSignal PROVE r \in ManifestGraph.hasSignal
    <3>1. PICK d \in Documents : r \in EdgesOf(graph.hasSignal, d)
      BY <1>0 DEF EdgesOf
    <3>2. /\ docSource[d].live => EdgesOf(graph.hasSignal, d) = {X(d)}
          /\ ~docSource[d].live => EdgesOf(graph.hasSignal, d) = {}
      BY <2>1
    <3>3. docSource[d].live /\ r = X(d)
      BY <3>1, <3>2
    <3> QED
      BY <2>2, <3>3
  <2>4. ASSUME NEW d \in Documents, docSource[d].live PROVE X(d) \in graph.hasSignal
    <3>1. X(d) \in EdgesOf(graph.hasSignal, d)
      BY <2>1, <2>4
    <3> QED
      BY <3>1 DEF EdgesOf
  <2> QED
    BY <2>2, <2>3, <2>4
<1>3. ASSUME NEW f \in Folders
      PROVE  IF Live(f) THEN graph.folders[f] = ManifestGraph.folders[f]
             ELSE graph.folders[f].state # "active"
  BY FolderSettles
<1>4. ASSUME NEW r \in graph.childOf PROVE r \in ManifestGraph.childOf
  <2>1. r[1] \in Folders /\ r \in Folders \X Folders /\ r \in EdgesOf(graph.childOf, r[1])
    BY <1>0 DEF EdgesOf
  <2>2. Live(r[1]) /\ r[2] = folderSource[r[1]].parent
    BY <2>1, FolderSettles
  <2> QED
    BY <2>1, <2>2 DEF ManifestGraph
<1> QED
  BY <1>1, <1>2, <1>3, <1>4

LEMMA InvImpliesNodes == GraphInv => GraphNodesCurrent
BY NodesSettle DEF GraphNodesCurrent

-----------------------------------------------------------------------------
(***************************************************************************)
(* A folder's signals.                                                     *)
(***************************************************************************)
LEMMA SignalsSettle ==
  ASSUME GraphInv, GraphSettled, NEW f \in Folders, graph.folderSignals[f] # None, Told(f)
  PROVE  /\ f \in graph.hasFolderSignal \/ EverDeleted(f)
         /\ f \in graph.hasFolderSignal =>
              /\ Live(f)
              /\ graph.folderSignals[f].input = folderIndex[f].signalInput
              /\ \A r \in graph.about : r[1] = f => r[2] \in MemberDocuments(f)
<1> DEFINE log == folderEvents[f]
           type == "FOLDER_SIGNALS_INDEXED"
<1>1. scenario.target = "graph" /\ FeedInv /\ SaidInv /\ f \notin untold
  BY DEF GraphInv, GraphSettled, Told
<1>2. f \in Sources /\ "signals" \in FacetsOf(f) \ Excused(f) /\ Log(f) = log
  BY SourcesAreApart DEF Sources, FacetsOf, Excused, Log
<1>3. SignalsHeld(graph, f, log, Gone)
  <2> HIDE DEF log
  <2> QED
    BY <1>2, SettledHolds DEF Held
<1>4. f \in Gone => EverDeleted(f)
  BY DEF Gone
<1>5. ASSUME f \in graph.hasFolderSignal
      PROVE  /\ Live(f)
             /\ graph.folderSignals[f].input = folderIndex[f].signalInput
             /\ \A r \in graph.about : r[1] = f => r[2] \in MemberDocuments(f)
  <2>1. PICK i \in LastOf(log, SignalTypes, type) :
          graph.folderSignals[f] = FolderSignalRecord(log[i])
    <3> HIDE DEF log
    <3> QED
      BY <1>3, <1>5 DEF SignalsHeld
  <2>2. /\ i \in DOMAIN log /\ log[i].type = type /\ type \in SignalTypes
        /\ \A j \in DOMAIN log : log[j].type \in SignalTypes => j <= i
    BY <2>1 DEF LastOf, IsLast
  <2>3. DOMAIN log \subseteq Nat
    BY <1>1 DEF FeedInv, LogInv, FolderLog
  <2>4. /\ Quiet(log, Live(f)) /\ SignalLog(log, Live(f), folderIndex[f].signalInput)
        /\ Among(log[i])
    BY <1>1, <2>2 DEF FeedInv, SaidInv, SignalsSaid
  <2>5. Live(f) /\ log[i].input = folderIndex[f].signalInput
    <3> HIDE DEF log
    <3>1. ~\E j \in DOMAIN log : j > i /\ log[j].type \in SignalTypes
      BY <2>2, <2>3
    <3> QED
      BY <2>2, <2>4, <3>1 DEF SignalLog, Followed
  <2>6. /\ graph.folderSignals[f].input = log[i].input
        /\ graph.folderSignals[f].related = log[i].related
    BY <2>1 DEF FolderSignalRecord
  <2>7. folderIndex[f].signalInput = SignalInput(f)
    BY <1>1, <2>5 DEF FeedInv, ManifestInv, ManifestConsistent, FolderDigestsFresh
  <2>8. \A m \in SignalInput(f).members : m.document \in MemberDocuments(f)
    BY DEF SignalInput
  <2>9. \A d \in log[i].related : d \in MemberDocuments(f)
    <3> HIDE DEF log
    <3> QED
      BY <2>4, <2>5, <2>7, <2>8 DEF Among
  <2>10. ASSUME NEW r \in graph.about, r[1] = f PROVE r[2] \in graph.folderSignals[f].related
    BY <2>10, SettledShape DEF Rooted
  <2> QED
    BY <2>5, <2>6, <2>9, <2>10
<1> QED
  BY <1>3, <1>4, <1>5 DEF SignalsHeld

LEMMA InvImpliesFolderSignals == GraphInv => GraphFolderSignalsCurrent
BY SignalsSettle DEF GraphFolderSignalsCurrent

-----------------------------------------------------------------------------
(***************************************************************************)
(* What the readers find: a graph with fewer relations, and no more folders*)
(* that are deleted, shows no more.                                        *)
(***************************************************************************)
Within(a, b) ==
  /\ a.documents = b.documents /\ a.hasSignal = b.hasSignal
  /\ a.inFolder \subseteq b.inFolder /\ a.childOf \subseteq b.childOf
  /\ b.inFolder \subseteq Documents \X Folders /\ b.childOf \subseteq Folders \X Folders
  /\ \A query : Matched(a, query) = Matched(b, query)
  /\ \A f \in Folders : NotDeleted(b.folders[f])

LEMMA ScopeWithin ==
  ASSUME NEW a, NEW b, Within(a, b), NEW scope
  PROVE  /\ ScopedDocuments(a, scope) \subseteq ScopedDocuments(b, scope)
         /\ scope.folders = {} => ScopedDocuments(a, scope) = ScopedDocuments(b, scope)
<1> DEFINE inFolders(g) == {r[1] : r \in {r \in g.inFolder : /\ r[2] \in scope.folders
                                                             /\ NotDeleted(g.folders[r[2]])}}
<1>1. inFolders(a) \subseteq inFolders(b)
  <2>1. ASSUME NEW r \in a.inFolder, r[2] \in scope.folders
        PROVE  r \in {q \in b.inFolder : /\ q[2] \in scope.folders
                                         /\ NotDeleted(b.folders[q[2]])}
    <3>1. r \in b.inFolder /\ r[2] \in Folders
      BY DEF Within
    <3>2. NotDeleted(b.folders[r[2]])
      BY <3>1 DEF Within
    <3> QED
      BY <2>1, <3>1, <3>2
  <2> QED
    BY <2>1
<1>2. /\ scope.folders = {} => ScopedDocuments(a, scope) = scope.documents
                               /\ ScopedDocuments(b, scope) = scope.documents
      /\ scope.folders # {} /\ scope.documents = {} =>
           ScopedDocuments(a, scope) = inFolders(a) /\ ScopedDocuments(b, scope) = inFolders(b)
      /\ scope.folders # {} /\ scope.documents # {} =>
           /\ ScopedDocuments(a, scope) = scope.documents \cap inFolders(a)
           /\ ScopedDocuments(b, scope) = scope.documents \cap inFolders(b)
  BY DEF ScopedDocuments
<1> HIDE DEF inFolders
<1> QED
  BY <1>1, <1>2

LEMMA HitsWithin ==
  ASSUME NEW a, NEW b, Within(a, b), NEW query
  PROVE  /\ TitleHits(a, query) = TitleHits(b, query)
         /\ SignalHits(a, query) = SignalHits(b, query)
         /\ FolderHits(a, query) \subseteq FolderHits(b, query)
         /\ DescendantHits(a, query) \subseteq DescendantHits(b, query)
         /\ SiblingHits(a, query) \subseteq SiblingHits(b, query)
<1> DEFINE matched == Matched(a, query)
<1>1. /\ a.documents = b.documents /\ a.hasSignal = b.hasSignal
      /\ a.inFolder \subseteq b.inFolder /\ a.childOf \subseteq b.childOf
      /\ matched = Matched(b, query)
      /\ \A r \in b.inFolder : NotDeleted(b.folders[r[2]])
      /\ \A r \in b.childOf : NotDeleted(b.folders[r[1]]) /\ NotDeleted(b.folders[r[2]])
  <2>1. /\ \A r \in b.inFolder : r[2] \in Folders
        /\ \A r \in b.childOf : r[1] \in Folders /\ r[2] \in Folders
        /\ \A f \in Folders : NotDeleted(b.folders[f])
    BY DEF Within
  <2>2. matched = Matched(b, query)
    BY DEF Within
  <2> QED
    BY <2>1, <2>2 DEF Within
<1>2. TitleHits(a, query) = TitleHits(b, query) /\ SignalHits(a, query) = SignalHits(b, query)
  BY <1>1 DEF TitleHits, SignalHits
<1> HIDE DEF matched
<1>3. FolderHits(a, query) \subseteq FolderHits(b, query)
  <2>1. /\ FolderHits(a, query) = {r[1] : r \in {r \in a.inFolder : r[2] \in matched}}
        /\ FolderHits(b, query) = {r[1] : r \in {r \in b.inFolder : r[2] \in matched}}
    BY <1>1 DEF FolderHits, matched
  <2>2. {r \in a.inFolder : r[2] \in matched} \subseteq {r \in b.inFolder : r[2] \in matched}
    BY <1>1
  <2> QED
    BY <2>1, <2>2
<1>4. \A F : Parents(a, F) \subseteq Parents(b, F)
  BY <1>1 DEF Parents
<1>5. \A F, G : F \subseteq G => Parents(b, F) \subseteq Parents(b, G)
  BY DEF Parents
<1>6. DescendantHits(a, query) \subseteq DescendantHits(b, query)
  <2> DEFINE up(g, f) == Parents(g, {f}) \cup Parents(g, Parents(g, {f}))
             hit(g, r) == NotDeleted(g.folders[r[2]]) /\ up(g, r[2]) \cap matched # {}
  <2>1. \A f : up(a, f) \subseteq up(b, f)
    <3> SUFFICES ASSUME NEW f PROVE up(a, f) \subseteq up(b, f)
      OBVIOUS
    <3>1. Parents(a, {f}) \subseteq Parents(b, {f})
      BY <1>4
    <3>2. Parents(a, Parents(a, {f})) \subseteq Parents(b, Parents(a, {f}))
      BY <1>4
    <3>3. Parents(b, Parents(a, {f})) \subseteq Parents(b, Parents(b, {f}))
      BY <1>5, <3>1
    <3> QED
      BY <3>1, <3>2, <3>3
  <2>2. /\ DescendantHits(a, query) = {r[1] : r \in {r \in a.inFolder : hit(a, r)}}
        /\ DescendantHits(b, query) = {r[1] : r \in {r \in b.inFolder : hit(b, r)}}
    BY <1>1 DEF DescendantHits, matched
  <2>3. ASSUME NEW r \in a.inFolder, hit(a, r) PROVE r \in b.inFolder /\ hit(b, r)
    <3>1. r \in b.inFolder /\ NotDeleted(b.folders[r[2]])
      BY <1>1
    <3>2. up(a, r[2]) \cap matched # {} /\ up(a, r[2]) \subseteq up(b, r[2])
      BY <2>1, <2>3
    <3> HIDE DEF up
    <3>3. up(b, r[2]) \cap matched # {}
      BY <3>2
    <3> QED
      BY <3>1, <3>3
  <2> HIDE DEF hit
  <2> QED
    BY <2>2, <2>3
<1>7. SiblingHits(a, query) \subseteq SiblingHits(b, query)
  <2> DEFINE siblings(g, f) ==
               {r[1] : r \in {r \in g.childOf : /\ r[1] # f /\ <<f, r[2]>> \in g.childOf
                                                /\ NotDeleted(g.folders[r[2]])
                                                /\ NotDeleted(g.folders[r[1]])}}
             hit(g, r) == \E f \in matched : r[2] \in siblings(g, f)
  <2>1. \A f : siblings(a, f) \subseteq siblings(b, f)
    BY <1>1
  <2>2. /\ SiblingHits(a, query) = {r[1] : r \in {r \in a.inFolder : hit(a, r)}}
        /\ SiblingHits(b, query) = {r[1] : r \in {r \in b.inFolder : hit(b, r)}}
    BY <1>1 DEF SiblingHits, matched
  <2> HIDE DEF siblings
  <2>3. ASSUME NEW r \in a.inFolder, hit(a, r) PROVE r \in b.inFolder /\ hit(b, r)
    BY <1>1, <2>1, <2>3
  <2> HIDE DEF hit
  <2> QED
    BY <2>2, <2>3
<1> QED
  BY <1>2, <1>3, <1>6, <1>7

LEMMA SearchWithin ==
  ASSUME NEW a, NEW b, Within(a, b), NEW query, NEW scope
  PROVE  Search(a, query, scope) \subseteq Search(b, query, scope)
<1> DEFINE sa == ScopedDocuments(a, scope)
           sb == ScopedDocuments(b, scope)
           hits(g) == TitleHits(g, query) \cup SignalHits(g, query) \cup FolderHits(g, query)
                      \cup DescendantHits(g, query) \cup SiblingHits(g, query)
           within(g, s, d) == /\ Readable(g.documents[d])
                              /\ scope.documents # {} => d \in scope.documents
                              /\ s # {} => d \in s
<1>1. sa \subseteq sb /\ (scope.folders = {} => sa = sb)
  BY ScopeWithin
<1>2. hits(a) \subseteq hits(b)
  BY HitsWithin
<1>3. /\ Search(a, query, scope) = IF scope.folders # {} /\ sa = {} THEN {}
                                   ELSE {d \in hits(a) : within(a, sa, d)}
      /\ Search(b, query, scope) = IF scope.folders # {} /\ sb = {} THEN {}
                                   ELSE {d \in hits(b) : within(b, sb, d)}
  BY DEF Search
<1>4. a.documents = b.documents
  BY DEF Within
<1>5. ASSUME NEW d, within(a, sa, d), scope.folders = {} \/ sa # {} PROVE within(b, sb, d)
  <2> HIDE DEF sa, sb
  <2> QED
    BY <1>1, <1>4, <1>5
<1> HIDE DEF sa, sb, hits, within
<1>6. CASE scope.folders # {} /\ sa = {}
  BY <1>3, <1>6
<1>7. CASE scope.folders = {} \/ sa # {}
  <2>1. ~(scope.folders # {} /\ sb = {})
    BY <1>1, <1>7
  <2>2. Search(b, query, scope) = {d \in hits(b) : within(b, sb, d)}
    BY <1>3, <2>1
  <2>3. Search(a, query, scope) = {d \in hits(a) : within(a, sa, d)}
    BY <1>3, <1>7
  <2> QED
    BY <1>2, <1>5, <1>7, <2>2, <2>3
<1> QED
  BY <1>6, <1>7

-----------------------------------------------------------------------------
(***************************************************************************)
(* The settled graph and that of the tables are within each other, the     *)
(* second as long as no folder was deleted.                                *)
(***************************************************************************)
LEMMA MatchedSettles ==
  ASSUME GraphInv, GraphSettled, NEW query
  PROVE  Matched(graph, query) = Matched(ManifestGraph, query)
<1>1. DOMAIN graph.folders = Folders /\ DOMAIN ManifestGraph.folders = Folders
  BY SettledShape DEF GraphShape, ManifestGraph
<1>2. ASSUME NEW f \in Folders
      PROVE  /\ graph.folders[f].state = "active" <=> ManifestGraph.folders[f].state = "active"
             /\ graph.folders[f].state = "active" => graph.folders[f] = ManifestGraph.folders[f]
  <2>1. /\ Live(f) => graph.folders[f] = ManifestGraph.folders[f]
        /\ ~Live(f) => graph.folders[f].state # "active"
    BY FolderSettles
  <2>2. /\ Live(f) => ManifestGraph.folders[f].state = "active"
        /\ ~Live(f) => ManifestGraph.folders[f].state = "reference"
    BY DEF ManifestGraph, FolderReferenceNode
  <2> QED
    BY <2>1, <2>2
<1> QED
  BY <1>1, <1>2 DEF Matched

LEMMA ManifestNodes ==
  ASSUME NEW f \in Folders
  PROVE  /\ Live(f) => ManifestGraph.folders[f].state = "active"
         /\ ~Live(f) => ManifestGraph.folders[f].state = "reference"
BY DEF ManifestGraph, FolderReferenceNode

LEMMA SettledWithin ==
  ASSUME GraphInv, GraphSettled, \A d \in Documents : ~SnapshotOmitted(d)
  PROVE  /\ Within(graph, ManifestGraph)
         /\ Gone = {} => Within(ManifestGraph, graph)
<1>1. /\ graph.inFolder \subseteq Documents \X Folders
      /\ graph.childOf \subseteq Folders \X Folders
  BY SettledShape DEF GraphShape
<1>2. /\ ManifestGraph.inFolder = {r \in Documents \X Folders : r[2] \in member[r[1]]}
      /\ ManifestGraph.childOf = {r \in Folders \X Folders :
                                    Live(r[1]) /\ folderSource[r[1]].parent = r[2]}
  BY DEF ManifestGraph
<1>3. /\ graph.documents = ManifestGraph.documents /\ graph.hasSignal = ManifestGraph.hasSignal
      /\ graph.childOf \subseteq ManifestGraph.childOf
  BY NodesSettle
<1>4. ASSUME NEW r \in graph.inFolder PROVE r \in ManifestGraph.inFolder
  <2>1. r \in Documents \X Folders /\ r[1] \in Documents /\ r \in EdgesOf(graph.inFolder, r[1])
    BY <1>1 DEF EdgesOf
  <2>2. r[2] \in member[r[1]]
    BY <2>1, RelationsSettle
  <2> QED
    BY <1>2, <2>1, <2>2
<1>5. \A query : Matched(graph, query) = Matched(ManifestGraph, query)
  BY MatchedSettles
<1>6. \A f \in Folders : NotDeleted(ManifestGraph.folders[f])
  BY ManifestNodes DEF NotDeleted
<1>7. ASSUME Gone = {}, NEW r \in ManifestGraph.inFolder PROVE r \in graph.inFolder
  <2>1. r = <<r[1], r[2]>> /\ r[1] \in Documents /\ r[2] \in member[r[1]]
    BY <1>2
  <2>2. r[2] \in Gone \/ <<r[1], r[2]>> \in graph.inFolder
    BY <2>1, RelationsSettle
  <2> QED
    BY <1>7, <2>1, <2>2
<1>8. ASSUME Gone = {}, NEW r \in ManifestGraph.childOf PROVE r \in graph.childOf
  <2>1. /\ r = <<r[1], r[2]>> /\ r[1] \in Folders /\ Live(r[1])
        /\ folderSource[r[1]].parent = r[2] /\ r[2] \in Folders
    BY <1>2
  <2>2. r[2] \in Gone \/ <<r[1], r[2]>> \in graph.childOf
    BY <2>1, FolderSettles
  <2> QED
    BY <1>8, <2>1, <2>2
<1>9. ASSUME Gone = {}, NEW f \in Folders PROVE NotDeleted(graph.folders[f])
  BY <1>9, SettledShape DEF Sourced2, NotDeleted
<1>10. /\ ManifestGraph.inFolder \subseteq Documents \X Folders
       /\ ManifestGraph.childOf \subseteq Folders \X Folders
  BY <1>2
<1>11. Within(graph, ManifestGraph)
  BY <1>3, <1>4, <1>5, <1>6, <1>10 DEF Within
<1>12. ASSUME Gone = {} PROVE Within(ManifestGraph, graph)
  BY <1>1, <1>3, <1>5, <1>7, <1>8, <1>9, <1>12 DEF Within
<1> QED
  BY <1>11, <1>12

LEMMA FoldersOfSettle ==
  ASSUME GraphInv, GraphSettled, \A d \in Documents : ~SnapshotOmitted(d), NEW d \in Documents
  PROVE  FoldersOf(graph, d) \subseteq FoldersOf(ManifestGraph, d)
<1> SUFFICES ASSUME NEW f \in FoldersOf(graph, d) PROVE f \in FoldersOf(ManifestGraph, d)
  OBVIOUS
<1>1. DOMAIN graph.folders = Folders /\ DOMAIN ManifestGraph.folders = Folders
  BY SettledShape DEF GraphShape, ManifestGraph
<1>2. f \in Folders /\ <<d, f>> \in graph.inFolder /\ Readable(graph.folders[f])
  BY <1>1 DEF FoldersOf
<1>3. <<d, f>> \in ManifestGraph.inFolder
  BY <1>2, SettledWithin DEF Within
<1>4. graph.folders[f].state = "active"
  BY <1>2, SettledShape DEF Sourced2, Readable
<1>5. Live(f)
  BY <1>2, <1>4, FolderSettles
<1>6. Readable(ManifestGraph.folders[f])
  BY <1>2, <1>5, ManifestNodes DEF Readable
<1> QED
  BY <1>1, <1>2, <1>3, <1>6 DEF FoldersOf

LEMMA InvImpliesSearch == GraphInv => GraphSearchAgrees
<1> SUFFICES ASSUME GraphInv, GraphSettled, \A d \in Documents : ~SnapshotOmitted(d)
             PROVE  /\ \A d \in Documents : FoldersOf(graph, d) \subseteq FoldersOf(ManifestGraph, d)
                    /\ \A query \in Queries, scope \in Scopes :
                         LET found == Search(graph, query, scope)
                             known == Search(ManifestGraph, query, scope)
                         IN  /\ found \subseteq known
                             /\ found = known \/ \E f \in Folders : EverDeleted(f)
  BY DEF GraphSearchAgrees
<1>1. \A d \in Documents : FoldersOf(graph, d) \subseteq FoldersOf(ManifestGraph, d)
  BY FoldersOfSettle
<1>2. ASSUME NEW query, NEW scope
      PROVE  /\ Search(graph, query, scope) \subseteq Search(ManifestGraph, query, scope)
             /\ Gone = {} => Search(ManifestGraph, query, scope) \subseteq Search(graph, query, scope)
  BY SettledWithin, SearchWithin
<1>3. Gone # {} => \E f \in Folders : EverDeleted(f)
  BY DEF Gone
<1> QED
  BY <1>1, <1>2, <1>3

-----------------------------------------------------------------------------
\* For every scenario, any number of sources, versions and faults: once the events of all
\* documents and folders are handled, and none was written behind a later event of its own
\* source, the nodes of the graph, the documents' signals and the folders' parents are those
\* of the tables, in whatever order the sources' events were handled, though the events of
\* one make, refer to, link and delete the nodes of another.
THEOREM GraphNodesAreCurrent == ProjectionSpec => []GraphNodesCurrent
BY GraphIsKept, InvImpliesNodes, PTL

\* A search of that graph, of any scope, returns only what it would return of the tables, and
\* all of it as long as no folder was deleted; the folders shown with a document hold it.
THEOREM GraphSearchIsCurrent == ProjectionSpec => []GraphSearchAgrees
BY GraphIsKept, InvImpliesSearch, PTL

\* The signals linked to a folder of that graph are of a live folder's current input and about
\* documents the folder holds; signals that are not linked are left only where the folder
\* was deleted once.
THEOREM GraphFolderSignalsAreCurrent == ProjectionSpec => []GraphFolderSignalsCurrent
BY GraphIsKept, InvImpliesFolderSignals, PTL
=============================================================================
