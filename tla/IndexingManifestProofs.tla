----------------------- MODULE IndexingManifestProofs -----------------------
(***************************************************************************)
(* Proofs about IndexingManifest, for every set of documents and folders   *)
(* and every bound: of the tables first, then that the outbox replays to   *)
(* the tables, for a host whose calls are over when it deletes and which   *)
(* publishes a new version when a source returns.                          *)
(***************************************************************************)
EXTENDS IndexingManifest, TLAPS

(***************************************************************************)
(* The folder tree.                                                        *)
(***************************************************************************)

\* A subtree holds its root if that is live, is closed under live children, and
\* is the least such set.
LEMMA SubtreeLeast ==
  ASSUME NEW tree, NEW g \in Folders
  PROVE  /\ Subtree(tree, g) \subseteq Folders
         /\ tree[g].live => g \in Subtree(tree, g)
         /\ DownClosed(tree, Subtree(tree, g))
         /\ \A S \in SUBSET Folders :
              (tree[g].live => g \in S) /\ DownClosed(tree, S) => Subtree(tree, g) \subseteq S
BY DEF Subtree, DownClosed

\* Only live folders are in a subtree.
LEMMA SubtreeIsLive ==
  ASSUME NEW tree, NEW g \in Folders
  PROVE  \A x \in Subtree(tree, g) : x \in Folders /\ tree[x].live
<1> DEFINE S == {x \in Folders : tree[x].live}
<1>1. (tree[g].live => g \in S) /\ DownClosed(tree, S)
  BY DEF DownClosed
<1>2. Subtree(tree, g) \subseteq S
  <2> HIDE DEF S
  <2>1. S \in SUBSET Folders
    BY DEF S
  <2> QED
    BY <1>1, <2>1, SubtreeLeast
<1> QED
  BY <1>2

\* Live seeds are among their own ancestors, and only folders are.
LEMMA AncestorsHoldSeeds ==
  ASSUME NEW tree, NEW F
  PROVE  /\ Ancestors(tree, F) \subseteq Folders
         /\ \A f \in F \cap Folders : tree[f].live => f \in Ancestors(tree, F)
BY DEF Ancestors

\* If the subtree of a holds a folder of F, then a is an ancestor of F: what the
\* invalidation reaches covers what the digests read.
LEMMA AncestorsCoverSubtrees ==
  ASSUME NEW tree, NEW F, NEW a \in Folders, NEW x \in F \cap Folders,
         tree[x].live, x \in Subtree(tree, a)
  PROVE  a \in Ancestors(tree, F)
<1> SUFFICES ASSUME NEW S \in SUBSET Folders,
                    {f \in F \cap Folders : tree[f].live} \subseteq S,
                    UpClosed(tree, S)
             PROVE  a \in S
  BY DEF Ancestors
<1> DEFINE D == {g \in Folders : tree[g].live /\ (g \in S => a \in S)}
<1>1. tree[a].live => a \in D
  OBVIOUS
<1>2. DownClosed(tree, D)
  BY DEF DownClosed, UpClosed
<1>3. x \in D
  <2> HIDE DEF D
  <2>1. D \in SUBSET Folders
    BY DEF D
  <2> QED
    BY <1>1, <1>2, <2>1, SubtreeLeast
<1> QED
  BY <1>3

\* Only f differs between two trees, and f is neither in the subtree of g in the
\* one nor hangs below it in the other: g has the same subtree in both.
LEMMA SubtreeUnchanged ==
  ASSUME NEW t1, NEW t2, NEW f \in Folders, NEW g \in Folders, g # f,
         \A h \in Folders \ {f} : (t1[h].live <=> t2[h].live) /\ t1[h].parent = t2[h].parent,
         f \notin Subtree(t2, g),
         t1[f].live => t1[f].parent \notin Subtree(t2, g)
  PROVE  Subtree(t1, g) = Subtree(t2, g)
<1> DEFINE S1 == Subtree(t1, g)
           S2 == Subtree(t2, g)
<1>1. /\ S1 \in SUBSET Folders
      /\ t1[g].live => g \in S1
      /\ DownClosed(t1, S1)
      /\ \A S \in SUBSET Folders :
           (t1[g].live => g \in S) /\ DownClosed(t1, S) => S1 \subseteq S
  BY SubtreeLeast
<1>2. /\ S2 \in SUBSET Folders
      /\ t2[g].live => g \in S2
      /\ DownClosed(t2, S2)
      /\ \A S \in SUBSET Folders :
           (t2[g].live => g \in S) /\ DownClosed(t2, S) => S2 \subseteq S
  BY SubtreeLeast
<1>a. f \notin S2 /\ (t1[f].live => t1[f].parent \notin S2)
  OBVIOUS
<1> HIDE DEF S1, S2
<1>3. DownClosed(t1, S2)
  BY <1>2, <1>a DEF DownClosed
<1>4. S1 \subseteq S2
  BY <1>1, <1>2, <1>3
<1>5. DownClosed(t2, S1)
  BY <1>1, <1>2, <1>4, <1>a DEF DownClosed
<1>6. S2 \subseteq S1
  BY <1>1, <1>2, <1>5
<1> QED
  BY <1>4, <1>6 DEF S1, S2

-----------------------------------------------------------------------------
(***************************************************************************)
(* What an invalidation has to reach.                                      *)
(***************************************************************************)
SameInputs(g) == IndexInput(g)' = IndexInput(g) /\ SignalInput(g)' = SignalInput(g)

\* The step invalidates F, starting from the index records given, and every folder
\* outside F keeps its index record and its inputs.
Refreshes(F, index, log) ==
  /\ Invalidate(F, index, log)
  /\ \A g \in Folders : index[g].live \in BOOLEAN /\ index[g].live = Live(g)'
  /\ \A g \in Folders \ F : index[g] = folderIndex[g] /\ SameInputs(g)

\* The change of one document, leaving the tree alone, is seen only by the folders
\* above its old and its new folders.
LEMMA DocumentChangeReach ==
  ASSUME NEW d \in Documents, NEW g \in Folders, NEW F,
         member[d] \cup member'[d] \subseteq F, g \notin Ancestors(folderSource, F),
         \A e \in Documents \ {d} : /\ docSource'[e] = docSource[e]
                                   /\ docIndex'[e] = docIndex[e]
                                   /\ member'[e] = member[e],
         folderSource' = folderSource
  PROVE  SameInputs(g)
<1>1. \A x \in F \cap Folders : x \in Subtree(folderSource, g) => ~folderSource[x].live
  BY AncestorsCoverSubtrees
<1>2. \A x \in Subtree(folderSource, g) : x \in Folders /\ folderSource[x].live
  BY SubtreeIsLive
<1>3. F \cap Subtree(folderSource, g) = {}
  BY <1>1, <1>2
<1>4. member[d] \cap Subtree(folderSource, g) = {} /\ member'[d] \cap Subtree(folderSource, g) = {}
  BY <1>3
<1>5. MemberDocuments(g)' = MemberDocuments(g) /\ d \notin MemberDocuments(g)
  BY <1>4 DEF MemberDocuments
<1>6. SignalInput(g)' = SignalInput(g)
  <2>1. IndexInput(g)' = IndexInput(g)
    BY DEF IndexInput, Live
  <2>2. \A e \in MemberDocuments(g) : docSource'[e] = docSource[e] /\ docIndex'[e] = docIndex[e]
    BY <1>5 DEF MemberDocuments
  <2> QED
    BY <1>5, <2>1, <2>2 DEF SignalInput
<1> QED
  BY <1>6 DEF SameInputs, IndexInput, Live

\* Folders whose subtree and own row are the same read the same inputs, as long as
\* no document changes.
LEMMA SameSubtreeSameInputs ==
  ASSUME NEW g \in Folders, UNCHANGED docVars, folderSource'[g] = folderSource[g],
         Subtree(folderSource, g)' = Subtree(folderSource, g)
  PROVE  SameInputs(g)
<1>1. IndexInput(g)' = IndexInput(g)
  BY DEF IndexInput, Live
<1>2. MemberDocuments(g)' = MemberDocuments(g)
  BY DEF MemberDocuments, docVars
<1> QED
  BY <1>1, <1>2 DEF SameInputs, SignalInput, docVars

\* The upsert of a folder is seen only by the folder itself and by those above its
\* old and its new parent.
LEMMA FolderUpsertReach ==
  ASSUME NEW f \in Folders, NEW g \in Folders, UNCHANGED docVars,
         \A h \in Folders \ {f} : folderSource'[h] = folderSource[h],
         folderSource'[f].live,
         g \notin AffectedByUpsert(f, folderSource, folderSource')
  PROVE  SameInputs(g)
<1> DEFINE before == folderSource
           after  == folderSource'
<1>1. g # f
  BY DEF AffectedByUpsert
<1>2. CASE before[f].live /\ before[f].parent = after[f].parent
  <2>1. \A h \in Folders : (before[h].live <=> after[h].live) /\ before[h].parent = after[h].parent
    BY <1>2
  <2>2. \A S : DownClosed(before, S) <=> DownClosed(after, S)
    BY <2>1 DEF DownClosed
  <2>3. Subtree(before, g) = Subtree(after, g)
    BY <2>1, <2>2 DEF Subtree
  <2> QED
    BY <1>1, <2>3, SameSubtreeSameInputs
<1>3. CASE ~(before[f].live /\ before[f].parent = after[f].parent)
  <2> DEFINE F == {f} \cup IF before[f].live THEN {before[f].parent} ELSE {}
  <2>1. g \notin Ancestors(after, F)
    BY <1>3 DEF AffectedByUpsert
  <2>2. f \notin Subtree(after, g)
    BY <2>1, AncestorsCoverSubtrees
  <2>3. ASSUME before[f].live PROVE before[f].parent \notin Subtree(after, g)
    <3>1. SUFFICES ASSUME before[f].parent \in Subtree(after, g) PROVE FALSE
      OBVIOUS
    <3>2. before[f].parent \in Folders
      BY <3>1, SubtreeLeast
    <3>3. before[f].parent # f
      BY <2>2, <3>1
    <3>4. ~after[before[f].parent].live
      BY <2>1, <2>3, <3>1, <3>2, AncestorsCoverSubtrees
    <3>5. \A x \in Subtree(after, g) : after[x].live
      BY SubtreeIsLive
    <3> QED
      BY <3>1, <3>4, <3>5
  <2>4. Subtree(before, g) = Subtree(after, g)
    <3> HIDE DEF before, after
    <3> QED
      BY <1>1, <2>2, <2>3, SubtreeUnchanged DEF before, after
  <2> QED
    BY <1>1, <2>4, SameSubtreeSameInputs
<1> QED
  BY <1>2, <1>3

\* The deletion of a folder is seen only by the folders above it.
LEMMA FolderDeletionReach ==
  ASSUME NEW f \in Folders, NEW g \in Folders, UNCHANGED docVars,
         \A h \in Folders \ {f} : folderSource'[h] = folderSource[h],
         folderSource[f].live, ~folderSource'[f].live,
         g \notin Ancestors(folderSource, {f})
  PROVE  SameInputs(g)
<1>1. g # f
  BY AncestorsHoldSeeds
<1>2. f \notin Subtree(folderSource, g)
  BY AncestorsCoverSubtrees
<1>3. Subtree(folderSource', g) = Subtree(folderSource, g)
  <2> DEFINE after == folderSource'
  <2>1. ~after[f].live
    OBVIOUS
  <2>2. \A h \in Folders \ {f} : (after[h].live <=> folderSource[h].live)
                               /\ after[h].parent = folderSource[h].parent
    OBVIOUS
  <2> HIDE DEF after
  <2>3. Subtree(after, g) = Subtree(folderSource, g)
    BY <1>1, <1>2, <2>1, <2>2, SubtreeUnchanged
  <2> QED
    BY <2>3 DEF after
<1> QED
  BY <1>1, <1>3, SameSubtreeSameInputs

-----------------------------------------------------------------------------
(***************************************************************************)
(* Types.                                                                  *)
(***************************************************************************)

\* The inputs recomputed from the tables a step leaves are well typed.
LEMMA InputTypes ==
  ASSUME docSource' \in [Documents -> DocumentRow],
         docIndex' \in [Documents -> DocumentIndexRow],
         folderSource' \in [Folders -> FolderRow],
         NEW f \in Folders
  PROVE  IndexInput(f)' \in IndexInputs /\ SignalInput(f)' \in SignalInputs
<1>1. IndexInput(f)' \in IndexInputs
  BY DEF IndexInput, IndexInputs, FolderRow
<1>2. \A d \in MemberDocuments(f)' :
        [document |-> d, content |-> docSource'[d].content,
         index |-> IF docIndex'[d].live THEN docIndex'[d].input ELSE None]
        \in [document : Documents, content : Contents \cup {None}, index : Contents \cup {None}]
  BY DEF MemberDocuments, DocumentRow, DocumentIndexRow
<1> QED
  BY <1>1, <1>2 DEF SignalInput, SignalInputs

\* So an invalidation writes well-typed rows.
LEMMA InvalidateTypes ==
  ASSUME TypeOK, NEW F, NEW index \in [Folders -> FolderIndexRow], NEW log,
         docSource' \in [Documents -> DocumentRow],
         docIndex' \in [Documents -> DocumentIndexRow],
         folderSource' \in [Folders -> FolderRow],
         Invalidate(F, index, log)
  PROVE  /\ folderIndex' \in [Folders -> FolderIndexRow]
         /\ folderSignals' \in [Folders -> SignalRows]
<1>1. \A f \in Folders : IndexInput(f)' \in IndexInputs /\ SignalInput(f)' \in SignalInputs
  BY InputTypes
<1>2. folderIndex' \in [Folders -> FolderIndexRow]
  BY <1>1 DEF Invalidate, FolderIndexRow
<1>3. folderSignals' \in [Folders -> SignalRows]
  BY DEF Invalidate, TypeOK, SignalRows
<1> QED
  BY <1>2, <1>3

\* Both ways to retract a document delete a well-typed row.
LEMMA RetractTypes ==
  ASSUME TypeOK, NEW d \in Documents, NEW row \in DocumentRow, Retract(d, row)
  PROVE  TypeOK'
<1>1. docSource' \in [Documents -> DocumentRow]
  BY DEF TypeOK, Retract, DocumentRow
<1>2. docIndex' \in [Documents -> DocumentIndexRow]
  BY DEF TypeOK, Retract, DocumentIndexRow
<1>3. member' \in [Documents -> SUBSET Folders]
  BY DEF TypeOK, Retract
<1>4. folderSource' \in [Folders -> FolderRow]
  BY DEF TypeOK, Retract
<1>5. /\ folderIndex' \in [Folders -> FolderIndexRow]
      /\ folderSignals' \in [Folders -> SignalRows]
  BY <1>1, <1>2, <1>4, InvalidateTypes DEF TypeOK, Retract
<1> QED
  BY <1>1, <1>2, <1>3, <1>4, <1>5 DEF TypeOK, Retract, hostVars

\* What the host does to its own record.
LEMMA HostTypes ==
  ASSUME NEW E, NEW host \in Host(E)
  PROVE  /\ \A edit \in E : Published(host, edit) \in Host(E)
         /\ Deleted(host) \in Host(E)
         /\ Restored(host) \in Host(E)
<1>1. host = [edits |-> host.edits, deleted |-> host.deleted,
              deletions |-> host.deletions, closed |-> host.closed]
  BY DEF Host
<1>2. host.edits \in Seq(E) /\ host.deletions \in Nat /\ host.closed \in Nat
  BY DEF Host
<1>3. ASSUME NEW edit \in E PROVE Published(host, edit) \in Host(E)
  <2>1. Append(host.edits, edit) \in Seq(E)
    BY <1>2
  <2> QED
    BY <1>1, <1>2, <2>1 DEF Published, Host
<1>4. Deleted(host) \in Host(E)
  <2>1. Len(host.edits) \in Nat /\ host.deletions + 1 \in Nat
    BY <1>2
  <2> QED
    BY <1>1, <1>2, <2>1 DEF Deleted, Host
<1>5. Restored(host) \in Host(E)
  BY <1>1, <1>2 DEF Restored, Host
<1> QED
  BY <1>3, <1>4, <1>5

LEMMA UpdatedAtTypes ==
  ASSUME NEW E, NEW edits \in Seq(E), \A e \in E : e.updatedAt \in Nat
  PROVE  NextUpdatedAt(edits) \subseteq Nat
<1>1. CASE edits = << >>
  BY <1>1 DEF NextUpdatedAt
<1>2. CASE edits # << >>
  <2>1. edits[Len(edits)] \in E
    BY <1>2
  <2> QED
    BY <1>2, <2>1 DEF NextUpdatedAt
<1> QED
  BY <1>1, <1>2

LEMMA HostStepTypes ==
  ASSUME TypeOK, HostStep
  PROVE  TypeOK'
<1>1. UNCHANGED <<docVars, folderVars, signalBuild>>
  BY DEF HostStep, PublishDocument, PublishFolder, HostDeletes, HostRestores
<1>2. /\ \A d \in Documents : hostDocs[d] \in Host(DocumentEdit)
      /\ \A f \in Folders : hostFolders[f] \in Host(FolderEdit)
  BY DEF TypeOK
<1>3. /\ \A d \in Documents : NextUpdatedAt(hostDocs[d].edits) \subseteq Nat
      /\ \A f \in Folders : NextUpdatedAt(hostFolders[f].edits) \subseteq Nat
  <2>1. \A d \in Documents : hostDocs[d].edits \in Seq(DocumentEdit)
    BY <1>2 DEF Host
  <2>2. \A f \in Folders : hostFolders[f].edits \in Seq(FolderEdit)
    BY <1>2 DEF Host
  <2>3. /\ \A edit \in DocumentEdit : edit.updatedAt \in Nat
        /\ \A edit \in FolderEdit : edit.updatedAt \in Nat
    BY DEF DocumentEdit, FolderEdit
  <2>4. \A d \in Documents : NextUpdatedAt(hostDocs[d].edits) \subseteq Nat
    BY <2>1, <2>3, UpdatedAtTypes
  <2>5. \A f \in Folders : NextUpdatedAt(hostFolders[f].edits) \subseteq Nat
    BY <2>2, <2>3, UpdatedAtTypes
  <2> QED
    BY <2>4, <2>5
<1>4. /\ hostDocs' \in [Documents -> Host(DocumentEdit)]
      /\ hostFolders' \in [Folders -> Host(FolderEdit)]
  <2>1. ASSUME NEW d \in Documents, NEW edit \in DocumentEdit, PublishDocument(d, edit)
        PROVE  <1>4!:
    BY <1>2, <2>1, HostTypes DEF PublishDocument, TypeOK
  <2>2. ASSUME NEW f \in Folders, NEW edit \in FolderEdit, PublishFolder(f, edit)
        PROVE  <1>4!:
    BY <1>2, <2>2, HostTypes DEF PublishFolder, TypeOK
  <2>3. CASE HostDeletes
    BY <1>2, <2>3, HostTypes DEF HostDeletes, TypeOK
  <2>4. CASE HostRestores
    BY <1>2, <2>4, HostTypes DEF HostRestores, TypeOK
  <2>5. ASSUME NEW d \in Documents, NEW c \in Contents, NEW F \in SUBSET Folders,
               NEW given \in BOOLEAN, NEW t \in NextUpdatedAt(hostDocs[d].edits)
        PROVE  [content |-> c, snapshot |-> given, folders |-> F, updatedAt |-> t]
                 \in DocumentEdit
    BY <1>3 DEF DocumentEdit
  <2>6. ASSUME NEW f \in Folders, NEW p \in Folders \cup {NoFolder}, NEW l \in Labels,
               NEW t \in NextUpdatedAt(hostFolders[f].edits)
        PROVE  [parent |-> p, label |-> l, updatedAt |-> t] \in FolderEdit
    BY <1>3 DEF FolderEdit
  <2> QED
    BY <2>1, <2>2, <2>3, <2>4, <2>5, <2>6 DEF HostStep
<1> QED
  BY <1>1, <1>4 DEF TypeOK, docVars, folderVars

LEMMA DocumentStepTypes ==
  ASSUME TypeOK, NEW d \in Documents, DocumentStep(d)
  PROVE  TypeOK'
<1>1. hostDocs[d].edits \in Seq(DocumentEdit)
  BY DEF TypeOK, Host
<1>2. ASSUME NEW v \in DOMAIN hostDocs[d].edits
      PROVE  /\ v \in Nat
             /\ hostDocs[d].edits[v] \in DocumentEdit
  BY <1>1
<1>3. ASSUME NEW v \in DOMAIN hostDocs[d].edits, NEW x \in Extractions, IndexDocument(d, v, x)
      PROVE  TypeOK'
  <2> DEFINE edit == hostDocs[d].edits[v]
  <2>1. v \in Nat /\ edit \in DocumentEdit
    BY <1>2
  <2>2. /\ edit.content \in Contents /\ edit.folders \in SUBSET Folders
        /\ edit.updatedAt \in Nat
    BY <2>1 DEF DocumentEdit
  <2> HIDE DEF edit
  <2>3. /\ docSource' = [docSource EXCEPT ![d] = [version |-> v, updatedAt |-> edit.updatedAt,
                                                 content |-> edit.content, live |-> TRUE]]
        /\ docIndex' = [docIndex EXCEPT ![d] = [input |-> edit.content, extraction |-> x,
                                               live |-> TRUE]]
        /\ member' = IF edit.snapshot THEN [member EXCEPT ![d] = edit.folders] ELSE member
        /\ folderSource' = folderSource
        /\ Invalidate(Ancestors(folderSource, member[d] \cup member'[d]), folderIndex, folderEvents)
        /\ UNCHANGED <<hostVars, signalBuild>>
    BY <1>3 DEF IndexDocument, edit
  <2>4. docSource' \in [Documents -> DocumentRow]
    BY <2>1, <2>2, <2>3 DEF TypeOK, DocumentRow
  <2>5. docIndex' \in [Documents -> DocumentIndexRow]
    BY <2>2, <2>3 DEF TypeOK, DocumentIndexRow
  <2>6. member' \in [Documents -> SUBSET Folders]
    BY <2>2, <2>3 DEF TypeOK
  <2>7. folderSource' \in [Folders -> FolderRow]
    BY <2>3 DEF TypeOK
  <2>8. /\ folderIndex' \in [Folders -> FolderIndexRow]
        /\ folderSignals' \in [Folders -> SignalRows]
    BY <2>3, <2>4, <2>5, <2>7, InvalidateTypes DEF TypeOK
  <2> QED
    BY <2>3, <2>4, <2>5, <2>6, <2>7, <2>8 DEF TypeOK, hostVars
<1>4. ASSUME NEW v \in DOMAIN hostDocs[d].edits, IndexBlankDocument(d, v)
      PROVE  TypeOK'
  <2>1. [version |-> v, updatedAt |-> hostDocs[d].edits[v].updatedAt, content |-> Blank,
         live |-> TRUE] \in DocumentRow
    BY <1>2, <1>4 DEF IndexBlankDocument, DocumentRow, DocumentEdit
  <2> QED
    BY <1>4, <2>1, RetractTypes DEF IndexBlankDocument
<1>5. CASE DeleteDocument(d)
  BY <1>5, RetractTypes DEF DeleteDocument, TypeOK
<1> QED
  BY <1>3, <1>4, <1>5 DEF DocumentStep

LEMMA FolderStepTypes ==
  ASSUME TypeOK, NEW f \in Folders, FolderStep(f)
  PROVE  TypeOK'
<1>1. ASSUME NEW v \in DOMAIN hostFolders[f].edits, IndexFolder(f, v)
      PROVE  TypeOK'
  <2> DEFINE edit == hostFolders[f].edits[v]
  <2>1. v \in Nat /\ edit \in FolderEdit
    <3>1. hostFolders[f].edits \in Seq(FolderEdit)
      BY DEF TypeOK, Host
    <3> QED
      BY <3>1
  <2>2. /\ edit.parent \in Folders \cup {NoFolder} /\ edit.label \in Labels
        /\ edit.updatedAt \in Nat
    BY <2>1 DEF FolderEdit
  <2> HIDE DEF edit
  <2>3. /\ folderSource' = [folderSource EXCEPT ![f] =
                              [version |-> v, updatedAt |-> edit.updatedAt,
                               parent |-> edit.parent, label |-> edit.label, live |-> TRUE]]
        /\ UNCHANGED <<docVars, hostVars, signalBuild>>
        /\ \E F, log : Invalidate(F, [folderIndex EXCEPT ![f].live = TRUE], log)
    BY <1>1 DEF IndexFolder, edit
  <2>4. folderSource' \in [Folders -> FolderRow]
    BY <2>1, <2>2, <2>3 DEF TypeOK, FolderRow
  <2>5. [folderIndex EXCEPT ![f].live = TRUE] \in [Folders -> FolderIndexRow]
    BY DEF TypeOK, FolderIndexRow
  <2>6. /\ folderIndex' \in [Folders -> FolderIndexRow]
        /\ folderSignals' \in [Folders -> SignalRows]
    BY <2>3, <2>4, <2>5, InvalidateTypes DEF TypeOK, docVars
  <2> QED
    BY <2>3, <2>4, <2>6 DEF TypeOK, docVars, hostVars
<1>2. CASE DeleteFolder(f)
  <2>1. folderSource' \in [Folders -> FolderRow]
    BY <1>2 DEF DeleteFolder, TypeOK, FolderRow
  <2>2. [folderIndex EXCEPT ![f].live = FALSE] \in [Folders -> FolderIndexRow]
    BY DEF TypeOK, FolderIndexRow
  <2>3. \E F, log : Invalidate(F, [folderIndex EXCEPT ![f].live = FALSE], log)
    BY <1>2 DEF DeleteFolder
  <2>4. UNCHANGED <<docVars, hostVars, signalBuild>>
    BY <1>2 DEF DeleteFolder
  <2>5. /\ folderIndex' \in [Folders -> FolderIndexRow]
        /\ folderSignals' \in [Folders -> SignalRows]
    BY <2>1, <2>2, <2>3, <2>4, InvalidateTypes DEF TypeOK, docVars
  <2> QED
    BY <2>1, <2>4, <2>5 DEF TypeOK, docVars, hostVars
<1>3. CASE StartFolderSignals(f)
  <2>1. folderIndex[f].signalInput \in SignalInputs
    BY DEF TypeOK, FolderIndexRow
  <2> QED
    BY <1>3, <2>1 DEF StartFolderSignals, TypeOK, hostVars, docVars, folderVars
<1>4. CASE ReplaceFolderSignals(f)
  <2>1. signalBuild' \in [Folders -> SignalInputs]
    BY <1>4 DEF ReplaceFolderSignals, TypeOK, SignalInputs
  <2>2. folderIndex' \in [Folders -> FolderIndexRow]
    <3>1. [folderIndex EXCEPT ![f].status = "ready"] \in [Folders -> FolderIndexRow]
      BY DEF TypeOK, FolderIndexRow
    <3>2. \/ folderIndex' = [folderIndex EXCEPT ![f].status = "ready"]
          \/ folderIndex' = folderIndex
      BY <1>4 DEF ReplaceFolderSignals
    <3> QED
      BY <3>1, <3>2 DEF TypeOK
  <2>3. folderSignals' \in [Folders -> SignalRows]
    <3>1. signalBuild[f] \in SignalInputs /\ signalBuild[f] # None
      BY <1>4 DEF ReplaceFolderSignals, TypeOK
    <3>2. {m.document : m \in signalBuild[f].members} \subseteq Documents
      BY <3>1 DEF SignalInputs
    <3>3. \A related \in SUBSET {m.document : m \in signalBuild[f].members} :
            [input |-> signalBuild[f], related |-> related] \in SignalRows
      BY <3>1, <3>2 DEF SignalRows
    <3> QED
      BY <1>4, <3>3 DEF ReplaceFolderSignals, TypeOK
  <2> QED
    BY <1>4, <2>1, <2>2, <2>3 DEF ReplaceFolderSignals, TypeOK, hostVars, docVars
<1> QED
  BY <1>1, <1>2, <1>3, <1>4 DEF FolderStep

LEMMA InitTypes == Init => TypeOK
BY DEF Init, TypeOK, NewHost, Host, DocumentRow, DocumentIndexRow, FolderRow, FolderIndexRow,
   IndexInputs, SignalInputs, SignalRows

LEMMA NextTypes == TypeOK /\ [Next]_vars => TypeOK'
<1> SUFFICES ASSUME TypeOK, [Next]_vars PROVE TypeOK'
  OBVIOUS
<1>1. CASE UNCHANGED vars
  BY <1>1 DEF TypeOK, vars, hostVars, docVars, folderVars
<1> QED
  BY <1>1, HostStepTypes, DocumentStepTypes, FolderStepTypes DEF Next

\* The tables always hold rows of their types.
THEOREM TypeCorrect == Spec => []TypeOK
BY InitTypes, NextTypes, PTL DEF Spec

-----------------------------------------------------------------------------
(***************************************************************************)
(* Fresh digests.  Each operation invalidates at least the folders whose   *)
(* inputs it changes.                                                      *)
(***************************************************************************)
LEMMA IndexDocumentRefreshes ==
  ASSUME TypeOK, ManifestConsistent, NEW d \in Documents, NEW v, NEW x,
         IndexDocument(d, v, x)
  PROVE  \E F, log : Refreshes(F, folderIndex, log)
<1> DEFINE F == Ancestors(folderSource, member[d] \cup member'[d])
<1>1. folderSource' = folderSource /\ Invalidate(F, folderIndex, folderEvents)
  BY DEF IndexDocument
<1>2. \A e \in Documents \ {d} : /\ docSource'[e] = docSource[e]
                               /\ docIndex'[e] = docIndex[e]
                               /\ member'[e] = member[e]
  BY DEF IndexDocument, TypeOK
<1>3. \A g \in Folders \ F : SameInputs(g)
  BY <1>1, <1>2, DocumentChangeReach
<1>4. \A g \in Folders : folderIndex[g].live \in BOOLEAN /\ folderIndex[g].live = Live(g)'
  BY <1>1 DEF ManifestConsistent, Live, TypeOK, FolderIndexRow
<1> QED
  BY <1>1, <1>3, <1>4 DEF Refreshes

LEMMA RetractRefreshes ==
  ASSUME TypeOK, ManifestConsistent, NEW d \in Documents, NEW row, Retract(d, row)
  PROVE  \E F, log : Refreshes(F, folderIndex, log)
<1> DEFINE R == {f \in Folders : folderSignals[f] # None /\ d \in folderSignals[f].related}
           F == Ancestors(folderSource, member[d] \cup R)
<1>1. folderSource' = folderSource /\ Invalidate(F, folderIndex, folderEvents)
  BY DEF Retract
<1>2. \A e \in Documents \ {d} : /\ docSource'[e] = docSource[e]
                               /\ docIndex'[e] = docIndex[e]
                               /\ member'[e] = member[e]
  BY DEF Retract, TypeOK
<1>3. member[d] \cup member'[d] \subseteq member[d] \cup R
  BY DEF Retract, TypeOK
<1>4. \A g \in Folders \ F : SameInputs(g)
  BY <1>1, <1>2, <1>3, DocumentChangeReach
<1>5. \A g \in Folders : folderIndex[g].live \in BOOLEAN /\ folderIndex[g].live = Live(g)'
  BY <1>1 DEF ManifestConsistent, Live, TypeOK, FolderIndexRow
<1> QED
  BY <1>1, <1>4, <1>5 DEF Refreshes

LEMMA IndexFolderRefreshes ==
  ASSUME TypeOK, ManifestConsistent, NEW f \in Folders, NEW v, IndexFolder(f, v)
  PROVE  \E F, index, log : Refreshes(F, index, log)
<1> DEFINE F == AffectedByUpsert(f, folderSource, folderSource')
           index == [folderIndex EXCEPT ![f].live = TRUE]
<1>1. UNCHANGED docVars /\ \E log : Invalidate(F, index, log)
  BY DEF IndexFolder
<1>2. /\ \A h \in Folders \ {f} : folderSource'[h] = folderSource[h]
      /\ folderSource'[f].live = TRUE
  BY DEF IndexFolder, TypeOK
<1>3. \A g \in Folders \ F : SameInputs(g)
  BY <1>1, <1>2, FolderUpsertReach
<1>4. f \in F
  BY DEF AffectedByUpsert
<1>5. \A g \in Folders \ F : index[g] = folderIndex[g]
  BY <1>4 DEF TypeOK
<1>6. ASSUME NEW g \in Folders
      PROVE  index[g].live \in BOOLEAN /\ index[g].live = Live(g)'
  <2>1. CASE g = f
    BY <1>2, <2>1 DEF Live, TypeOK, FolderIndexRow
  <2>2. CASE g # f
    BY <1>2, <2>2 DEF ManifestConsistent, Live, TypeOK, FolderIndexRow
  <2> QED
    BY <2>1, <2>2
<1> QED
  BY <1>1, <1>3, <1>5, <1>6 DEF Refreshes

LEMMA DeleteFolderRefreshes ==
  ASSUME TypeOK, ManifestConsistent, NEW f \in Folders, DeleteFolder(f)
  PROVE  \E F, index, log : Refreshes(F, index, log)
<1> DEFINE F == Ancestors(folderSource, {f})
           index == [folderIndex EXCEPT ![f].live = FALSE]
<1>1. UNCHANGED docVars /\ Live(f) /\ \E log : Invalidate(F, index, log)
  BY DEF DeleteFolder
<1>2. /\ \A h \in Folders \ {f} : folderSource'[h] = folderSource[h]
      /\ folderSource'[f].live = FALSE
  BY DEF DeleteFolder, TypeOK, FolderRow
<1>3. \A g \in Folders \ F : SameInputs(g)
  BY <1>1, <1>2, FolderDeletionReach DEF Live
<1>4. f \in F
  BY <1>1, AncestorsHoldSeeds DEF Live
<1>5. \A g \in Folders \ F : index[g] = folderIndex[g]
  BY <1>4 DEF TypeOK
<1>6. ASSUME NEW g \in Folders
      PROVE  index[g].live \in BOOLEAN /\ index[g].live = Live(g)'
  <2>1. CASE g = f
    BY <1>2, <2>1 DEF Live, TypeOK, FolderIndexRow
  <2>2. CASE g # f
    BY <1>2, <2>2 DEF ManifestConsistent, Live, TypeOK, FolderIndexRow
  <2> QED
    BY <2>1, <2>2
<1> QED
  BY <1>1, <1>3, <1>5, <1>6 DEF Refreshes

\* An invalidation that reaches far enough leaves digests and signals right.
LEMMA RefreshesKeep ==
  ASSUME TypeOK, FolderDigestsFresh, ReadySignalsAreCurrent,
         \E F, index, log : Refreshes(F, index, log)
  PROVE  /\ FolderDigestsFresh'
         /\ ReadySignalsAreCurrent'
         /\ \A f \in Folders : folderIndex'[f].live = Live(f)'
<1> PICK F, index, log : Refreshes(F, index, log)
  OBVIOUS
<1>1. ASSUME NEW f \in Folders, f \in F, index[f].live
      PROVE  /\ folderIndex'[f].live = TRUE /\ folderIndex'[f].status = "pending"
             /\ folderIndex'[f].indexInput = IndexInput(f)'
             /\ folderIndex'[f].signalInput = SignalInput(f)'
             /\ folderSignals'[f] = None
  BY <1>1 DEF Refreshes, Invalidate
<1>2. ASSUME NEW f \in Folders, f \in F, ~index[f].live
      PROVE  folderIndex'[f] = index[f] /\ folderSignals'[f] = None
  BY <1>2 DEF Refreshes, Invalidate
<1>3. ASSUME NEW f \in Folders, f \notin F
      PROVE  /\ folderIndex'[f] = folderIndex[f] /\ folderSignals'[f] = folderSignals[f]
             /\ IndexInput(f)' = IndexInput(f) /\ SignalInput(f)' = SignalInput(f)
  BY <1>3 DEF Refreshes, Invalidate, SameInputs
<1>4. ASSUME NEW f \in Folders, folderIndex'[f].live
      PROVE  /\ folderIndex'[f].indexInput = IndexInput(f)'
             /\ folderIndex'[f].signalInput = SignalInput(f)'
  <2>1. CASE f \in F /\ index[f].live
    BY <1>1, <2>1
  <2>2. CASE f \in F /\ ~index[f].live
    BY <1>2, <1>4, <2>2
  <2>3. CASE f \notin F
    BY <1>3, <1>4, <2>3 DEF FolderDigestsFresh
  <2> QED
    BY <2>1, <2>2, <2>3
<1>5. ASSUME NEW f \in Folders
      PROVE  IF folderIndex'[f].live /\ folderIndex'[f].status = "ready"
             THEN folderSignals'[f].input = SignalInput(f)'
             ELSE folderSignals'[f] = None
  <2>1. CASE f \in F /\ index[f].live
    BY <1>1, <2>1
  <2>2. CASE f \in F /\ ~index[f].live
    BY <1>2, <2>2
  <2>3. CASE f \notin F
    BY <1>3, <2>3 DEF ReadySignalsAreCurrent
  <2> QED
    BY <2>1, <2>2, <2>3
<1>6. ASSUME NEW f \in Folders
      PROVE  folderIndex'[f].live = Live(f)'
  <2>1. index[f].live \in BOOLEAN /\ index[f].live = Live(f)'
    BY DEF Refreshes
  <2>2. CASE f \in F /\ index[f].live
    BY <1>1, <2>1, <2>2
  <2>3. CASE f \in F /\ ~index[f].live
    BY <1>2, <2>1, <2>3
  <2>4. CASE f \notin F
    BY <1>3, <2>1, <2>4 DEF Refreshes
  <2> QED
    BY <2>2, <2>3, <2>4
<1>7. FolderDigestsFresh'
  BY <1>4 DEF FolderDigestsFresh
<1>8. ReadySignalsAreCurrent'
  BY <1>5 DEF ReadySignalsAreCurrent
<1> QED
  BY <1>6, <1>7, <1>8

(***************************************************************************)
(* The inductive invariant.                                                *)
(***************************************************************************)
ManifestInv ==
  TypeOK /\ ManifestConsistent /\ FolderDigestsFresh /\ ReadySignalsAreCurrent

DocumentRowsAgree(d) ==
  /\ docIndex[d].live = docSource[d].live
  /\ docSource[d].live => docIndex[d].input = docSource[d].content
  /\ ~docSource[d].live => member[d] = {}

LEMMA InitInv == Init => ManifestInv
<1> SUFFICES ASSUME Init PROVE ManifestInv
  OBVIOUS
<1>1. /\ \A f \in Folders : ~folderIndex[f].live /\ folderIndex[f].live = Live(f)
      /\ \A f \in Folders : folderSignals[f] = None
  BY DEF Init, Live
<1>2. \A d \in Documents : DocumentRowsAgree(d)
  BY DEF Init, DocumentRowsAgree
<1> QED
  BY <1>1, <1>2, InitTypes
     DEF ManifestInv, ManifestConsistent, FolderDigestsFresh, ReadySignalsAreCurrent,
         DocumentRowsAgree

\* A step that leaves every table alone, as the host's do, leaves the invariant alone.
LEMMA TablesUnchanged ==
  ASSUME ManifestInv, TypeOK', UNCHANGED <<docVars, folderVars>>
  PROVE  ManifestInv'
<1>1. \A f \in Folders : SameInputs(f) /\ Live(f)' = Live(f)
  BY SameSubtreeSameInputs DEF folderVars, Live
<1>2. /\ FolderDigestsFresh' /\ ReadySignalsAreCurrent'
  BY <1>1 DEF ManifestInv, FolderDigestsFresh, ReadySignalsAreCurrent, SameInputs, folderVars
<1>3. ManifestConsistent'
  BY <1>1 DEF ManifestInv, ManifestConsistent, folderVars, docVars
<1> QED
  BY <1>2, <1>3 DEF ManifestInv

LEMMA DocumentStepKeepsInv ==
  ASSUME ManifestInv, NEW d \in Documents, DocumentStep(d)
  PROVE  ManifestInv'
<1> USE DEF ManifestInv
<1>1. TypeOK'
  BY DocumentStepTypes
<1>2. \E F, index, log : Refreshes(F, index, log)
  BY IndexDocumentRefreshes, RetractRefreshes
     DEF DocumentStep, IndexBlankDocument, DeleteDocument
<1>3. \A e \in Documents : DocumentRowsAgree(e)'
  <2>1. \A e \in Documents : DocumentRowsAgree(e)
    BY DEF ManifestConsistent, DocumentRowsAgree
  <2>2. ASSUME NEW v, NEW x, IndexDocument(d, v, x)
        PROVE  \A e \in Documents : DocumentRowsAgree(e)'
    <3>1. /\ docSource'[d].live = TRUE /\ docIndex'[d].live = TRUE
          /\ docIndex'[d].input = docSource'[d].content
      BY <2>2 DEF IndexDocument, TypeOK
    <3>2. \A e \in Documents \ {d} : /\ docSource'[e] = docSource[e]
                                   /\ docIndex'[e] = docIndex[e]
                                   /\ member'[e] = member[e]
      BY <2>2 DEF IndexDocument, TypeOK
    <3> SUFFICES ASSUME NEW e \in Documents PROVE DocumentRowsAgree(e)'
      OBVIOUS
    <3>3. CASE e = d
      BY <3>1, <3>3 DEF DocumentRowsAgree
    <3>4. CASE e # d
      BY <2>1, <3>2, <3>4 DEF DocumentRowsAgree
    <3> QED
      BY <3>3, <3>4
  <2>3. ASSUME NEW row, Retract(d, row), row \in DocumentRow
        PROVE  \A e \in Documents : DocumentRowsAgree(e)'
    <3>1. docSource'[d].live = FALSE /\ docIndex'[d].live = FALSE /\ member'[d] = {}
      BY <2>3 DEF Retract, TypeOK, DocumentRow, DocumentIndexRow
    <3>2. \A e \in Documents \ {d} : /\ docSource'[e] = docSource[e]
                                   /\ docIndex'[e] = docIndex[e]
                                   /\ member'[e] = member[e]
      BY <2>3 DEF Retract, TypeOK
    <3> SUFFICES ASSUME NEW e \in Documents PROVE DocumentRowsAgree(e)'
      OBVIOUS
    <3>3. CASE e = d
      BY <3>1, <3>3 DEF DocumentRowsAgree
    <3>4. CASE e # d
      BY <2>1, <3>2, <3>4 DEF DocumentRowsAgree
    <3> QED
      BY <3>3, <3>4
  <2>4. ASSUME NEW v \in DOMAIN hostDocs[d].edits, IndexBlankDocument(d, v)
        PROVE  \E row \in DocumentRow : Retract(d, row)
    <3>1. hostDocs[d].edits \in Seq(DocumentEdit)
      BY DEF TypeOK, Host
    <3>2. v \in Nat /\ hostDocs[d].edits[v] \in DocumentEdit
      BY <3>1, <2>4
    <3>3. [version |-> v, updatedAt |-> hostDocs[d].edits[v].updatedAt, content |-> Blank,
           live |-> TRUE] \in DocumentRow
      BY <2>4, <3>2 DEF IndexBlankDocument, DocumentEdit, DocumentRow
    <3> QED
      BY <2>4, <3>3 DEF IndexBlankDocument
  <2>5. DeleteDocument(d) => \E row \in DocumentRow : Retract(d, row)
    BY DEF DeleteDocument, TypeOK
  <2> QED
    BY <2>2, <2>3, <2>4, <2>5 DEF DocumentStep
<1>4. ManifestConsistent'
  BY <1>2, <1>3, RefreshesKeep DEF ManifestConsistent, DocumentRowsAgree
<1> QED
  BY <1>1, <1>2, <1>4, RefreshesKeep

LEMMA FolderStepKeepsInv ==
  ASSUME ManifestInv, NEW f \in Folders, FolderStep(f)
  PROVE  ManifestInv'
<1> USE DEF ManifestInv
<1>1. TypeOK'
  BY FolderStepTypes
<1>2. ASSUME (\E v \in DOMAIN hostFolders[f].edits : IndexFolder(f, v)) \/ DeleteFolder(f)
      PROVE  ManifestInv'
  <2>1. \E F, index, log : Refreshes(F, index, log)
    BY <1>2, IndexFolderRefreshes, DeleteFolderRefreshes
  <2>2. UNCHANGED docVars
    BY <1>2 DEF IndexFolder, DeleteFolder
  <2>3. ManifestConsistent'
    BY <2>1, <2>2, RefreshesKeep DEF ManifestConsistent, docVars
  <2> QED
    BY <1>1, <2>1, <2>3, RefreshesKeep
<1>3. CASE StartFolderSignals(f)
  BY <1>1, <1>3, TablesUnchanged DEF StartFolderSignals
<1>4. CASE ReplaceFolderSignals(f) /\ ~StillCurrent(f, signalBuild[f])
  BY <1>1, <1>4, TablesUnchanged DEF ReplaceFolderSignals, docVars, folderVars
<1>5. CASE ReplaceFolderSignals(f) /\ StillCurrent(f, signalBuild[f])
  <2>1. \A g \in Folders : SameInputs(g) /\ Live(g)' = Live(g)
    BY <1>5, SameSubtreeSameInputs DEF ReplaceFolderSignals, docVars, Live
  <2>2. /\ \A g \in Folders \ {f} : /\ folderIndex'[g] = folderIndex[g]
                                  /\ folderSignals'[g] = folderSignals[g]
        /\ folderIndex'[f] = [folderIndex[f] EXCEPT !.status = "ready"]
        /\ folderSignals'[f].input = signalBuild[f]
    BY <1>5 DEF ReplaceFolderSignals, TypeOK
  <2>3. /\ folderIndex'[f].live = folderIndex[f].live /\ folderIndex'[f].status = "ready"
        /\ folderIndex'[f].indexInput = folderIndex[f].indexInput
        /\ folderIndex'[f].signalInput = folderIndex[f].signalInput
    BY <2>2 DEF TypeOK, FolderIndexRow
  <2>4. /\ folderIndex[f].live /\ folderIndex[f].signalInput = signalBuild[f]
        /\ folderIndex[f].signalInput = SignalInput(f)
    BY <1>5 DEF StillCurrent, FolderDigestsFresh
  <2>5. FolderDigestsFresh'
    <3>1. ASSUME NEW g \in Folders, folderIndex'[g].live
          PROVE  /\ folderIndex'[g].indexInput = IndexInput(g)'
                 /\ folderIndex'[g].signalInput = SignalInput(g)'
      <4>1. /\ folderIndex[g].live
            /\ folderIndex'[g].indexInput = folderIndex[g].indexInput
            /\ folderIndex'[g].signalInput = folderIndex[g].signalInput
        BY <2>2, <2>3, <3>1
      <4> QED
        BY <2>1, <4>1 DEF FolderDigestsFresh, SameInputs
    <3> QED
      BY <3>1 DEF FolderDigestsFresh
  <2>6. ReadySignalsAreCurrent'
    <3>1. ASSUME NEW g \in Folders
          PROVE  IF folderIndex'[g].live /\ folderIndex'[g].status = "ready"
                 THEN folderSignals'[g].input = SignalInput(g)'
                 ELSE folderSignals'[g] = None
      <4>1. CASE g = f
        BY <2>1, <2>2, <2>3, <2>4, <4>1 DEF SameInputs
      <4>2. CASE g # f
        BY <2>1, <2>2, <4>2 DEF ReadySignalsAreCurrent, SameInputs
      <4> QED
        BY <4>1, <4>2
    <3> QED
      BY <3>1 DEF ReadySignalsAreCurrent
  <2>7. ManifestConsistent'
    BY <1>5, <2>1, <2>2, <2>3 DEF ReplaceFolderSignals, ManifestConsistent, docVars
  <2> QED
    BY <1>1, <2>5, <2>6, <2>7
<1> QED
  BY <1>2, <1>3, <1>4, <1>5 DEF FolderStep

LEMMA NextInv == ManifestInv /\ [Next]_vars => ManifestInv'
<1> SUFFICES ASSUME ManifestInv, [Next]_vars PROVE ManifestInv'
  OBVIOUS
<1>1. TypeOK'
  BY NextTypes DEF ManifestInv
<1>2. CASE UNCHANGED vars
  BY <1>1, <1>2, TablesUnchanged DEF vars
<1>3. CASE HostStep
  <2>1. UNCHANGED <<docVars, folderVars>>
    BY <1>3 DEF HostStep, PublishDocument, PublishFolder, HostDeletes, HostRestores
  <2> QED
    BY <1>1, <2>1, TablesUnchanged
<1> QED
  BY <1>2, <1>3, DocumentStepKeepsInv, FolderStepKeepsInv DEF Next

THEOREM ManifestInvariant == Spec => []ManifestInv
BY InitInv, NextInv, PTL DEF Spec

\* Whatever the tree, the documents and the order of the host's calls, a live
\* folder's stored digests are those of its current subtree.
THEOREM DigestsFresh == Spec => []FolderDigestsFresh
<1>1. ManifestInv => FolderDigestsFresh
  BY DEF ManifestInv
<1> QED
  BY <1>1, ManifestInvariant, PTL

\* Folder signals that are served were built from the current subtree.
THEOREM ReadySignalsCurrent == Spec => []ReadySignalsAreCurrent
<1>1. ManifestInv => ReadySignalsAreCurrent
  BY DEF ManifestInv
<1> QED
  BY <1>1, ManifestInvariant, PTL

\* The rows of a source are always of one mind.
THEOREM RowsConsistent == Spec => []ManifestConsistent
<1>1. ManifestInv => ManifestConsistent
  BY DEF ManifestInv
<1> QED
  BY <1>1, ManifestInvariant, PTL

-----------------------------------------------------------------------------
(***************************************************************************)
(* Sources never go back.  The rows carry the updated_at of the version    *)
(* they hold, and the host's updated_at never decreases, ties included.    *)
(***************************************************************************)
Ordered(edits) ==
  \A i, j \in 1..Len(edits) : i <= j => edits[i].updatedAt <= edits[j].updatedAt

VersionAgrees(host, row) ==
  /\ row.version \in 0..Len(host.edits)
  /\ row.version > 0 => row.updatedAt = host.edits[row.version].updatedAt
  /\ Ordered(host.edits)

VersionInv ==
  /\ TypeOK
  /\ \A d \in Documents : VersionAgrees(hostDocs[d], docSource[d])
  /\ \A f \in Folders : VersionAgrees(hostFolders[f], folderSource[f])

\* A request that supersedes a row does not carry an older version.
LEMMA SupersedesForward ==
  ASSUME NEW E, \A e \in E : e.updatedAt \in Nat, NEW host \in Host(E), NEW row,
         row.updatedAt \in Nat, VersionAgrees(host, row), NEW v \in DOMAIN host.edits,
         Supersedes(v, host.edits[v].updatedAt, row)
  PROVE  v >= row.version
<1>1. host.edits \in Seq(E)
  BY DEF Host
<1>2. v \in 1..Len(host.edits) /\ row.version \in 0..Len(host.edits) /\ Len(host.edits) \in Nat
  BY <1>1 DEF VersionAgrees
<1>3. CASE row.version = v
  BY <1>2, <1>3
<1>4. ASSUME row.updatedAt < host.edits[v].updatedAt, row.version > v PROVE FALSE
  <2>1. /\ row.version \in 1..Len(host.edits) /\ v <= row.version
    BY <1>2, <1>4
  <2>2. host.edits[v].updatedAt <= host.edits[row.version].updatedAt
    BY <1>2, <2>1 DEF VersionAgrees, Ordered
  <2>3. host.edits[v] \in E
    BY <1>1, <1>2
  <2> QED
    BY <1>4, <2>1, <2>2, <2>3 DEF VersionAgrees
<1> QED
  BY <1>2, <1>3, <1>4 DEF Supersedes

\* Publishing keeps the host's versions in order and its rows in place.
LEMMA PublishKeepsVersions ==
  ASSUME NEW E, \A e \in E : e.updatedAt \in Nat, NEW host \in Host(E), NEW row,
         VersionAgrees(host, row), NEW edit \in E,
         edit.updatedAt \in NextUpdatedAt(host.edits)
  PROVE  VersionAgrees(Published(host, edit), row)
<1> DEFINE old == host.edits
           new == Append(host.edits, edit)
<1>1. old \in Seq(E)
  BY DEF Host
<1>2. /\ Len(new) = Len(old) + 1 /\ Len(old) \in Nat
      /\ \A i \in 1..Len(old) : new[i] = old[i] /\ old[i] \in E
      /\ new[Len(new)] = edit
  BY <1>1
<1>3. Published(host, edit).edits = new
  BY DEF Published, Host
<1>4. \A i \in 1..Len(old) : old[i].updatedAt <= edit.updatedAt
  <2> SUFFICES ASSUME NEW i \in 1..Len(old) PROVE old[i].updatedAt <= edit.updatedAt
    OBVIOUS
  <2>1. old # << >> /\ Len(old) \in 1..Len(old)
    BY <1>1
  <2>2. old[i].updatedAt <= old[Len(old)].updatedAt
    BY <2>1 DEF VersionAgrees, Ordered
  <2>3. edit.updatedAt >= old[Len(old)].updatedAt
    BY <1>2, <2>1 DEF NextUpdatedAt
  <2> QED
    BY <1>2, <2>1, <2>2, <2>3
<1>5. Ordered(new)
  <2> SUFFICES ASSUME NEW i \in 1..Len(new), NEW j \in 1..Len(new), i <= j
               PROVE  new[i].updatedAt <= new[j].updatedAt
    BY DEF Ordered
  <2>1. CASE j \in 1..Len(old)
    <3>1. i \in 1..Len(old)
      BY <1>2, <2>1
    <3> QED
      BY <1>2, <2>1, <3>1 DEF VersionAgrees, Ordered
  <2>2. CASE j = Len(new) /\ i \in 1..Len(old)
    BY <1>2, <1>4, <2>2
  <2>3. CASE j = Len(new) /\ i = Len(new)
    BY <1>2, <2>3
  <2> QED
    BY <1>2, <2>1, <2>2, <2>3
<1> HIDE DEF new
<1>6. row.version \in 0..Len(new)
  BY <1>2 DEF VersionAgrees
<1>7. row.version > 0 => row.updatedAt = new[row.version].updatedAt
  BY <1>2 DEF VersionAgrees
<1> QED
  BY <1>3, <1>5, <1>6, <1>7 DEF VersionAgrees

LEMMA HostKeepsVersions ==
  ASSUME VersionInv, HostStep
  PROVE  /\ \A d \in Documents : VersionAgrees(hostDocs'[d], docSource[d])
         /\ \A f \in Folders : VersionAgrees(hostFolders'[f], folderSource[f])
<1> USE DEF VersionInv
<1>1. /\ \A d \in Documents : hostDocs[d] \in Host(DocumentEdit)
      /\ \A f \in Folders : hostFolders[f] \in Host(FolderEdit)
      /\ \A e \in DocumentEdit : e.updatedAt \in Nat
      /\ \A e \in FolderEdit : e.updatedAt \in Nat
  BY DEF TypeOK, DocumentEdit, FolderEdit
<1>2. ASSUME NEW E, NEW host \in Host(E), NEW row, VersionAgrees(host, row)
      PROVE  VersionAgrees(Deleted(host), row) /\ VersionAgrees(Restored(host), row)
  <2>1. Deleted(host).edits = host.edits /\ Restored(host).edits = host.edits
    BY DEF Deleted, Restored, Host
  <2> QED
    BY <1>2, <2>1 DEF VersionAgrees
<1>3. ASSUME NEW d \in Documents, NEW c \in Contents, NEW F \in SUBSET Folders,
             NEW given \in BOOLEAN, NEW t \in NextUpdatedAt(hostDocs[d].edits),
             PublishDocument(d, [content |-> c, snapshot |-> given, folders |-> F,
                                 updatedAt |-> t])
      PROVE  \A e \in Documents : VersionAgrees(hostDocs'[e], docSource[e])
  <2> DEFINE edit == [content |-> c, snapshot |-> given, folders |-> F, updatedAt |-> t]
  <2>1. t \in Nat
    <3>1. hostDocs[d].edits \in Seq(DocumentEdit)
      BY <1>1 DEF Host
    <3> QED
      BY <1>1, <3>1, UpdatedAtTypes
  <2>2. edit \in DocumentEdit /\ edit.updatedAt \in NextUpdatedAt(hostDocs[d].edits)
    BY <2>1 DEF DocumentEdit
  <2>3. hostDocs' = [hostDocs EXCEPT ![d] = Published(hostDocs[d], edit)]
    BY <1>3 DEF PublishDocument
  <2> HIDE DEF edit
  <2>4. VersionAgrees(Published(hostDocs[d], edit), docSource[d])
    BY <1>1, <2>2, PublishKeepsVersions
  <2> QED
    BY <2>3, <2>4 DEF TypeOK
<1>4. ASSUME NEW f \in Folders, NEW p \in Folders \cup {NoFolder}, NEW l \in Labels,
             NEW t \in NextUpdatedAt(hostFolders[f].edits),
             PublishFolder(f, [parent |-> p, label |-> l, updatedAt |-> t])
      PROVE  \A g \in Folders : VersionAgrees(hostFolders'[g], folderSource[g])
  <2> DEFINE edit == [parent |-> p, label |-> l, updatedAt |-> t]
  <2>1. t \in Nat
    <3>1. hostFolders[f].edits \in Seq(FolderEdit)
      BY <1>1 DEF Host
    <3> QED
      BY <1>1, <3>1, UpdatedAtTypes
  <2>2. edit \in FolderEdit /\ edit.updatedAt \in NextUpdatedAt(hostFolders[f].edits)
    BY <2>1 DEF FolderEdit
  <2>3. hostFolders' = [hostFolders EXCEPT ![f] = Published(hostFolders[f], edit)]
    BY <1>4 DEF PublishFolder
  <2> HIDE DEF edit
  <2>4. VersionAgrees(Published(hostFolders[f], edit), folderSource[f])
    BY <1>1, <2>2, PublishKeepsVersions
  <2> QED
    BY <2>3, <2>4 DEF TypeOK
<1>5. CASE HostDeletes \/ HostRestores
  BY <1>1, <1>2, <1>5 DEF HostDeletes, HostRestores, TypeOK
<1>6. /\ \A d, edit : PublishDocument(d, edit) => UNCHANGED hostFolders
      /\ \A f, edit : PublishFolder(f, edit) => UNCHANGED hostDocs
  BY DEF PublishDocument, PublishFolder
<1> QED
  BY <1>3, <1>4, <1>5, <1>6 DEF HostStep

\* A document step replaces one row, by the requested version or by its own.
LEMMA DocumentStepVersions ==
  ASSUME VersionInv, NEW d \in Documents, DocumentStep(d)
  PROVE  /\ \A e \in Documents : /\ VersionAgrees(hostDocs[e], docSource'[e])
                                /\ docSource'[e].version >= docSource[e].version
         /\ UNCHANGED <<hostVars, folderSource>>
<1> USE DEF VersionInv
<1>1. /\ hostDocs[d] \in Host(DocumentEdit) /\ docSource[d].updatedAt \in Nat
      /\ \A e \in DocumentEdit : e.updatedAt \in Nat
      /\ \A e \in Documents : docSource[e].version \in Nat
      /\ hostDocs[d].edits \in Seq(DocumentEdit)
  BY DEF TypeOK, DocumentEdit, DocumentRow, Host
<1>2. ASSUME NEW v \in DOMAIN hostDocs[d].edits,
             Supersedes(v, hostDocs[d].edits[v].updatedAt, docSource[d]),
             docSource'[d].version = v,
             docSource'[d].updatedAt = hostDocs[d].edits[v].updatedAt
      PROVE  /\ VersionAgrees(hostDocs[d], docSource'[d])
             /\ docSource'[d].version >= docSource[d].version
  <2>1. v >= docSource[d].version
    BY <1>1, <1>2, SupersedesForward
  <2>2. v \in 1..Len(hostDocs[d].edits) /\ v \in 0..Len(hostDocs[d].edits)
    BY <1>1
  <2> QED
    BY <1>2, <2>1, <2>2 DEF VersionAgrees
<1>3. /\ \A e \in Documents \ {d} : docSource'[e] = docSource[e]
      /\ UNCHANGED <<hostVars, folderSource>>
  BY DEF DocumentStep, IndexDocument, IndexBlankDocument, DeleteDocument, Retract, TypeOK
<1>4. /\ VersionAgrees(hostDocs[d], docSource'[d])
      /\ docSource'[d].version >= docSource[d].version
  <2>1. ASSUME NEW v \in DOMAIN hostDocs[d].edits, NEW x, IndexDocument(d, v, x)
        PROVE  <1>4!:
    BY <1>2, <2>1 DEF IndexDocument, TypeOK
  <2>2. ASSUME NEW v \in DOMAIN hostDocs[d].edits, IndexBlankDocument(d, v)
        PROVE  <1>4!:
    BY <1>2, <2>2 DEF IndexBlankDocument, Retract, TypeOK
  <2>3. CASE DeleteDocument(d)
    <3>1. /\ docSource'[d].version = docSource[d].version
          /\ docSource'[d].updatedAt = docSource[d].updatedAt
      BY <2>3 DEF DeleteDocument, Retract, TypeOK, DocumentRow
    <3> QED
      BY <1>1, <3>1 DEF VersionAgrees
  <2> QED
    BY <2>1, <2>2, <2>3 DEF DocumentStep
<1> QED
  BY <1>1, <1>3, <1>4

LEMMA FolderStepVersions ==
  ASSUME VersionInv, NEW f \in Folders, FolderStep(f)
  PROVE  /\ \A g \in Folders : /\ VersionAgrees(hostFolders[g], folderSource'[g])
                              /\ folderSource'[g].version >= folderSource[g].version
         /\ UNCHANGED <<hostVars, docSource>>
<1> USE DEF VersionInv
<1>1. /\ hostFolders[f] \in Host(FolderEdit) /\ folderSource[f].updatedAt \in Nat
      /\ \A e \in FolderEdit : e.updatedAt \in Nat
      /\ \A g \in Folders : folderSource[g].version \in Nat
      /\ hostFolders[f].edits \in Seq(FolderEdit)
  BY DEF TypeOK, FolderEdit, FolderRow, Host
<1>2. /\ \A g \in Folders \ {f} : folderSource'[g] = folderSource[g]
      /\ UNCHANGED <<hostVars, docSource>>
  BY DEF FolderStep, IndexFolder, DeleteFolder, StartFolderSignals, ReplaceFolderSignals,
         TypeOK, docVars, folderVars
<1>3. ASSUME NEW v \in DOMAIN hostFolders[f].edits, IndexFolder(f, v)
      PROVE  /\ VersionAgrees(hostFolders[f], folderSource'[f])
             /\ folderSource'[f].version >= folderSource[f].version
  <2>1. v >= folderSource[f].version
    BY <1>1, <1>3, SupersedesForward DEF IndexFolder
  <2>2. v \in 1..Len(hostFolders[f].edits) /\ v \in 0..Len(hostFolders[f].edits)
    BY <1>1
  <2>3. /\ folderSource'[f].version = v
        /\ folderSource'[f].updatedAt = hostFolders[f].edits[v].updatedAt
    BY <1>3 DEF IndexFolder, TypeOK
  <2> QED
    BY <2>1, <2>2, <2>3 DEF VersionAgrees
<1>4. ASSUME DeleteFolder(f) \/ StartFolderSignals(f) \/ ReplaceFolderSignals(f)
      PROVE  /\ VersionAgrees(hostFolders[f], folderSource'[f])
             /\ folderSource'[f].version >= folderSource[f].version
  <2>1. /\ folderSource'[f].version = folderSource[f].version
        /\ folderSource'[f].updatedAt = folderSource[f].updatedAt
    BY <1>4 DEF DeleteFolder, StartFolderSignals, ReplaceFolderSignals, folderVars,
                TypeOK, FolderRow
  <2> QED
    BY <1>1, <2>1 DEF VersionAgrees
<1> QED
  BY <1>1, <1>2, <1>3, <1>4 DEF FolderStep

LEMMA InitVersions == Init => VersionInv
<1> SUFFICES ASSUME Init PROVE VersionInv
  OBVIOUS
<1>1. /\ \A d \in Documents : hostDocs[d].edits = << >> /\ docSource[d].version = 0
      /\ \A f \in Folders : hostFolders[f].edits = << >> /\ folderSource[f].version = 0
  BY DEF Init, NewHost
<1> QED
  BY <1>1, InitTypes DEF VersionInv, VersionAgrees, Ordered

GoForward ==
  /\ \A d \in Documents : docSource'[d].version >= docSource[d].version
  /\ \A f \in Folders : folderSource'[f].version >= folderSource[f].version

LEMMA NextVersions == VersionInv /\ [Next]_vars => VersionInv' /\ GoForward
<1> SUFFICES ASSUME VersionInv, [Next]_vars PROVE VersionInv' /\ GoForward
  OBVIOUS
<1>1. TypeOK'
  BY NextTypes DEF VersionInv
<1>2. /\ \A d \in Documents : docSource[d].version >= docSource[d].version
      /\ \A f \in Folders : folderSource[f].version >= folderSource[f].version
  BY DEF VersionInv, TypeOK, DocumentRow, FolderRow
<1>3. CASE UNCHANGED vars
  BY <1>1, <1>2, <1>3 DEF VersionInv, vars, hostVars, docVars, folderVars, GoForward
<1>4. CASE HostStep
  <2>1. UNCHANGED <<docVars, folderVars>>
    BY <1>4 DEF HostStep, PublishDocument, PublishFolder, HostDeletes, HostRestores
  <2> QED
    BY <1>1, <1>2, <1>4, <2>1, HostKeepsVersions DEF VersionInv, docVars, folderVars, GoForward
<1>5. ASSUME NEW d \in Documents, DocumentStep(d) PROVE VersionInv' /\ GoForward
  BY <1>1, <1>2, <1>5, DocumentStepVersions DEF VersionInv, hostVars, GoForward
<1>6. ASSUME NEW f \in Folders, FolderStep(f) PROVE VersionInv' /\ GoForward
  BY <1>1, <1>2, <1>6, FolderStepVersions DEF VersionInv, hostVars, GoForward
<1> QED
  BY <1>3, <1>4, <1>5, <1>6 DEF Next

\* However calls are delayed, repeated, reordered or tied in updated_at, no source
\* row ever returns to an older version.
THEOREM NeverBack == Spec => SourcesNeverGoBack
<1>1. VersionInv /\ [Next]_vars => [GoForward]_vars
  BY NextVersions
<1>2. Spec => [][GoForward]_vars
  BY <1>1, InitVersions, NextVersions, PTL DEF Spec
<1> QED
  BY <1>2 DEF SourcesNeverGoBack, GoForward

-----------------------------------------------------------------------------
(***************************************************************************)
(* Logs.                                                                   *)
(***************************************************************************)
Has(log, e) == \E i \in DOMAIN log : log[i] = e

NoneOf(log, types) == \A i \in DOMAIN log : log[i].type \notin types

\* e is the last event of its types.
Ends(log, types, e) ==
  \E i \in DOMAIN log : /\ log[i] = e /\ e.type \in types
                        /\ \A j \in DOMAIN log : log[j].type \in types => j <= i

\* An event is logged once, and last.
LEMMA LoggedIsThere ==
  ASSUME NEW E, NEW log \in Seq(E), NEW e \in E
  PROVE  /\ Logged(log, e) \in Seq(E)
         /\ Has(Logged(log, e), e)
         /\ \A g : Has(log, g) => Has(Logged(log, e), g)
         /\ \A g : Has(Logged(log, e), g) => Has(log, g) \/ g = e
         /\ Has(log, e) => Logged(log, e) = log
<1>1. CASE Has(log, e)
  BY <1>1 DEF Has, Logged
<1>2. CASE ~Has(log, e)
  <2> DEFINE new == Append(log, e)
  <2>1. Logged(log, e) = new
    BY <1>2 DEF Has, Logged
  <2>2. /\ new \in Seq(E) /\ DOMAIN new = 1..Len(log) + 1 /\ DOMAIN log = 1..Len(log)
        /\ Len(log) \in Nat
        /\ new[Len(log) + 1] = e
        /\ \A i \in 1..Len(log) : new[i] = log[i]
    OBVIOUS
  <2> HIDE DEF new
  <2>3. Has(new, e)
    <3>1. Len(log) + 1 \in DOMAIN new
      BY <2>2
    <3> QED
      BY <2>2, <3>1 DEF Has
  <2>4. \A g : Has(log, g) => Has(new, g)
    <3>1. \A i \in 1..Len(log) : i \in DOMAIN new
      BY <2>2
    <3> QED
      BY <2>2, <3>1 DEF Has
  <2>5. \A g : Has(new, g) => Has(log, g) \/ g = e
    <3>1. \A i \in DOMAIN new : i \in 1..Len(log) \/ i = Len(log) + 1
      BY <2>2
    <3> QED
      BY <2>2, <3>1 DEF Has
  <2> QED
    BY <1>2, <2>1, <2>2, <2>3, <2>4, <2>5
<1> QED
  BY <1>1, <1>2

\* A new event of the types ends them.
LEMMA NewEventEnds ==
  ASSUME NEW E, NEW log \in Seq(E), NEW e \in E, ~Has(log, e),
         NEW types, e.type \in types
  PROVE  Ends(Logged(log, e), types, e)
<1> DEFINE new == Append(log, e)
<1>1. Logged(log, e) = new
  BY DEF Has, Logged
<1>2. /\ DOMAIN new = 1..Len(log) + 1 /\ Len(log) \in Nat /\ new[Len(log) + 1] = e
  OBVIOUS
<1> HIDE DEF new
<1>3. Len(log) + 1 \in DOMAIN new /\ \A j \in DOMAIN new : j <= Len(log) + 1
  BY <1>2
<1> QED
  BY <1>1, <1>2, <1>3 DEF Ends

\* Events of other types change no end.
LEMMA OtherEventKeepsEnds ==
  ASSUME NEW E, NEW log \in Seq(E), NEW e \in E, NEW types, e.type \notin types
  PROVE  /\ \A g : Ends(log, types, g) => Ends(Logged(log, e), types, g)
         /\ NoneOf(log, types) => NoneOf(Logged(log, e), types)
<1>1. CASE Has(log, e)
  BY <1>1, LoggedIsThere
<1>2. CASE ~Has(log, e)
  <2> DEFINE new == Append(log, e)
  <2>1. Logged(log, e) = new
    BY <1>2 DEF Has, Logged
  <2>2. /\ DOMAIN new = 1..Len(log) + 1 /\ DOMAIN log = 1..Len(log) /\ Len(log) \in Nat
        /\ new[Len(log) + 1] = e
        /\ \A i \in 1..Len(log) : new[i] = log[i]
    OBVIOUS
  <2> HIDE DEF new
  <2>3. /\ \A i \in DOMAIN new : i \in DOMAIN log \/ new[i] = e
        /\ \A i \in DOMAIN log : i \in DOMAIN new /\ new[i] = log[i]
    BY <2>2
  <2>4. \A j \in DOMAIN new : new[j].type \in types => j \in DOMAIN log /\ log[j].type \in types
    BY <2>3
  <2>5. NoneOf(log, types) => NoneOf(new, types)
    BY <2>4 DEF NoneOf
  <2>6. \A g : Ends(log, types, g) => Ends(new, types, g)
    BY <2>3, <2>4 DEF Ends
  <2> QED
    BY <2>1, <2>5, <2>6
<1> QED
  BY <1>1, <1>2

-----------------------------------------------------------------------------
(***************************************************************************)
(* One document: its host record, source row, index row, folders and log.  *)
(***************************************************************************)
DocumentEvents ==
  [type : {"DOCUMENT_INDEXED"}, version : Nat, content : Contents, extraction : Extractions]
  \cup [type : {"DOCUMENT_FOLDER_RELATIONS_INDEXED"}, version : Nat, folders : SUBSET Folders]
  \cup [type : {"DOCUMENT_DELETED"}, version : Nat]

ContentTypes  == {"DOCUMENT_INDEXED", "DOCUMENT_DELETED"}
RelationTypes == {"DOCUMENT_FOLDER_RELATIONS_INDEXED", "DOCUMENT_DELETED"}

\* A deletion is the end of every call before it.
CallsAreOver(host) ==
  /\ host.closed \in 0..Len(host.edits)
  /\ host.deleted => host.closed = Len(host.edits)

\* What is stored is a version of the host; a version that is stored as deleted was
\* blank, or its calls are over.
RowOfHost(host, row, folders) ==
  LET edit == host.edits[row.version] IN
  /\ row.version \in 0..Len(host.edits)
  /\ row.live =>
       /\ row.version > 0 /\ row.content = edit.content /\ edit.content # Blank
       /\ edit.snapshot => folders = edit.folders
  /\ ~row.live =>
       /\ folders = {}
       /\ row.version > 0 => host.closed >= row.version \/ edit.content = Blank

\* Every event is of a version up to the stored one, and says what that version said.
EventsOfHost(host, row, log) ==
  \A e : Has(log, e) =>
    /\ e.version \in 1..row.version
    /\ e.type = "DOCUMENT_INDEXED" =>
         e \in {DocumentIndexed(e.version, host.edits[e.version].content, x) : x \in Extractions}
    /\ e.type = "DOCUMENT_FOLDER_RELATIONS_INDEXED" =>
         /\ host.edits[e.version].snapshot
         /\ e = RelationsIndexed(e.version, host.edits[e.version].folders)
    /\ e.type = "DOCUMENT_DELETED" /\ e.version = row.version => ~row.live

LogEnds(row, index, folders, log) ==
  /\ row.live =>
       /\ \E x \in Extractions :
            Ends(log, ContentTypes, DocumentIndexed(row.version, row.content, x))
       /\ Has(log, DocumentIndexed(row.version, row.content, index.extraction))
  /\ ~row.live /\ row.version > 0 => Ends(log, ContentTypes, DocumentDeleted(row.version))
  /\ \/ NoneOf(log, RelationTypes) /\ folders = {}
     \/ folders = {} /\ \E v \in Nat : Ends(log, RelationTypes, DocumentDeleted(v))
     \/ \E v \in Nat : Ends(log, RelationTypes, RelationsIndexed(v, folders))

DocumentLog(host, row, index, folders, log) ==
  /\ log \in Seq(DocumentEvents)
  /\ CallsAreOver(host)
  /\ RowOfHost(host, row, folders)
  /\ EventsOfHost(host, row, log)
  /\ LogEnds(row, index, folders, log)

LEMMA EventTypes ==
  /\ \A v \in Nat, c \in Contents, x \in Extractions :
       /\ DocumentIndexed(v, c, x) \in DocumentEvents
       /\ DocumentIndexed(v, c, x).type = "DOCUMENT_INDEXED"
       /\ DocumentIndexed(v, c, x).version = v
  /\ \A v \in Nat, F \in SUBSET Folders :
       /\ RelationsIndexed(v, F) \in DocumentEvents
       /\ RelationsIndexed(v, F).type = "DOCUMENT_FOLDER_RELATIONS_INDEXED"
       /\ RelationsIndexed(v, F).version = v
  /\ \A v \in Nat :
       /\ DocumentDeleted(v) \in DocumentEvents
       /\ DocumentDeleted(v).type = "DOCUMENT_DELETED"
       /\ DocumentDeleted(v).version = v
BY DEF DocumentIndexed, RelationsIndexed, DocumentDeleted, DocumentEvents

\* The host publishes, deletes: what it said before stays.
LEMMA HostKeepsDocumentLog ==
  ASSUME NEW host \in Host(DocumentEdit), NEW row \in DocumentRow, NEW index, NEW folders,
         NEW log, DocumentLog(host, row, index, folders, log)
  PROVE  /\ \A edit \in DocumentEdit :
              DocumentLog(Published(host, edit), row, index, folders, log)
         /\ DocumentLog(Deleted(host), row, index, folders, log)
<1>1. /\ host.edits \in Seq(DocumentEdit) /\ Len(host.edits) \in Nat /\ row.version \in Nat
      /\ host.closed \in Nat
  BY DEF Host, DocumentRow
<1>2. ASSUME NEW new, new.edits \in Seq(DocumentEdit), Len(new.edits) >= Len(host.edits),
             \A i \in 1..Len(host.edits) : new.edits[i] = host.edits[i],
             new.closed >= host.closed, CallsAreOver(new)
      PROVE  DocumentLog(new, row, index, folders, log)
  <2>1. row.version \in 0..Len(host.edits) /\ Len(new.edits) \in Nat /\ new.closed \in Nat
    BY <1>1, <1>2 DEF DocumentLog, RowOfHost, CallsAreOver
  <2>2. row.version > 0 => new.edits[row.version] = host.edits[row.version]
    BY <1>1, <1>2, <2>1
  <2>3. RowOfHost(new, row, folders)
    BY <1>1, <1>2, <2>1, <2>2 DEF DocumentLog, RowOfHost
  <2>4. \A v \in 1..row.version : new.edits[v] = host.edits[v]
    BY <1>1, <1>2, <2>1
  <2>5. EventsOfHost(new, row, log)
    BY <2>4 DEF DocumentLog, EventsOfHost
  <2> QED
    BY <1>2, <2>3, <2>5 DEF DocumentLog
<1>3. ASSUME NEW edit \in DocumentEdit
      PROVE  DocumentLog(Published(host, edit), row, index, folders, log)
  <2> DEFINE new == Published(host, edit)
  <2>1. new.edits = Append(host.edits, edit) /\ new.deleted = FALSE /\ new.closed = host.closed
    BY DEF Published, Host
  <2>2. /\ Append(host.edits, edit) \in Seq(DocumentEdit)
        /\ Len(Append(host.edits, edit)) = Len(host.edits) + 1
        /\ \A i \in 1..Len(host.edits) : Append(host.edits, edit)[i] = host.edits[i]
    BY <1>1
  <2> HIDE DEF new
  <2>3. CallsAreOver(new)
    BY <1>1, <2>1, <2>2 DEF DocumentLog, CallsAreOver
  <2>4. /\ new.edits \in Seq(DocumentEdit) /\ Len(new.edits) >= Len(host.edits)
        /\ \A i \in 1..Len(host.edits) : new.edits[i] = host.edits[i]
        /\ new.closed >= host.closed
    BY <1>1, <2>1, <2>2
  <2> QED
    BY <1>2, <2>3, <2>4 DEF new
<1>4. DocumentLog(Deleted(host), row, index, folders, log)
  <2> DEFINE new == Deleted(host)
  <2>1. new.edits = host.edits /\ new.closed = Len(host.edits)
    BY DEF Deleted, Host
  <2> HIDE DEF new
  <2>2. CallsAreOver(new) /\ new.closed >= host.closed
    BY <1>1, <2>1 DEF DocumentLog, CallsAreOver
  <2> QED
    BY <1>1, <1>2, <2>1, <2>2 DEF new
<1> QED
  BY <1>3, <1>4

\* A version that is indexed after the calls before a deletion were over.
LEMMA IndexKeepsDocumentLog ==
  ASSUME NEW host \in Host(DocumentEdit), NEW row \in DocumentRow, NEW index,
         NEW folders \in SUBSET Folders, NEW log,
         DocumentLog(host, row, index, folders, log),
         NEW v \in DOMAIN host.edits, NEW x \in Extractions,
         v > host.closed, host.edits[v].content # Blank, v >= row.version,
         NEW row2 \in DocumentRow, row2.version = v, row2.live = TRUE,
         row2.content = host.edits[v].content,
         NEW index2, index2.extraction = x
  PROVE  LET edit    == host.edits[v]
             indexed == Logged(log, DocumentIndexed(v, edit.content, x))
         IN  IF edit.snapshot
             THEN DocumentLog(host, row2, index2, edit.folders,
                              Logged(indexed, RelationsIndexed(v, edit.folders)))
             ELSE DocumentLog(host, row2, index2, folders, indexed)
<1> DEFINE edit == host.edits[v]
           e1 == DocumentIndexed(v, edit.content, x)
           log1 == Logged(log, e1)
           e2 == RelationsIndexed(v, edit.folders)
           log2 == Logged(log1, e2)
<1>1. /\ host.edits \in Seq(DocumentEdit) /\ Len(host.edits) \in Nat
      /\ v \in 1..Len(host.edits) /\ v \in Nat /\ v > 0
      /\ edit \in DocumentEdit /\ edit.content \in Contents /\ edit.folders \in SUBSET Folders
      /\ edit.snapshot \in BOOLEAN
      /\ row.version \in Nat /\ row.live \in BOOLEAN /\ host.closed \in Nat
  <2>1. /\ host.edits \in Seq(DocumentEdit) /\ host.closed \in Nat
        /\ row.version \in Nat /\ row.live \in BOOLEAN
    BY DEF Host, DocumentRow
  <2>2. Len(host.edits) \in Nat /\ v \in 1..Len(host.edits) /\ host.edits[v] \in DocumentEdit
    BY <2>1
  <2>3. v \in Nat /\ v > 0
    BY <2>2
  <2>4. edit.content \in Contents /\ edit.folders \in SUBSET Folders /\ edit.snapshot \in BOOLEAN
    BY <2>2 DEF DocumentEdit
  <2> QED
    BY <2>1, <2>2, <2>3, <2>4
<1>2. /\ e1 \in DocumentEvents /\ e1.type = "DOCUMENT_INDEXED" /\ e1.version = v
      /\ e2 \in DocumentEvents /\ e2.type = "DOCUMENT_FOLDER_RELATIONS_INDEXED"
      /\ e2.version = v
  BY <1>1, EventTypes
<1>3. log \in Seq(DocumentEvents) /\ log1 \in Seq(DocumentEvents)
  BY <1>2, LoggedIsThere DEF DocumentLog
\* A version is stored at most once more while it lives, and never after its deletion.
<1>4. row.version = v => row.live /\ row.content = edit.content
  BY <1>1 DEF DocumentLog, RowOfHost
<1>5. ASSUME NEW e, Has(log, e), e.version = v PROVE row.version = v /\ e.type # "DOCUMENT_DELETED"
  <2>1. e.version \in 1..row.version
    BY <1>5 DEF DocumentLog, EventsOfHost
  <2>2. row.version = v
    BY <1>1, <1>5, <2>1
  <2> QED
    BY <1>4, <1>5, <2>2 DEF DocumentLog, EventsOfHost
<1>6. CallsAreOver(host)
  BY DEF DocumentLog
<1>7. /\ RowOfHost(host, row2, edit.folders)
      /\ ~edit.snapshot => RowOfHost(host, row2, folders)
  BY <1>1 DEF RowOfHost
\* The events of this version.
<1>8. ASSUME NEW e, Has(log, e) \/ e = e1 \/ (edit.snapshot /\ e = e2)
      PROVE  /\ e.version \in 1..row2.version
             /\ e.type = "DOCUMENT_INDEXED" =>
                  e \in {DocumentIndexed(e.version, host.edits[e.version].content, y) :
                           y \in Extractions}
             /\ e.type = "DOCUMENT_FOLDER_RELATIONS_INDEXED" =>
                  /\ host.edits[e.version].snapshot
                  /\ e = RelationsIndexed(e.version, host.edits[e.version].folders)
             /\ e.type = "DOCUMENT_DELETED" /\ e.version = row2.version => ~row2.live
  <2>1. CASE e = e1
    BY <1>1, <1>2, <2>1
  <2>2. CASE edit.snapshot /\ e = e2
    BY <1>1, <1>2, <2>2
  <2>3. CASE Has(log, e)
    <3>1. e.version \in 1..v
      BY <1>1, <2>3 DEF DocumentLog, EventsOfHost
    <3> QED
      BY <1>5, <2>3, <3>1 DEF DocumentLog, EventsOfHost
  <2> QED
    BY <1>8, <2>1, <2>2, <2>3
<1> HIDE DEF e1, e2, log1, log2, edit
<1>9. /\ \A e : Has(log1, e) => Has(log, e) \/ e = e1
      /\ \A e : Has(log, e) => Has(log1, e)
      /\ Has(log1, e1)
  BY <1>2, <1>3, LoggedIsThere DEF log1
<1>10. /\ log2 \in Seq(DocumentEvents)
       /\ \A e : Has(log2, e) => Has(log1, e) \/ e = e2
       /\ Has(log2, e1)
  BY <1>2, <1>3, <1>9, LoggedIsThere DEF log2
<1>11. /\ EventsOfHost(host, row2, log1)
       /\ edit.snapshot => EventsOfHost(host, row2, log2)
  BY <1>8, <1>9, <1>10 DEF EventsOfHost
\* The content.
<1>12. \E y \in Extractions : Ends(log1, ContentTypes, DocumentIndexed(v, edit.content, y))
  <2>1. CASE Has(log, e1)
    <3>1. row.version = v /\ row.live /\ row.content = edit.content
      BY <1>2, <1>4, <1>5, <2>1
    <3>2. log1 = log
      BY <1>2, <1>3, <2>1, LoggedIsThere DEF log1
    <3> QED
      BY <3>1, <3>2 DEF DocumentLog, LogEnds
  <2>2. CASE ~Has(log, e1)
    <3>1. Ends(log1, ContentTypes, e1)
      BY <1>2, <1>3, <2>2, NewEventEnds DEF log1, ContentTypes
    <3> QED
      BY <3>1 DEF e1, edit
  <2> QED
    BY <2>1, <2>2
<1>13. \A g : Ends(log1, ContentTypes, g) => Ends(log2, ContentTypes, g)
  BY <1>2, <1>3, OtherEventKeepsEnds DEF log2, ContentTypes
\* The folders.
<1> DEFINE Folders1(s, F) ==
             \/ NoneOf(s, RelationTypes) /\ F = {}
             \/ F = {} /\ \E w \in Nat : Ends(s, RelationTypes, DocumentDeleted(w))
             \/ \E w \in Nat : Ends(s, RelationTypes, RelationsIndexed(w, F))
<1>14. Folders1(log1, folders)
  <2>1. /\ \A g : Ends(log, RelationTypes, g) => Ends(log1, RelationTypes, g)
        /\ NoneOf(log, RelationTypes) => NoneOf(log1, RelationTypes)
    BY <1>2, <1>3, OtherEventKeepsEnds DEF log1, RelationTypes
  <2> QED
    BY <2>1 DEF DocumentLog, LogEnds
<1>15. edit.snapshot => Folders1(log2, edit.folders)
  <2> SUFFICES ASSUME edit.snapshot PROVE Folders1(log2, edit.folders)
    OBVIOUS
  <2>1. CASE Has(log1, e2)
    <3>1. Has(log, e2)
      BY <1>2, <1>9, <2>1
    <3>2. row.version = v /\ row.live
      BY <1>2, <1>4, <1>5, <3>1
    <3>3. folders = edit.folders
      BY <3>2 DEF DocumentLog, RowOfHost, edit
    <3>4. log2 = log1
      BY <1>2, <1>3, <2>1, LoggedIsThere DEF log2
    <3> QED
      BY <1>14, <3>3, <3>4
  <2>2. CASE ~Has(log1, e2)
    <3>1. Ends(log2, RelationTypes, e2)
      BY <1>2, <1>3, <2>2, NewEventEnds DEF log2, RelationTypes
    <3> QED
      BY <1>1, <3>1 DEF e2
  <2> QED
    BY <2>1, <2>2
<1>16. CASE edit.snapshot
  <2>1. LogEnds(row2, index2, edit.folders, log2)
    BY <1>10, <1>12, <1>13, <1>15, <1>16 DEF LogEnds, e1, edit
  <2>2. DocumentLog(host, row2, index2, edit.folders, log2)
    BY <1>6, <1>7, <1>10, <1>11, <1>16, <2>1 DEF DocumentLog
  <2> QED
    BY <1>16, <2>2 DEF edit, e1, e2, log1, log2
<1>17. CASE ~edit.snapshot
  <2>1. LogEnds(row2, index2, folders, log1)
    BY <1>9, <1>12, <1>14 DEF LogEnds, e1, edit
  <2>2. DocumentLog(host, row2, index2, folders, log1)
    BY <1>3, <1>6, <1>7, <1>11, <1>17, <2>1 DEF DocumentLog
  <2> QED
    BY <1>17, <2>2 DEF edit, e1, log1
<1> QED
  BY <1>16, <1>17

\* A document that is deleted, or whose new version is blank.
LEMMA RetractKeepsDocumentLog ==
  ASSUME NEW host \in Host(DocumentEdit), NEW row \in DocumentRow, NEW index, NEW folders,
         NEW log, DocumentLog(host, row, index, folders, log),
         NEW row2 \in DocumentRow, NEW index2, row2.live = FALSE,
         row2.version \in 1..Len(host.edits), row2.version >= row.version,
         host.closed >= row2.version \/ host.edits[row2.version].content = Blank,
         (row2.version = row.version /\ ~row.live) \/
         (\A e : Has(log, e) /\ e.type = "DOCUMENT_DELETED" => e.version # row2.version)
  PROVE  DocumentLog(host, row2, index2, {}, Logged(log, DocumentDeleted(row2.version)))
<1> DEFINE v == row2.version
           e1 == DocumentDeleted(v)
           log1 == Logged(log, e1)
<1>1. /\ Len(host.edits) \in Nat /\ v \in Nat /\ v > 0 /\ row.version \in Nat
      /\ row.live \in BOOLEAN /\ host.closed \in Nat
  BY DEF Host, DocumentRow
<1>2. e1 \in DocumentEvents /\ e1.type = "DOCUMENT_DELETED" /\ e1.version = v
  BY <1>1, EventTypes
<1>3. log \in Seq(DocumentEvents)
  BY DEF DocumentLog
<1>4. RowOfHost(host, row2, {})
  BY <1>1 DEF RowOfHost
<1> HIDE DEF log1, e1
<1>5. /\ log1 \in Seq(DocumentEvents) /\ \A e : Has(log1, e) => Has(log, e) \/ e = e1
  BY <1>2, <1>3, LoggedIsThere DEF log1
<1>6. EventsOfHost(host, row2, log1)
  <2> SUFFICES ASSUME NEW e, Has(log1, e)
               PROVE  /\ e.version \in 1..row2.version
                      /\ e.type = "DOCUMENT_INDEXED" =>
                           e \in {DocumentIndexed(e.version, host.edits[e.version].content, y) :
                                    y \in Extractions}
                      /\ e.type = "DOCUMENT_FOLDER_RELATIONS_INDEXED" =>
                           /\ host.edits[e.version].snapshot
                           /\ e = RelationsIndexed(e.version, host.edits[e.version].folders)
    BY DEF EventsOfHost
  <2>1. CASE e = e1
    BY <1>1, <1>2, <2>1
  <2>2. CASE Has(log, e)
    <3>1. e.version \in 1..v
      BY <1>1, <2>2 DEF DocumentLog, EventsOfHost
    <3> QED
      BY <2>2, <3>1 DEF DocumentLog, EventsOfHost
  <2> QED
    BY <1>5, <2>1, <2>2
<1>7. CASE Has(log, e1)
  <2>1. log1 = log
    BY <1>2, <1>3, <1>7, LoggedIsThere DEF log1
  <2>2. row.version = v /\ ~row.live
    BY <1>2, <1>7
  <2>3. folders = {}
    BY <2>2 DEF DocumentLog, RowOfHost
  <2>4. LogEnds(row2, index2, {}, log1)
    BY <1>1, <2>1, <2>2, <2>3 DEF DocumentLog, LogEnds
  <2> QED
    BY <1>4, <1>5, <1>6, <2>4 DEF DocumentLog, log1, e1
<1>8. CASE ~Has(log, e1)
  <2>1. Ends(log1, ContentTypes, e1) /\ Ends(log1, RelationTypes, e1)
    BY <1>2, <1>3, <1>8, NewEventEnds DEF log1, ContentTypes, RelationTypes
  <2>2. LogEnds(row2, index2, {}, log1)
    BY <1>1, <2>1 DEF LogEnds, e1
  <2> QED
    BY <1>4, <1>5, <1>6, <2>2 DEF DocumentLog, log1, e1
<1> QED
  BY <1>7, <1>8

-----------------------------------------------------------------------------
(***************************************************************************)
(* One folder: its host record, source row and log.  Invalidations of its  *)
(* signals are logged between its own events.                              *)
(***************************************************************************)
FolderEvents ==
  [type : {"FOLDER_INDEXED"}, version : Nat, parent : Folders \cup {NoFolder}, label : Labels]
  \cup [type : {"FOLDER_DELETED"}, version : Nat]
  \cup [type : {"FOLDER_SIGNALS_INVALIDATED"}, input : SignalInputs]
  \cup [type : {"FOLDER_SIGNALS_INDEXED"}, input : SignalInputs, related : SUBSET Documents]

FolderTypes == {"FOLDER_INDEXED", "FOLDER_DELETED"}

FolderIndexedAs(host, v) == FolderIndexed(v, host.edits[v].parent, host.edits[v].label)

FolderLog(host, row, log) ==
  /\ log \in Seq(FolderEvents)
  /\ CallsAreOver(host)
  /\ row.version \in 0..Len(host.edits)
  /\ row.live => /\ row.version > 0
                 /\ row.parent = host.edits[row.version].parent
                 /\ row.label = host.edits[row.version].label
  /\ ~row.live => host.closed >= row.version
  /\ \A e : Has(log, e) =>
       /\ e.type = "FOLDER_INDEXED" => /\ e.version \in 1..row.version
                                       /\ e = FolderIndexedAs(host, e.version)
       /\ e.type = "FOLDER_DELETED" => /\ e.version \in 1..row.version
                                       /\ e.version = row.version => ~row.live
  /\ row.version > 0 =>
       Ends(log, FolderTypes, IF row.live THEN FolderIndexedAs(host, row.version)
                              ELSE FolderDeleted(row.version))

LEMMA FolderEventTypes ==
  /\ \A v \in Nat, p \in Folders \cup {NoFolder}, l \in Labels :
       /\ FolderIndexed(v, p, l) \in FolderEvents
       /\ FolderIndexed(v, p, l).type = "FOLDER_INDEXED"
       /\ FolderIndexed(v, p, l).version = v
  /\ \A v \in Nat :
       /\ FolderDeleted(v) \in FolderEvents
       /\ FolderDeleted(v).type = "FOLDER_DELETED"
       /\ FolderDeleted(v).version = v
  /\ \A input \in SignalInputs :
       /\ SignalsInvalidated(input) \in FolderEvents
       /\ SignalsInvalidated(input).type = "FOLDER_SIGNALS_INVALIDATED"
BY DEF FolderIndexed, FolderDeleted, SignalsInvalidated, FolderEvents

LEMMA HostKeepsFolderLog ==
  ASSUME NEW host \in Host(FolderEdit), NEW row \in FolderRow, NEW log,
         FolderLog(host, row, log)
  PROVE  /\ \A edit \in FolderEdit : FolderLog(Published(host, edit), row, log)
         /\ FolderLog(Deleted(host), row, log)
<1>1. /\ host.edits \in Seq(FolderEdit) /\ Len(host.edits) \in Nat /\ row.version \in Nat
      /\ host.closed \in Nat
  BY DEF Host, FolderRow
<1>2. ASSUME NEW new, new.edits \in Seq(FolderEdit), Len(new.edits) >= Len(host.edits),
             \A i \in 1..Len(host.edits) : new.edits[i] = host.edits[i],
             new.closed >= host.closed, CallsAreOver(new)
      PROVE  FolderLog(new, row, log)
  <2>1. row.version \in 0..Len(host.edits) /\ Len(new.edits) \in Nat /\ new.closed \in Nat
    BY <1>1, <1>2 DEF FolderLog, CallsAreOver
  <2>2. \A v \in 1..row.version : new.edits[v] = host.edits[v]
    BY <1>1, <1>2, <2>1
  <2>3. \A v \in 1..row.version : FolderIndexedAs(new, v) = FolderIndexedAs(host, v)
    BY <2>2 DEF FolderIndexedAs
  <2>4. row.version > 0 => row.version \in 1..row.version
    BY <1>1
  <2>5. row.version \in 0..Len(new.edits) /\ (~row.live => new.closed >= row.version)
    BY <1>1, <1>2, <2>1 DEF FolderLog
  <2> QED
    BY <1>2, <2>2, <2>3, <2>4, <2>5 DEF FolderLog
<1>3. ASSUME NEW edit \in FolderEdit PROVE FolderLog(Published(host, edit), row, log)
  <2> DEFINE new == Published(host, edit)
  <2>1. new.edits = Append(host.edits, edit) /\ new.deleted = FALSE /\ new.closed = host.closed
    BY DEF Published, Host
  <2>2. /\ Append(host.edits, edit) \in Seq(FolderEdit)
        /\ Len(Append(host.edits, edit)) = Len(host.edits) + 1
        /\ \A i \in 1..Len(host.edits) : Append(host.edits, edit)[i] = host.edits[i]
    BY <1>1
  <2> HIDE DEF new
  <2>3. CallsAreOver(new)
    BY <1>1, <2>1, <2>2 DEF FolderLog, CallsAreOver
  <2>4. /\ new.edits \in Seq(FolderEdit) /\ Len(new.edits) >= Len(host.edits)
        /\ \A i \in 1..Len(host.edits) : new.edits[i] = host.edits[i]
        /\ new.closed >= host.closed
    BY <1>1, <2>1, <2>2
  <2> QED
    BY <1>2, <2>3, <2>4 DEF new
<1>4. FolderLog(Deleted(host), row, log)
  <2> DEFINE new == Deleted(host)
  <2>1. new.edits = host.edits /\ new.closed = Len(host.edits)
    BY DEF Deleted, Host
  <2> HIDE DEF new
  <2>2. CallsAreOver(new) /\ new.closed >= host.closed
    BY <1>1, <2>1 DEF FolderLog, CallsAreOver
  <2> QED
    BY <1>1, <1>2, <2>1, <2>2 DEF new
<1> QED
  BY <1>3, <1>4

LEMMA IndexKeepsFolderLog ==
  ASSUME NEW host \in Host(FolderEdit), NEW row \in FolderRow, NEW log,
         FolderLog(host, row, log),
         NEW v \in DOMAIN host.edits, v > host.closed, v >= row.version,
         NEW row2 \in FolderRow, row2.version = v, row2.live = TRUE,
         row2.parent = host.edits[v].parent, row2.label = host.edits[v].label
  PROVE  FolderLog(host, row2,
                   Logged(log, FolderIndexed(v, host.edits[v].parent, host.edits[v].label)))
<1> DEFINE e1 == FolderIndexed(v, host.edits[v].parent, host.edits[v].label)
           log1 == Logged(log, e1)
<1>1. /\ host.edits \in Seq(FolderEdit) /\ Len(host.edits) \in Nat
      /\ v \in 1..Len(host.edits) /\ v \in Nat /\ v > 0 /\ host.edits[v] \in FolderEdit
      /\ row.version \in Nat /\ row.live \in BOOLEAN /\ host.closed \in Nat
  <2>1. /\ host.edits \in Seq(FolderEdit) /\ host.closed \in Nat
        /\ row.version \in Nat /\ row.live \in BOOLEAN
    BY DEF Host, FolderRow
  <2> QED
    BY <2>1
<1>2. /\ e1 \in FolderEvents /\ e1.type = "FOLDER_INDEXED" /\ e1.version = v
      /\ e1 = FolderIndexedAs(host, v)
  BY <1>1, FolderEventTypes DEF FolderEdit, FolderIndexedAs
<1>3. log \in Seq(FolderEvents)
  BY DEF FolderLog
<1>4. row.version = v => row.live
  BY <1>1 DEF FolderLog
<1> HIDE DEF e1, log1
<1>5. log1 \in Seq(FolderEvents) /\ \A e : Has(log1, e) => Has(log, e) \/ e = e1
  BY <1>2, <1>3, LoggedIsThere DEF log1
<1>6. ASSUME NEW e, Has(log1, e)
      PROVE  /\ e.type = "FOLDER_INDEXED" => /\ e.version \in 1..v
                                             /\ e = FolderIndexedAs(host, e.version)
             /\ e.type = "FOLDER_DELETED" => e.version \in 1..v /\ e.version # v
  <2>1. CASE e = e1
    BY <1>1, <1>2, <2>1
  <2>2. CASE Has(log, e)
    <3>1. e.type = "FOLDER_DELETED" => e.version \in 1..v /\ e.version # v
      BY <1>1, <1>4, <2>2 DEF FolderLog
    <3>2. e.type = "FOLDER_INDEXED" => e.version \in 1..v
      BY <1>1, <2>2 DEF FolderLog
    <3> QED
      BY <2>2, <3>1, <3>2 DEF FolderLog
  <2> QED
    BY <1>5, <1>6, <2>1, <2>2
<1>7. Ends(log1, FolderTypes, e1)
  <2>1. CASE Has(log, e1)
    <3>1. e1.version \in 1..row.version
      BY <1>2, <2>1 DEF FolderLog
    <3>2. row.version = v
      BY <1>1, <1>2, <3>1
    <3>3. log1 = log
      BY <1>2, <1>3, <2>1, LoggedIsThere DEF log1
    <3> QED
      BY <1>1, <1>2, <1>4, <3>2, <3>3 DEF FolderLog
  <2>2. CASE ~Has(log, e1)
    BY <1>2, <1>3, <2>2, NewEventEnds DEF log1, FolderTypes
  <2> QED
    BY <2>1, <2>2
<1>8. FolderLog(host, row2, log1)
  BY <1>1, <1>2, <1>5, <1>6, <1>7 DEF FolderLog
<1> QED
  BY <1>8 DEF log1, e1

LEMMA DeleteKeepsFolderLog ==
  ASSUME NEW host \in Host(FolderEdit), NEW row \in FolderRow, NEW log,
         FolderLog(host, row, log), row.live, host.closed = Len(host.edits),
         NEW row2 \in FolderRow, row2.version = row.version, row2.live = FALSE
  PROVE  FolderLog(host, row2, Logged(log, FolderDeleted(row.version)))
<1> DEFINE v == row.version
           e1 == FolderDeleted(v)
           log1 == Logged(log, e1)
<1>1. Len(host.edits) \in Nat /\ v \in 1..Len(host.edits) /\ v \in Nat
  BY DEF Host, FolderRow, FolderLog
<1>2. e1 \in FolderEvents /\ e1.type = "FOLDER_DELETED" /\ e1.version = v
  BY <1>1, FolderEventTypes
<1>3. log \in Seq(FolderEvents)
  BY DEF FolderLog
<1> HIDE DEF e1, log1
<1>4. log1 \in Seq(FolderEvents) /\ \A e : Has(log1, e) => Has(log, e) \/ e = e1
  BY <1>2, <1>3, LoggedIsThere DEF log1
<1>5. ~Has(log, e1)
  BY <1>2 DEF FolderLog
<1>6. Ends(log1, FolderTypes, e1)
  BY <1>2, <1>3, <1>5, NewEventEnds DEF log1, FolderTypes
<1>7. ASSUME NEW e, Has(log1, e)
      PROVE  /\ e.type = "FOLDER_INDEXED" => /\ e.version \in 1..v
                                             /\ e = FolderIndexedAs(host, e.version)
             /\ e.type = "FOLDER_DELETED" => e.version \in 1..v
  <2>1. CASE e = e1
    BY <1>1, <1>2, <2>1
  <2>2. CASE Has(log, e)
    BY <2>2 DEF FolderLog
  <2> QED
    BY <1>4, <1>7, <2>1, <2>2
<1>8. row2.version \in 0..Len(host.edits) /\ host.closed >= row2.version /\ CallsAreOver(host)
  BY <1>1 DEF FolderLog
<1>9. FolderLog(host, row2, log1)
  BY <1>4, <1>6, <1>7, <1>8 DEF FolderLog, e1
<1> QED
  BY <1>9 DEF log1, e1

\* What is said of a folder's signals is of no interest to the folder's own state.
LEMMA SignalEventKeepsFolderLog ==
  ASSUME NEW host, NEW row, NEW log, FolderLog(host, row, log),
         NEW event \in FolderEvents, event.type \notin FolderTypes
  PROVE  FolderLog(host, row, Logged(log, event))
<1> DEFINE new == Logged(log, event)
<1>1. log \in Seq(FolderEvents)
  BY DEF FolderLog
<1> HIDE DEF new
<1>2. new \in Seq(FolderEvents) /\ \A e : Has(new, e) => Has(log, e) \/ e = event
  BY <1>1, LoggedIsThere DEF new
<1>3. \A g : Ends(log, FolderTypes, g) => Ends(new, FolderTypes, g)
  BY <1>1, OtherEventKeepsEnds DEF new
<1>4. FolderLog(host, row, new)
  BY <1>2, <1>3 DEF FolderLog, FolderTypes
<1> QED
  BY <1>4 DEF new

-----------------------------------------------------------------------------
(***************************************************************************)
(* The invariant.                                                          *)
(***************************************************************************)
LogInv ==
  /\ VersionInv
  /\ docEvents = [d \in Documents |-> docEvents[d]]
  /\ folderEvents = [f \in Folders |-> folderEvents[f]]
  /\ \A d \in Documents :
       DocumentLog(hostDocs[d], docSource[d], docIndex[d], member[d], docEvents[d])
  /\ \A f \in Folders : FolderLog(hostFolders[f], folderSource[f], folderEvents[f])

LEMMA InitLogs == Init => LogInv
<1> SUFFICES ASSUME Init PROVE LogInv
  OBVIOUS
<1>1. VersionInv
  BY InitVersions
<1>2. /\ docEvents = [d \in Documents |-> docEvents[d]]
      /\ folderEvents = [f \in Folders |-> folderEvents[f]]
  BY DEF Init
<1>3. \A E : /\ << >> \in Seq(E)
             /\ \A e : ~Has(<< >>, e)
             /\ NoneOf(<< >>, E)
  BY DEF Has, NoneOf
<1>4. /\ NewHost.edits = << >> /\ NewHost.closed = 0 /\ NewHost.deleted = FALSE
      /\ Len(<< >>) = 0
  BY DEF NewHost
<1>5. CallsAreOver(NewHost)
  BY <1>4 DEF CallsAreOver
<1>6. ASSUME NEW d \in Documents
      PROVE  DocumentLog(hostDocs[d], docSource[d], docIndex[d], member[d], docEvents[d])
  <2>1. /\ hostDocs[d] = NewHost /\ docSource[d].version = 0 /\ docSource[d].live = FALSE
        /\ member[d] = {} /\ docEvents[d] = << >>
    BY DEF Init
  <2>2. RowOfHost(hostDocs[d], docSource[d], member[d])
    BY <1>4, <2>1 DEF RowOfHost
  <2>3. EventsOfHost(hostDocs[d], docSource[d], docEvents[d])
    BY <1>3, <2>1 DEF EventsOfHost
  <2>4. LogEnds(docSource[d], docIndex[d], member[d], docEvents[d])
    BY <1>3, <2>1 DEF LogEnds
  <2> QED
    BY <1>3, <1>5, <2>1, <2>2, <2>3, <2>4 DEF DocumentLog
<1>7. ASSUME NEW f \in Folders
      PROVE  FolderLog(hostFolders[f], folderSource[f], folderEvents[f])
  <2>1. /\ hostFolders[f] = NewHost /\ folderSource[f].version = 0
        /\ folderSource[f].live = FALSE /\ folderEvents[f] = << >>
    BY DEF Init
  <2> QED
    BY <1>3, <1>4, <1>5, <2>1 DEF FolderLog
<1> QED
  BY <1>1, <1>2, <1>6, <1>7 DEF LogInv

LEMMA HostStepKeepsLogs ==
  ASSUME LogInv, ~ReuseDeletedVersions, HostStep
  PROVE  /\ \A d \in Documents :
              DocumentLog(hostDocs'[d], docSource[d], docIndex[d], member[d], docEvents[d])
         /\ \A f \in Folders : FolderLog(hostFolders'[f], folderSource[f], folderEvents[f])
<1> USE DEF LogInv, VersionInv
<1>1. /\ \A d \in Documents : hostDocs[d] \in Host(DocumentEdit) /\ docSource[d] \in DocumentRow
      /\ \A f \in Folders : hostFolders[f] \in Host(FolderEdit) /\ folderSource[f] \in FolderRow
      /\ \A e \in DocumentEdit : e.updatedAt \in Nat
      /\ \A e \in FolderEdit : e.updatedAt \in Nat
  BY DEF TypeOK, DocumentEdit, FolderEdit
<1>2. ASSUME NEW d \in Documents, NEW c \in Contents, NEW F \in SUBSET Folders,
             NEW given \in BOOLEAN, NEW t \in NextUpdatedAt(hostDocs[d].edits),
             PublishDocument(d, [content |-> c, snapshot |-> given, folders |-> F,
                                 updatedAt |-> t])
      PROVE  \A e \in Documents :
               DocumentLog(hostDocs'[e], docSource[e], docIndex[e], member[e], docEvents[e])
  <2> DEFINE edit == [content |-> c, snapshot |-> given, folders |-> F, updatedAt |-> t]
  <2>1. hostDocs[d].edits \in Seq(DocumentEdit)
    BY <1>1 DEF Host
  <2>2. t \in Nat
    BY <1>1, <2>1, UpdatedAtTypes
  <2>3. edit \in DocumentEdit
    BY <2>2 DEF DocumentEdit
  <2>4. hostDocs' = [hostDocs EXCEPT ![d] = Published(hostDocs[d], edit)]
    BY <1>2 DEF PublishDocument
  <2> HIDE DEF edit
  <2>5. DocumentLog(Published(hostDocs[d], edit), docSource[d], docIndex[d], member[d],
                    docEvents[d])
    BY <1>1, <2>3, HostKeepsDocumentLog
  <2> QED
    BY <2>4, <2>5 DEF TypeOK
<1>3. ASSUME NEW f \in Folders, NEW p \in Folders \cup {NoFolder}, NEW l \in Labels,
             NEW t \in NextUpdatedAt(hostFolders[f].edits),
             PublishFolder(f, [parent |-> p, label |-> l, updatedAt |-> t])
      PROVE  \A g \in Folders : FolderLog(hostFolders'[g], folderSource[g], folderEvents[g])
  <2> DEFINE edit == [parent |-> p, label |-> l, updatedAt |-> t]
  <2>1. hostFolders[f].edits \in Seq(FolderEdit)
    BY <1>1 DEF Host
  <2>2. t \in Nat
    BY <1>1, <2>1, UpdatedAtTypes
  <2>3. edit \in FolderEdit
    BY <2>2 DEF FolderEdit
  <2>4. hostFolders' = [hostFolders EXCEPT ![f] = Published(hostFolders[f], edit)]
    BY <1>3 DEF PublishFolder
  <2> HIDE DEF edit
  <2>5. FolderLog(Published(hostFolders[f], edit), folderSource[f], folderEvents[f])
    BY <1>1, <2>3, HostKeepsFolderLog
  <2> QED
    BY <2>4, <2>5 DEF TypeOK
<1>4. ASSUME HostDeletes
      PROVE  /\ \A d \in Documents :
                  DocumentLog(hostDocs'[d], docSource[d], docIndex[d], member[d], docEvents[d])
             /\ \A f \in Folders : FolderLog(hostFolders'[f], folderSource[f], folderEvents[f])
  <2>1. /\ \A d \in Documents :
             DocumentLog(Deleted(hostDocs[d]), docSource[d], docIndex[d], member[d], docEvents[d])
        /\ \A f \in Folders : FolderLog(Deleted(hostFolders[f]), folderSource[f], folderEvents[f])
    BY <1>1, HostKeepsDocumentLog, HostKeepsFolderLog
  <2>2. CASE UNCHANGED hostFolders /\
             \E d \in Documents : hostDocs' = [hostDocs EXCEPT ![d] = Deleted(@)]
    BY <2>1, <2>2 DEF TypeOK
  <2>3. CASE UNCHANGED hostDocs /\
             \E f \in Folders : hostFolders' = [hostFolders EXCEPT ![f] = Deleted(@)]
    BY <2>1, <2>3 DEF TypeOK
  <2> QED
    BY <1>4, <2>2, <2>3 DEF HostDeletes
<1>5. /\ \A d, edit : PublishDocument(d, edit) => UNCHANGED hostFolders
      /\ \A f, edit : PublishFolder(f, edit) => UNCHANGED hostDocs
      /\ ~HostRestores
  BY DEF PublishDocument, PublishFolder, HostRestores
<1> QED
  BY <1>2, <1>3, <1>4, <1>5 DEF HostStep

\* What an invalidation logs, on top of what the operation has logged.
LEMMA InvalidateKeepsLogs ==
  ASSUME TypeOK', NEW F, NEW index, NEW log, Invalidate(F, index, log),
         \A f \in Folders : FolderLog(hostFolders[f], folderSource'[f], log[f])
  PROVE  /\ folderEvents' = [f \in Folders |-> folderEvents'[f]]
         /\ \A f \in Folders : FolderLog(hostFolders[f], folderSource'[f], folderEvents'[f])
<1>1. \A f \in Folders : SignalInput(f)' \in SignalInputs
  BY InputTypes DEF TypeOK
<1> DEFINE pending == {f \in F : index[f].live}
<1>2. folderEvents' = [f \in Folders |->
           IF f \in pending THEN Logged(log[f], SignalsInvalidated([g \in pending |-> SignalInput(g)'][f]))
           ELSE log[f]]
  BY DEF Invalidate
<1>3. \A f \in pending : [g \in pending |-> SignalInput(g)'][f] = SignalInput(f)'
  OBVIOUS
<1> HIDE DEF pending
<1>4. \A f \in Folders : folderEvents'[f] = log[f] \/
          \E input \in SignalInputs : folderEvents'[f] = Logged(log[f], SignalsInvalidated(input))
  BY <1>1, <1>2, <1>3
<1>5. \A f \in Folders : FolderLog(hostFolders[f], folderSource'[f], folderEvents'[f])
  <2>1. \A input \in SignalInputs : /\ SignalsInvalidated(input) \in FolderEvents
                                    /\ SignalsInvalidated(input).type \notin FolderTypes
    BY FolderEventTypes DEF FolderTypes
  <2> QED
    BY <1>4, <2>1, SignalEventKeepsFolderLog
<1> QED
  BY <1>2, <1>5

LEMMA DocumentStepKeepsLogs ==
  ASSUME LogInv, TypeOK', ~LateRequests, NEW d \in Documents, DocumentStep(d)
  PROVE  /\ docEvents' = [e \in Documents |-> docEvents'[e]]
         /\ folderEvents' = [f \in Folders |-> folderEvents'[f]]
         /\ \A e \in Documents :
              DocumentLog(hostDocs[e], docSource'[e], docIndex'[e], member'[e], docEvents'[e])
         /\ \A f \in Folders : FolderLog(hostFolders[f], folderSource'[f], folderEvents'[f])
<1> USE DEF LogInv, VersionInv
<1> DEFINE host == hostDocs[d]
           row  == docSource[d]
           log  == docEvents[d]
<1>1. /\ host \in Host(DocumentEdit) /\ row \in DocumentRow /\ member[d] \in SUBSET Folders
      /\ row.updatedAt \in Nat /\ VersionAgrees(host, row)
      /\ \A e \in DocumentEdit : e.updatedAt \in Nat
      /\ host.edits \in Seq(DocumentEdit) /\ Len(host.edits) \in Nat /\ row.version \in Nat
      /\ docSource'[d] \in DocumentRow
  <2>1. /\ host \in Host(DocumentEdit) /\ row \in DocumentRow /\ member[d] \in SUBSET Folders
        /\ docSource'[d] \in DocumentRow /\ VersionAgrees(host, row)
    BY DEF TypeOK
  <2>2. row.updatedAt \in Nat /\ row.version \in Nat
    BY <2>1 DEF DocumentRow
  <2>3. host.edits \in Seq(DocumentEdit)
    BY <2>1 DEF Host
  <2> QED
    BY <2>1, <2>2, <2>3 DEF DocumentEdit
<1>2. DocumentLog(host, row, docIndex[d], member[d], log)
  OBVIOUS
<1>3. UNCHANGED folderSource /\ \E F : Invalidate(F, folderIndex, folderEvents)
  BY DEF DocumentStep, IndexDocument, IndexBlankDocument, DeleteDocument, Retract
<1>4. /\ folderEvents' = [f \in Folders |-> folderEvents'[f]]
      /\ \A f \in Folders : FolderLog(hostFolders[f], folderSource'[f], folderEvents'[f])
  BY <1>3, InvalidateKeepsLogs
<1>5. /\ \A e \in Documents \ {d} : /\ docSource'[e] = docSource[e]
                                  /\ docIndex'[e] = docIndex[e]
                                  /\ member'[e] = member[e]
                                  /\ docEvents'[e] = docEvents[e]
      /\ docEvents' = [e \in Documents |-> docEvents'[e]]
  <2>1. /\ \E r : docSource' = [docSource EXCEPT ![d] = r]
        /\ \E r : docIndex' = [docIndex EXCEPT ![d] = r]
        /\ \E r : member' = [member EXCEPT ![d] = r]
        /\ \E r : docEvents' = [docEvents EXCEPT ![d] = r]
    <3>1. ASSUME NEW v, NEW x, IndexDocument(d, v, x) PROVE <2>1!:
      <4>1. \E r : member' = [member EXCEPT ![d] = r]
        <5>1. member = [member EXCEPT ![d] = member[d]]
          BY DEF TypeOK
        <5> QED
          BY <3>1, <5>1 DEF IndexDocument
      <4> QED
        BY <3>1, <4>1 DEF IndexDocument
    <3>2. ASSUME NEW r, Retract(d, r) PROVE <2>1!:
      <4>1. \E q : docIndex' = [docIndex EXCEPT ![d] = q]
        BY <3>2 DEF Retract, TypeOK
      <4> QED
        BY <3>2, <4>1 DEF Retract
    <3> QED
      BY <3>1, <3>2 DEF DocumentStep, IndexBlankDocument, DeleteDocument
  <2> QED
    BY <2>1 DEF TypeOK
<1> DEFINE Goal == DocumentLog(host, docSource'[d], docIndex'[d], member'[d], docEvents'[d])
<1>6. ASSUME NEW v \in DOMAIN host.edits, NEW x \in Extractions, IndexDocument(d, v, x)
      PROVE  Goal
  <2> DEFINE edit == host.edits[v]
  <2>1. /\ v > host.closed /\ edit.content # Blank
        /\ Supersedes(v, edit.updatedAt, row)
    BY <1>6 DEF IndexDocument, MayIndex
  <2>2. v >= row.version
    BY <1>1, <2>1, SupersedesForward
  <2>3. /\ docSource'[d].version = v /\ docSource'[d].live = TRUE
        /\ docSource'[d].content = edit.content /\ docIndex'[d].extraction = x
    BY <1>6 DEF IndexDocument, TypeOK
  <2>4. member'[d] = IF edit.snapshot THEN edit.folders ELSE member[d]
    BY <1>6 DEF IndexDocument, TypeOK
  <2>5. docEvents'[d] =
          LET log1 == Logged(log, DocumentIndexed(v, edit.content, x))
          IN  IF edit.snapshot THEN Logged(log1, RelationsIndexed(v, edit.folders)) ELSE log1
    BY <1>6 DEF IndexDocument
  <2>6. IF edit.snapshot
        THEN DocumentLog(host, docSource'[d], docIndex'[d], edit.folders,
                         Logged(Logged(log, DocumentIndexed(v, edit.content, x)),
                                RelationsIndexed(v, edit.folders)))
        ELSE DocumentLog(host, docSource'[d], docIndex'[d], member[d],
                         Logged(log, DocumentIndexed(v, edit.content, x)))
    <3> HIDE DEF host, row, log
    <3> QED
      BY <1>1, <1>2, <2>1, <2>2, <2>3, IndexKeepsDocumentLog
  <2> HIDE DEF host, row, log, edit
  <2> QED
    BY <2>4, <2>5, <2>6
<1>7. ASSUME NEW r \in DocumentRow, Retract(d, r), r.version \in 1..Len(host.edits),
             r.version >= row.version,
             host.closed >= r.version \/ host.edits[r.version].content = Blank,
             (r.version = row.version /\ ~row.live) \/
             (\A e : Has(log, e) /\ e.type = "DOCUMENT_DELETED" => e.version # r.version)
      PROVE  Goal
  <2>1. docSource'[d].version = r.version /\ docSource'[d].live = FALSE
    BY <1>7 DEF Retract, TypeOK, DocumentRow
  <2>2. member'[d] = {} /\ docEvents'[d] = Logged(log, DocumentDeleted(r.version))
    BY <1>7 DEF Retract, TypeOK
  <2> HIDE DEF host, row, log
  <2>3. DocumentLog(host, docSource'[d], docIndex'[d], {},
                    Logged(log, DocumentDeleted(docSource'[d].version)))
    BY <1>1, <1>2, <1>7, <2>1, RetractKeepsDocumentLog
  <2> QED
    BY <2>1, <2>2, <2>3
<1>8. ASSUME NEW v \in DOMAIN host.edits, IndexBlankDocument(d, v) PROVE Goal
  <2> DEFINE r == [version |-> v, updatedAt |-> host.edits[v].updatedAt, content |-> Blank,
                   live |-> TRUE]
  <2>1. /\ host.edits[v].content = Blank /\ Supersedes(v, host.edits[v].updatedAt, row)
        /\ Retract(d, r)
    BY <1>8 DEF IndexBlankDocument
  <2>2. v \in 1..Len(host.edits) /\ host.edits[v] \in DocumentEdit
    BY <1>1
  <2>3. r \in DocumentRow
    BY <2>1, <2>2 DEF DocumentRow, DocumentEdit
  <2>4. v >= row.version
    BY <1>1, <2>1, SupersedesForward
  <2>5. CASE row.version = v
    <3>1. ~row.live
      BY <1>2, <2>1, <2>5 DEF DocumentLog, RowOfHost
    <3> QED
      BY <1>7, <2>1, <2>2, <2>3, <2>4, <2>5, <3>1
  <2>6. CASE row.version # v
    <3>1. \A e : Has(log, e) => e.version \in 1..row.version
      BY <1>2 DEF DocumentLog, EventsOfHost
    <3>2. \A e : Has(log, e) => e.version # v
      BY <1>1, <2>2, <2>4, <2>6, <3>1
    <3> QED
      BY <1>7, <2>1, <2>2, <2>3, <2>4, <3>2
  <2> QED
    BY <2>5, <2>6
<1>9. ASSUME DeleteDocument(d) PROVE Goal
  <2>1. host.deleted /\ row.live /\ Retract(d, row)
    BY <1>9 DEF DeleteDocument, MayDelete
  <2>2. host.closed >= row.version /\ row.version \in 1..Len(host.edits)
    BY <1>1, <1>2, <2>1 DEF DocumentLog, CallsAreOver, RowOfHost
  <2>3. \A e : Has(log, e) /\ e.type = "DOCUMENT_DELETED" => e.version # row.version
    BY <1>2, <2>1 DEF DocumentLog, EventsOfHost
  <2> QED
    BY <1>1, <1>7, <2>1, <2>2, <2>3
<1>10. Goal
  BY <1>6, <1>8, <1>9 DEF DocumentStep
<1> QED
  BY <1>4, <1>5, <1>10

LEMMA FolderStepKeepsLogs ==
  ASSUME LogInv, TypeOK', ~LateRequests, NEW f \in Folders, FolderStep(f)
  PROVE  /\ folderEvents' = [g \in Folders |-> folderEvents'[g]]
         /\ \A g \in Folders : FolderLog(hostFolders[g], folderSource'[g], folderEvents'[g])
<1> USE DEF LogInv, VersionInv
<1> DEFINE host == hostFolders[f]
           row  == folderSource[f]
           log  == folderEvents[f]
<1>1. /\ host \in Host(FolderEdit) /\ row \in FolderRow
      /\ row.updatedAt \in Nat /\ VersionAgrees(host, row)
      /\ \A e \in FolderEdit : e.updatedAt \in Nat
      /\ folderSource'[f] \in FolderRow
  BY DEF TypeOK, FolderEdit, FolderRow
<1>2. FolderLog(host, row, log)
  OBVIOUS
<1>3. ASSUME NEW F, NEW index, NEW event,
             Invalidate(F, index, [folderEvents EXCEPT ![f] = Logged(@, event)]),
             \A g \in Folders \ {f} : folderSource'[g] = folderSource[g],
             FolderLog(host, folderSource'[f], Logged(log, event))
      PROVE  /\ folderEvents' = [g \in Folders |-> folderEvents'[g]]
             /\ \A g \in Folders : FolderLog(hostFolders[g], folderSource'[g], folderEvents'[g])
  <2> DEFINE logged == [folderEvents EXCEPT ![f] = Logged(@, event)]
  <2>1. logged[f] = Logged(log, event) /\ \A g \in Folders \ {f} : logged[g] = folderEvents[g]
    OBVIOUS
  <2>2. Invalidate(F, index, logged)
    BY <1>3
  <2> HIDE DEF logged
  <2>3. \A g \in Folders : FolderLog(hostFolders[g], folderSource'[g], logged[g])
    BY <1>3, <2>1
  <2> QED
    BY <2>2, <2>3, InvalidateKeepsLogs
<1>4. ASSUME NEW v \in DOMAIN host.edits, IndexFolder(f, v)
      PROVE  /\ folderEvents' = [g \in Folders |-> folderEvents'[g]]
             /\ \A g \in Folders : FolderLog(hostFolders[g], folderSource'[g], folderEvents'[g])
  <2> DEFINE edit == host.edits[v]
             event == FolderIndexed(v, edit.parent, edit.label)
  <2>1. v > host.closed /\ Supersedes(v, edit.updatedAt, row)
    BY <1>4 DEF IndexFolder, MayIndex
  <2>2. v >= row.version
    BY <1>1, <2>1, SupersedesForward
  <2>3. /\ folderSource'[f].version = v /\ folderSource'[f].live = TRUE
        /\ folderSource'[f].parent = edit.parent /\ folderSource'[f].label = edit.label
        /\ \A g \in Folders \ {f} : folderSource'[g] = folderSource[g]
    BY <1>4 DEF IndexFolder, TypeOK
  <2>4. \E F, index : Invalidate(F, index, [folderEvents EXCEPT ![f] = Logged(@, event)])
    BY <1>4 DEF IndexFolder
  <2>5. FolderLog(host, folderSource'[f], Logged(log, event))
    <3> HIDE DEF host, row, log
    <3> QED
      BY <1>1, <1>2, <2>1, <2>2, <2>3, IndexKeepsFolderLog
  <2> HIDE DEF event
  <2> QED
    BY <1>3, <2>3, <2>4, <2>5
<1>5. ASSUME DeleteFolder(f)
      PROVE  /\ folderEvents' = [g \in Folders |-> folderEvents'[g]]
             /\ \A g \in Folders : FolderLog(hostFolders[g], folderSource'[g], folderEvents'[g])
  <2> DEFINE event == FolderDeleted(row.version)
  <2>1. host.deleted /\ row.live
    BY <1>5 DEF DeleteFolder, MayDelete, Live
  <2>2. host.closed = Len(host.edits)
    BY <1>2, <2>1 DEF FolderLog, CallsAreOver
  <2>3. /\ folderSource'[f].version = row.version /\ folderSource'[f].live = FALSE
        /\ \A g \in Folders \ {f} : folderSource'[g] = folderSource[g]
    BY <1>5 DEF DeleteFolder, TypeOK, FolderRow
  <2>4. \E F, index : Invalidate(F, index, [folderEvents EXCEPT ![f] = Logged(@, event)])
    BY <1>5 DEF DeleteFolder
  <2>5. FolderLog(host, folderSource'[f], Logged(log, event))
    <3> HIDE DEF host, row, log
    <3> QED
      BY <1>1, <1>2, <2>1, <2>2, <2>3, DeleteKeepsFolderLog
  <2> HIDE DEF event
  <2> QED
    BY <1>3, <2>3, <2>4, <2>5
<1>6. CASE StartFolderSignals(f) \/ ReplaceFolderSignals(f)
  <2>1. UNCHANGED <<folderSource, folderEvents>>
    BY <1>6 DEF StartFolderSignals, ReplaceFolderSignals, folderVars
  <2> QED
    BY <2>1
<1> QED
  BY <1>4, <1>5, <1>6 DEF FolderStep

LEMMA NextLogs ==
  ASSUME ~LateRequests, ~ReuseDeletedVersions
  PROVE  LogInv /\ [Next]_vars => LogInv'
<1> SUFFICES ASSUME LogInv, [Next]_vars PROVE LogInv'
  OBVIOUS
<1>1. VersionInv' /\ TypeOK'
  BY NextVersions DEF LogInv, VersionInv
<1>2. CASE UNCHANGED vars
  BY <1>1, <1>2 DEF LogInv, vars, hostVars, docVars, folderVars
<1>3. CASE HostStep
  <2>1. UNCHANGED <<docVars, folderVars, docEvents, folderEvents>>
    BY <1>3 DEF HostStep, PublishDocument, PublishFolder, HostDeletes, HostRestores
  <2> QED
    BY <1>1, <1>3, <2>1, HostStepKeepsLogs DEF LogInv, docVars, folderVars
<1>4. ASSUME NEW d \in Documents, DocumentStep(d) PROVE LogInv'
  <2>1. UNCHANGED hostVars
    BY <1>4, DocumentStepVersions DEF LogInv
  <2> QED
    BY <1>1, <1>4, <2>1, DocumentStepKeepsLogs DEF LogInv, hostVars
<1>5. ASSUME NEW f \in Folders, FolderStep(f) PROVE LogInv'
  <2>1. UNCHANGED <<hostVars, docVars, docEvents>>
    BY <1>5 DEF FolderStep, IndexFolder, DeleteFolder, StartFolderSignals,
                ReplaceFolderSignals, docVars, hostVars
  <2> QED
    BY <1>1, <1>5, <2>1, FolderStepKeepsLogs DEF LogInv, hostVars, docVars
<1> QED
  BY <1>2, <1>3, <1>4, <1>5 DEF Next

LEMMA LogsAreKept ==
  ASSUME ~LateRequests, ~ReuseDeletedVersions
  PROVE  Spec => []LogInv
<1>1. LogInv /\ [Next]_vars => LogInv'
  BY NextLogs
<1> QED
  BY <1>1, InitLogs, PTL DEF Spec

\* For every host that orders its calls around deletions and publishes a new version
\* when a document returns: whatever is repeated, replaced, deleted or blank, a consumer
\* that replays the outbox of a document ends with what the tables hold.
THEOREM DocumentLogReplays ==
  ASSUME ~LateRequests, ~ReuseDeletedVersions
  PROVE  Spec => []DocumentLogComplete
<1>1. LogInv => DocumentLogComplete
  <2> SUFFICES ASSUME LogInv PROVE DocumentLogComplete
    OBVIOUS
  <2> SUFFICES ASSUME NEW d \in Documents
               PROVE  LET Indexed(x) == DocumentIndexed(docSource[d].version,
                                                        docSource[d].content, x) IN
    /\ LastIs(docEvents[d], ContentTypes,
              LAMBDA e : IF docSource[d].live THEN \E x \in Extractions : e = Indexed(x)
                         ELSE e = DocumentDeleted(docSource[d].version),
              docSource[d].version = 0)
    /\ docSource[d].live =>
         \E i \in DOMAIN docEvents[d] : docEvents[d][i] = Indexed(docIndex[d].extraction)
    /\ LastIs(docEvents[d], RelationTypes,
              LAMBDA e : IF e.type = "DOCUMENT_DELETED" THEN member[d] = {}
                         ELSE e.folders = member[d],
              member[d] = {})
    BY DEF DocumentLogComplete, ContentTypes, RelationTypes
  <2> DEFINE row == docSource[d]
             log == docEvents[d]
  <2>1. /\ RowOfHost(hostDocs[d], row, member[d]) /\ EventsOfHost(hostDocs[d], row, log)
        /\ LogEnds(row, docIndex[d], member[d], log)
        /\ row.version \in Nat /\ row.live \in BOOLEAN
    BY DEF LogInv, DocumentLog, VersionInv, TypeOK, DocumentRow
  <2>2. row.version = 0 => NoneOf(log, ContentTypes)
    <3>1. \A i \in DOMAIN log : log[i].version \in 1..row.version
      BY <2>1 DEF EventsOfHost, Has
    <3> QED
      BY <3>1 DEF NoneOf
  <2>3. LastIs(log, ContentTypes,
               LAMBDA e : IF row.live THEN \E x \in Extractions :
                                              e = DocumentIndexed(row.version, row.content, x)
                          ELSE e = DocumentDeleted(row.version),
               row.version = 0)
    <3>1. CASE row.version = 0
      BY <2>2, <3>1 DEF LastIs, NoneOf
    <3>2. CASE row.live
      BY <2>1, <3>2 DEF LogEnds, Ends, LastIs
    <3>3. CASE ~row.live /\ row.version > 0
      BY <2>1, <3>3 DEF LogEnds, Ends, LastIs
    <3> QED
      BY <2>1, <3>1, <3>2, <3>3
  <2>4. row.live => \E i \in DOMAIN log :
                      log[i] = DocumentIndexed(row.version, row.content, docIndex[d].extraction)
    BY <2>1 DEF LogEnds, Has
  <2>5. LastIs(log, RelationTypes,
               LAMBDA e : IF e.type = "DOCUMENT_DELETED" THEN member[d] = {}
                          ELSE e.folders = member[d],
               member[d] = {})
    <3>1. CASE NoneOf(log, RelationTypes) /\ member[d] = {}
      BY <3>1 DEF LastIs, NoneOf
    <3>2. ASSUME member[d] = {}, NEW v \in Nat, Ends(log, RelationTypes, DocumentDeleted(v))
          PROVE  <2>5
      BY <3>2 DEF Ends, LastIs, DocumentDeleted
    <3>3. ASSUME NEW v \in Nat, Ends(log, RelationTypes, RelationsIndexed(v, member[d]))
          PROVE  <2>5
      BY <3>3 DEF Ends, LastIs, RelationsIndexed
    <3> QED
      BY <2>1, <3>1, <3>2, <3>3 DEF LogEnds
  <2> QED
    BY <2>3, <2>4, <2>5
<1> QED
  BY <1>1, LogsAreKept, PTL

\* The same of a folder.
THEOREM FolderLogReplays ==
  ASSUME ~LateRequests, ~ReuseDeletedVersions
  PROVE  Spec => []FolderLogComplete
<1>1. LogInv => FolderLogComplete
  <2> SUFFICES ASSUME LogInv, NEW f \in Folders
               PROVE  LastIs(folderEvents[f], FolderTypes,
           LAMBDA e : IF Live(f)
                      THEN e = FolderIndexed(folderSource[f].version,
                                             folderSource[f].parent, folderSource[f].label)
                      ELSE e = FolderDeleted(folderSource[f].version),
           folderSource[f].version = 0)
    BY DEF FolderLogComplete, FolderTypes
  <2> DEFINE row == folderSource[f]
             log == folderEvents[f]
  <2>1. FolderLog(hostFolders[f], row, log) /\ row.version \in Nat /\ row.live \in BOOLEAN
    BY DEF LogInv, VersionInv, TypeOK, FolderRow
  <2>2. CASE row.version = 0
    <3>1. NoneOf(log, FolderTypes)
      BY <2>1, <2>2 DEF FolderLog, Has, NoneOf, FolderTypes
    <3> QED
      BY <2>2, <3>1 DEF LastIs, NoneOf
  <2>3. CASE row.live /\ row.version > 0
    <3>1. FolderIndexedAs(hostFolders[f], row.version)
            = FolderIndexed(row.version, row.parent, row.label)
      BY <2>1, <2>3 DEF FolderLog, FolderIndexedAs
    <3>2. Ends(log, FolderTypes, FolderIndexed(row.version, row.parent, row.label))
      BY <2>1, <2>3, <3>1 DEF FolderLog
    <3> QED
      BY <2>3, <3>2 DEF Ends, LastIs, Live
  <2>4. CASE ~row.live /\ row.version > 0
    <3>1. Ends(log, FolderTypes, FolderDeleted(row.version))
      BY <2>1, <2>4 DEF FolderLog
    <3> QED
      BY <2>4, <3>1 DEF Ends, LastIs, Live
  <2> QED
    BY <2>1, <2>2, <2>3, <2>4
<1> QED
  BY <1>1, LogsAreKept, PTL

=============================================================================
