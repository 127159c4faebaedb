-------------------------- MODULE IndexingManifest --------------------------
(***************************************************************************)
(* The write side of indexing: the Postgres manifest (document and folder  *)
(* sources, index records, document-folder relations, folder signals) and  *)
(* the transactional outbox.  One action per operation of                  *)
(* DocumentIndexingService and FolderIndexingService; each operation is    *)
(* one transaction, so each is one step here.  The calls of the App Server *)
(* (the host) are delayed, repeated and reordered freely: any version the  *)
(* host has published may be committed at any later time.                  *)
(*                                                                         *)
(* Digests are modelled by the values they hash, one tenant is modelled,   *)
(* and signal_generation_version keeps its default.                        *)
(***************************************************************************)
EXTENDS Naturals, Sequences

CONSTANTS
  Documents, Folders,     \* ids issued by the host
  Contents,               \* what a document version's title/body/metadata are
  Blank,                  \* the content that yields no chunk
  Extractions,            \* possible outcomes of the LLM signal extraction
  Labels,                 \* name, path, description and metadata of a folder
  NoFolder,               \* parent of a root folder
  None                    \* an absent row, digest or build

\* Bounds on the host, and what the host is allowed to do.
CONSTANTS
  MaxEdits,               \* versions published per document
  MaxFolderEdits,         \* versions published per folder
  MaxDeletions,           \* deletions per document or folder
  BuiltFolders,           \* folders whose signals are built
  LateRequests,           \* calls sent before a deletion may commit after it
  ReuseDeletedVersions,   \* a deleted source may return under its old version
  ClockTies               \* two versions may carry the same updated_at

ASSUME ConstantsAssumption ==
  /\ NoFolder \notin Folders
  /\ MaxEdits \in Nat /\ MaxFolderEdits \in Nat /\ MaxDeletions \in Nat
  /\ BuiltFolders \subseteq Folders
  /\ {LateRequests, ReuseDeletedVersions, ClockTies} \subseteq BOOLEAN

VARIABLES
  hostDocs, hostFolders,        \* external: the App Server's own state
  docSource, docIndex, member,  \* document_sources, ..._index_records, relations
  folderSource, folderIndex,    \* folder_sources, folder_index_records
  folderSignals,                \* folder_signals rows, per folder
  signalBuild,                  \* external: the digest a signal build started from
  docEvents, folderEvents       \* outbox_events, per partition_key

hostVars   == <<hostDocs, hostFolders>>
docVars    == <<docSource, docIndex, member>>
folderVars == <<folderSource, folderIndex, folderSignals>>
vars == <<hostVars, docVars, folderVars, signalBuild, docEvents, folderEvents>>

\* snapshot is FALSE when the request leaves folder_ids out.
DocumentEdit == [content : Contents, snapshot : BOOLEAN, folders : SUBSET Folders,
                 updatedAt : Nat]
FolderEdit   == [parent : Folders \cup {NoFolder}, label : Labels, updatedAt : Nat]

(***************************************************************************)
(* The folder tree of a folder_sources table: live rows only.  A recursive *)
(* CTE returns the least set that holds its seeds and is closed under its  *)
(* join.                                                                   *)
(***************************************************************************)
UpClosed(tree, S) ==
  \A f \in S : tree[f].parent \in Folders /\ tree[tree[f].parent].live
               => tree[f].parent \in S

Ancestors(tree, F) ==
  LET closed == {S \in SUBSET Folders :
                   {f \in F \cap Folders : tree[f].live} \subseteq S /\ UpClosed(tree, S)}
  IN  {a \in Folders : \A S \in closed : a \in S}

DownClosed(tree, S) ==
  \A f \in Folders : tree[f].live /\ tree[f].parent \in S => f \in S

Subtree(tree, f) ==
  LET closed == {S \in SUBSET Folders : (tree[f].live => f \in S) /\ DownClosed(tree, S)}
  IN  {g \in Folders : \A S \in closed : g \in S}

Live(f) == folderSource[f].live

(***************************************************************************)
(* FolderProjectionDigestService and folder_index_record: the inputs whose *)
(* digests are stored on a folder's index record.                          *)
(***************************************************************************)
\* Mutant: the digest covers the version column where the label should be.
IndexInputOfVersion(f) ==
  IF Live(f) THEN [parent |-> folderSource[f].parent, label |-> folderSource[f].version]
             ELSE None

IndexInput(f) ==
  IF Live(f) THEN [parent |-> folderSource[f].parent, label |-> folderSource[f].label]
             ELSE None

MemberDocuments(f) ==
  LET subtree == Subtree(folderSource, f)
  IN  {d \in Documents : docSource[d].live /\ member[d] \cap subtree # {}}

SignalInput(f) ==
  [index   |-> IndexInput(f),
   members |-> {[document |-> d,
                 content  |-> docSource[d].content,
                 index    |-> IF docIndex[d].live THEN docIndex[d].input ELSE None]
                : d \in MemberDocuments(f)}]

(***************************************************************************)
(* The outbox: an event whose idempotency key is already there is dropped. *)
(* The key is the event itself, except that a deletion is keyed by the     *)
(* source_version it deletes.                                              *)
(***************************************************************************)
Logged(log, e) ==
  IF \E i \in DOMAIN log : log[i] = e THEN log ELSE Append(log, e)

DocumentIndexed(v, content, x) ==
  [type |-> "DOCUMENT_INDEXED", version |-> v, content |-> content, extraction |-> x]
RelationsIndexed(v, folders) ==
  [type |-> "DOCUMENT_FOLDER_RELATIONS_INDEXED", version |-> v, folders |-> folders]
\* Mutant: the deletion's key leaves the version out.
DocumentDeletedOnce(v) == [type |-> "DOCUMENT_DELETED", version |-> 0]
DocumentDeleted(v) == [type |-> "DOCUMENT_DELETED", version |-> v]
FolderIndexed(v, parent, label) ==
  [type |-> "FOLDER_INDEXED", version |-> v, parent |-> parent, label |-> label]
\* Mutant: as DocumentDeletedOnce.
FolderDeletedOnce(v) == [type |-> "FOLDER_DELETED", version |-> 0]
FolderDeleted(v) == [type |-> "FOLDER_DELETED", version |-> v]
SignalsInvalidated(input) ==
  [type |-> "FOLDER_SIGNALS_INVALIDATED", input |-> input]

(***************************************************************************)
(* FolderSignalInvalidationService.invalidate, over the folders F: index   *)
(* is the folder_index_records table and log the folder events, as the     *)
(* operation has left them so far.  The digests are recomputed from the    *)
(* tables as this transaction leaves them.                                 *)
(***************************************************************************)
Invalidate(F, index, log) ==
  LET pending == {f \in F : index[f].live}
      input == [f \in pending |-> SignalInput(f)']
  IN  /\ folderSignals' = [f \in Folders |-> IF f \in F THEN None ELSE folderSignals[f]]
      /\ folderIndex' = [f \in Folders |->
           IF f \in pending
           THEN [live |-> TRUE, status |-> "pending",
                 indexInput |-> IndexInput(f)', signalInput |-> input[f]]
           ELSE index[f]]
      /\ folderEvents' = [f \in Folders |->
           IF f \in pending THEN Logged(log[f], SignalsInvalidated(input[f]))
           ELSE log[f]]

(***************************************************************************)
(* The upsert of a source row: it takes effect, and brings a deleted row   *)
(* back, when the versions are equal or the row is strictly older.  An     *)
(* absent row has version 0 and updatedAt 0, older than any request.       *)
(***************************************************************************)
\* Mutants: any request replaces the stored row; a deleted row is never brought back.
SupersedesAlways(version, updatedAt, row) == TRUE
SupersedesUnlessDeleted(version, updatedAt, row) ==
  (row.live \/ row.version = 0) /\ (row.version = version \/ row.updatedAt < updatedAt)

Supersedes(version, updatedAt, row) ==
  row.version = version \/ row.updatedAt < updatedAt

-----------------------------------------------------------------------------
(***************************************************************************)
(* The host (external).                                                    *)
(***************************************************************************)
NextUpdatedAt(edits) ==
  LET last == IF edits = << >> THEN 0 ELSE edits[Len(edits)].updatedAt
  IN  {last + 1} \cup (IF ClockTies /\ last > 0 THEN {last} ELSE {})

\* The versions up to closed were published before the last deletion.  The calls
\* for them are over when the deletion is sent, unless they may be late.
MayIndex(host, v) == LateRequests \/ (~host.deleted /\ v > host.closed)
MayDelete(host)   == host.deleted \/ (LateRequests /\ host.deletions > 0)

Published(host, edit) == [host EXCEPT !.edits = Append(@, edit), !.deleted = FALSE]
Deleted(host) == [host EXCEPT !.deleted = TRUE, !.deletions = @ + 1,
                              !.closed = Len(host.edits)]
Restored(host) == [host EXCEPT !.deleted = FALSE, !.closed = 0]

PublishDocument(d, edit) ==
  /\ Len(hostDocs[d].edits) < MaxEdits
  /\ edit.updatedAt \in NextUpdatedAt(hostDocs[d].edits)
  /\ hostDocs' = [hostDocs EXCEPT ![d] = Published(@, edit)]
  /\ UNCHANGED <<hostFolders, docVars, folderVars, signalBuild, docEvents, folderEvents>>

PublishFolder(f, edit) ==
  /\ Len(hostFolders[f].edits) < MaxFolderEdits
  /\ edit.updatedAt \in NextUpdatedAt(hostFolders[f].edits)
  /\ edit.parent # f
  /\ hostFolders' = [hostFolders EXCEPT ![f] = Published(@, edit)]
  /\ UNCHANGED <<hostDocs, docVars, folderVars, signalBuild, docEvents, folderEvents>>

CanDelete(host) == host.edits # << >> /\ ~host.deleted /\ host.deletions < MaxDeletions

HostDeletes ==
  /\ \/ \E d \in Documents : /\ CanDelete(hostDocs[d])
                             /\ hostDocs' = [hostDocs EXCEPT ![d] = Deleted(@)]
                             /\ UNCHANGED hostFolders
     \/ \E f \in Folders : /\ CanDelete(hostFolders[f])
                           /\ hostFolders' = [hostFolders EXCEPT ![f] = Deleted(@)]
                           /\ UNCHANGED hostDocs
  /\ UNCHANGED <<docVars, folderVars, signalBuild, docEvents, folderEvents>>

HostRestores ==
  /\ ReuseDeletedVersions
  /\ \/ \E d \in Documents : /\ hostDocs[d].deleted
                             /\ hostDocs' = [hostDocs EXCEPT ![d] = Restored(@)]
                             /\ UNCHANGED hostFolders
     \/ \E f \in Folders : /\ hostFolders[f].deleted
                           /\ hostFolders' = [hostFolders EXCEPT ![f] = Restored(@)]
                           /\ UNCHANGED hostDocs
  /\ UNCHANGED <<docVars, folderVars, signalBuild, docEvents, folderEvents>>

-----------------------------------------------------------------------------
(***************************************************************************)
(* DocumentIndexingService.  A request that is not current changes nothing,*)
(* so it is no step.                                                       *)
(***************************************************************************)
IndexDocument(d, v, x) ==
  LET edit == hostDocs[d].edits[v] IN
  /\ MayIndex(hostDocs[d], v)
  /\ edit.content # Blank
  /\ Supersedes(v, edit.updatedAt, docSource[d])
  /\ docSource' = [docSource EXCEPT ![d] =
       [version |-> v, updatedAt |-> edit.updatedAt, content |-> edit.content, live |-> TRUE]]
  /\ docIndex' = [docIndex EXCEPT ![d] =
       [input |-> edit.content, extraction |-> x, live |-> TRUE]]
  /\ member' = IF edit.snapshot THEN [member EXCEPT ![d] = edit.folders] ELSE member
  /\ UNCHANGED folderSource
  /\ Invalidate(Ancestors(folderSource, member[d] \cup member'[d]), folderIndex, folderEvents)
  /\ LET log == Logged(docEvents[d], DocumentIndexed(v, edit.content, x))
     IN  docEvents' = [docEvents EXCEPT ![d] =
           IF edit.snapshot THEN Logged(log, RelationsIndexed(v, edit.folders)) ELSE log]
  /\ UNCHANGED <<hostVars, signalBuild>>

\* Mutant: the document's relations outlive it.
RetractKeepingRelations(d, row) ==
  /\ docSource' = [docSource EXCEPT ![d] = [row EXCEPT !.live = FALSE]]
  /\ docIndex' = [docIndex EXCEPT ![d].live = FALSE, ![d].extraction = None]
  /\ UNCHANGED <<member, folderSource>>
  /\ Invalidate(Ancestors(folderSource, member[d]), folderIndex, folderEvents)
  /\ docEvents' = [docEvents EXCEPT ![d] = Logged(@, DocumentDeleted(row.version))]
  /\ UNCHANGED <<hostVars, signalBuild>>

\* _mark_deleted and _append_deleted_events: row is the source row to delete.
Retract(d, row) ==
  /\ docSource' = [docSource EXCEPT ![d] = [row EXCEPT !.live = FALSE]]
  /\ docIndex' = [docIndex EXCEPT ![d].live = FALSE, ![d].extraction = None]
  /\ member' = [member EXCEPT ![d] = {}]
  /\ UNCHANGED folderSource
  /\ LET referencing == {f \in Folders : folderSignals[f] # None
                                         /\ d \in folderSignals[f].related}
     IN  Invalidate(Ancestors(folderSource, member[d] \cup referencing), folderIndex, folderEvents)
  /\ docEvents' = [docEvents EXCEPT ![d] = Logged(@, DocumentDeleted(row.version))]
  /\ UNCHANGED <<hostVars, signalBuild>>

\* A version without chunks is indexed by deleting the document.
IndexBlankDocument(d, v) ==
  LET edit == hostDocs[d].edits[v] IN
  /\ MayIndex(hostDocs[d], v)
  /\ edit.content = Blank
  /\ Supersedes(v, edit.updatedAt, docSource[d])
  /\ Retract(d, [version |-> v, updatedAt |-> edit.updatedAt, content |-> Blank,
                 live |-> TRUE])

DeleteDocument(d) ==
  /\ MayDelete(hostDocs[d])
  /\ docSource[d].live
  /\ Retract(d, docSource[d])

(***************************************************************************)
(* FolderIndexingService.                                                  *)
(***************************************************************************)
\* Mutant: the ancestors a folder leaves behind are forgotten.
AffectedByUpsertOnlyAfter(f, before, after) ==
  {f} \cup
  IF before[f].live /\ before[f].parent = after[f].parent THEN {} ELSE Ancestors(after, {f})

\* before and after are the folder_sources table around the upsert of f.
AffectedByUpsert(f, before, after) ==
  {f} \cup
  IF before[f].live /\ before[f].parent = after[f].parent THEN {}
  ELSE Ancestors(after, {f} \cup IF before[f].live THEN {before[f].parent} ELSE {})

IndexFolder(f, v) ==
  LET edit == hostFolders[f].edits[v] IN
  /\ MayIndex(hostFolders[f], v)
  /\ Supersedes(v, edit.updatedAt, folderSource[f])
  /\ folderSource' = [folderSource EXCEPT ![f] =
       [version |-> v, updatedAt |-> edit.updatedAt, parent |-> edit.parent,
        label |-> edit.label, live |-> TRUE]]
  /\ UNCHANGED docVars
  /\ \E affected \in {AffectedByUpsert(f, folderSource, folderSource')} :
       Invalidate(affected,
                  [folderIndex EXCEPT ![f].live = TRUE],
                  [folderEvents EXCEPT ![f] =
                     Logged(@, FolderIndexed(v, edit.parent, edit.label))])
  /\ UNCHANGED <<hostVars, signalBuild, docEvents>>

DeleteFolder(f) ==
  /\ MayDelete(hostFolders[f])
  /\ Live(f)
  /\ folderSource' = [folderSource EXCEPT ![f].live = FALSE]
  /\ UNCHANGED docVars
  /\ LET deleted == [folderIndex EXCEPT ![f].live = FALSE]
         log == [folderEvents EXCEPT ![f] =
                   Logged(@, FolderDeleted(folderSource[f].version))]
     IN  Invalidate(Ancestors(folderSource, {f}), deleted, log)
  /\ UNCHANGED <<hostVars, signalBuild, docEvents>>

(***************************************************************************)
(* Folder signals are built outside the transaction (external) and stored  *)
(* by replace_folder_signals if the digest they were built from is still   *)
(* the stored one.                                                         *)
(***************************************************************************)
StartFolderSignals(f) ==
  /\ f \in BuiltFolders
  /\ signalBuild[f] = None
  /\ Live(f) /\ folderIndex[f].live
  /\ signalBuild' = [signalBuild EXCEPT ![f] = folderIndex[f].signalInput]
  /\ UNCHANGED <<hostVars, docVars, folderVars, docEvents, folderEvents>>

\* Mutant: the digest is not compared when the build ends.
StillCurrentUnlessDeleted(f, input) == Live(f) /\ folderIndex[f].live

StillCurrent(f, input) ==
  Live(f) /\ folderIndex[f].live /\ folderIndex[f].signalInput = input

ReplaceFolderSignals(f) ==
  /\ signalBuild[f] # None
  /\ signalBuild' = [signalBuild EXCEPT ![f] = None]
  /\ IF StillCurrent(f, signalBuild[f])
     THEN /\ folderIndex' = [folderIndex EXCEPT ![f].status = "ready"]
          /\ \E related \in SUBSET {m.document : m \in signalBuild[f].members} :
               folderSignals' = [folderSignals EXCEPT ![f] =
                 [input |-> signalBuild[f], related |-> related]]
     ELSE UNCHANGED <<folderIndex, folderSignals>>
  /\ UNCHANGED <<hostVars, docVars, folderSource, docEvents, folderEvents>>

-----------------------------------------------------------------------------
NewHost == [edits |-> << >>, deleted |-> FALSE, deletions |-> 0, closed |-> 0]

Init ==
  /\ hostDocs = [d \in Documents |-> NewHost]
  /\ hostFolders = [f \in Folders |-> NewHost]
  /\ docSource = [d \in Documents |->
       [version |-> 0, updatedAt |-> 0, content |-> None, live |-> FALSE]]
  /\ docIndex = [d \in Documents |-> [input |-> None, extraction |-> None, live |-> FALSE]]
  /\ member = [d \in Documents |-> {}]
  /\ folderSource = [f \in Folders |->
       [version |-> 0, updatedAt |-> 0, parent |-> NoFolder, label |-> None, live |-> FALSE]]
  /\ folderIndex = [f \in Folders |->
       [live |-> FALSE, status |-> "absent", indexInput |-> None, signalInput |-> None]]
  /\ folderSignals = [f \in Folders |-> None]
  /\ signalBuild = [f \in Folders |-> None]
  /\ docEvents = [d \in Documents |-> << >>]
  /\ folderEvents = [f \in Folders |-> << >>]

HostStep ==
  \/ \E d \in Documents, c \in Contents, F \in SUBSET Folders, given \in BOOLEAN :
       \E t \in NextUpdatedAt(hostDocs[d].edits) :
         /\ given \/ F = {}
         /\ PublishDocument(d, [content |-> c, snapshot |-> given, folders |-> F,
                                updatedAt |-> t])
  \/ \E f \in Folders, p \in Folders \cup {NoFolder}, l \in Labels :
       \E t \in NextUpdatedAt(hostFolders[f].edits) :
         PublishFolder(f, [parent |-> p, label |-> l, updatedAt |-> t])
  \/ HostDeletes
  \/ HostRestores

DocumentStep(d) ==
  \/ \E v \in DOMAIN hostDocs[d].edits :
       \/ \E x \in Extractions : IndexDocument(d, v, x)
       \/ IndexBlankDocument(d, v)
  \/ DeleteDocument(d)

FolderStep(f) ==
  \/ \E v \in DOMAIN hostFolders[f].edits : IndexFolder(f, v)
  \/ DeleteFolder(f)
  \/ StartFolderSignals(f)
  \/ ReplaceFolderSignals(f)

Next ==
  \/ HostStep
  \/ \E d \in Documents : DocumentStep(d)
  \/ \E f \in Folders : FolderStep(f)

Spec == Init /\ [][Next]_vars

-----------------------------------------------------------------------------
(***************************************************************************)
(* Properties.                                                             *)
(***************************************************************************)
Host(edit) == [edits : Seq(edit), deleted : BOOLEAN, deletions : Nat, closed : Nat]
DocumentRow == [version : Nat, updatedAt : Nat, content : Contents \cup {None},
                live : BOOLEAN]
DocumentIndexRow == [input : Contents \cup {None}, extraction : Extractions \cup {None},
                     live : BOOLEAN]
FolderRow == [version : Nat, updatedAt : Nat, parent : Folders \cup {NoFolder},
              label : Labels \cup {None}, live : BOOLEAN]
IndexInputs == {None} \cup [parent : Folders \cup {NoFolder}, label : Labels \cup {None}]
SignalInputs ==
  {None} \cup [index : IndexInputs,
               members : SUBSET [document : Documents, content : Contents \cup {None},
                                 index : Contents \cup {None}]]
FolderIndexRow == [live : BOOLEAN, status : {"absent", "pending", "ready"},
                   indexInput : IndexInputs, signalInput : SignalInputs]
SignalRows == {None} \cup [input : SignalInputs, related : SUBSET Documents]

\* Every table holds rows of its type.
TypeOK ==
  /\ hostDocs \in [Documents -> Host(DocumentEdit)]
  /\ hostFolders \in [Folders -> Host(FolderEdit)]
  /\ docSource \in [Documents -> DocumentRow]
  /\ docIndex \in [Documents -> DocumentIndexRow]
  /\ member \in [Documents -> SUBSET Folders]
  /\ folderSource \in [Folders -> FolderRow]
  /\ folderIndex \in [Folders -> FolderIndexRow]
  /\ folderSignals \in [Folders -> SignalRows]
  /\ signalBuild \in [Folders -> SignalInputs]

\* The rows of a document and of a folder live and die together, and what is
\* indexed is the current content (upsert, replace and mark_deleted touch five
\* tables in one operation, by two paths for a blank document).
ManifestConsistent ==
  /\ \A d \in Documents :
       /\ docIndex[d].live = docSource[d].live
       /\ docSource[d].live => docIndex[d].input = docSource[d].content
       /\ ~docSource[d].live => member[d] = {}
  /\ \A f \in Folders : folderIndex[f].live = Live(f)

\* Every live folder's stored digests are those of its current subtree: no
\* document or folder change, anywhere in the tree, leaves an ancestor with the
\* digest of inputs that are gone (FolderSignalInvalidationService is called with
\* every folder whose inputs may have changed).
FolderDigestsFresh ==
  \A f \in Folders : folderIndex[f].live =>
    /\ folderIndex[f].indexInput = IndexInput(f)
    /\ folderIndex[f].signalInput = SignalInput(f)

\* A folder whose signals are ready stores signals built from exactly its current
\* subtree, however late the build ends; other folders store none.
ReadySignalsAreCurrent ==
  \A f \in Folders :
    IF folderIndex[f].live /\ folderIndex[f].status = "ready"
    THEN folderSignals[f].input = SignalInput(f)
    ELSE folderSignals[f] = None

\* The last event of one of these types in the log satisfies P, and none is there
\* only if absent.
LastIs(log, types, P(_), absent) ==
  LET of == {i \in DOMAIN log : log[i].type \in types}
  IN  IF of = {} THEN absent
      ELSE \E i \in of : (\A j \in of : j <= i) /\ P(log[i])

\* Replaying the outbox of a document ends in the document's state: a consumer
\* that applies every event in order knows whether it is live, its content and its
\* folders.  Its signals are in an event of that version: the last one, unless an
\* extraction repeated for the same version came back to an earlier outcome, whose
\* event is dropped.
DocumentLogComplete ==
  \A d \in Documents :
    LET Indexed(x) == DocumentIndexed(docSource[d].version, docSource[d].content, x) IN
    /\ LastIs(docEvents[d], {"DOCUMENT_INDEXED", "DOCUMENT_DELETED"},
              LAMBDA e : IF docSource[d].live THEN \E x \in Extractions : e = Indexed(x)
                         ELSE e = DocumentDeleted(docSource[d].version),
              docSource[d].version = 0)
    /\ docSource[d].live =>
         \E i \in DOMAIN docEvents[d] : docEvents[d][i] = Indexed(docIndex[d].extraction)
    /\ LastIs(docEvents[d], {"DOCUMENT_FOLDER_RELATIONS_INDEXED", "DOCUMENT_DELETED"},
              LAMBDA e : IF e.type = "DOCUMENT_DELETED" THEN member[d] = {}
                         ELSE e.folders = member[d],
              member[d] = {})

\* The same for a folder and its folder_sources row.
FolderLogComplete ==
  \A f \in Folders :
    LastIs(folderEvents[f], {"FOLDER_INDEXED", "FOLDER_DELETED"},
           LAMBDA e : IF Live(f)
                      THEN e = FolderIndexed(folderSource[f].version,
                                             folderSource[f].parent, folderSource[f].label)
                      ELSE e = FolderDeleted(folderSource[f].version),
           folderSource[f].version = 0)

\* A delayed, repeated or reordered request never brings a source back to an
\* older version.
SourcesNeverGoBack ==
  [][/\ \A d \in Documents : docSource'[d].version >= docSource[d].version
     /\ \A f \in Folders : folderSource'[f].version >= folderSource[f].version]_vars

\* A source the host has deleted is not brought back by a request the host sent
\* before it deleted it.
DeletedStaysDeleted ==
  [][/\ \A d \in Documents : hostDocs[d].deleted /\ ~docSource[d].live
                               => ~docSource'[d].live
     /\ \A f \in Folders : hostFolders[f].deleted /\ ~Live(f) => ~folderSource'[f].live]_vars

(***************************************************************************)
(* The host keeps sending its newest version, or its deletion, until it is *)
(* stored: an at-least-once caller.                                        *)
(***************************************************************************)
DeliverDocument(d) ==
  \/ /\ hostDocs[d].edits # << >> /\ ~hostDocs[d].deleted
     /\ LET v == Len(hostDocs[d].edits)
        IN  /\ docSource[d].version # v \/ ~docSource[d].live
            /\ (\E x \in Extractions : IndexDocument(d, v, x)) \/ IndexBlankDocument(d, v)
  \/ hostDocs[d].deleted /\ DeleteDocument(d)

DeliverFolder(f) ==
  \/ /\ hostFolders[f].edits # << >> /\ ~hostFolders[f].deleted
     /\ IndexFolder(f, Len(hostFolders[f].edits))
  \/ hostFolders[f].deleted /\ DeleteFolder(f)

FairSpec == /\ Spec
            /\ \A d \in Documents : WF_vars(DeliverDocument(d))
            /\ \A f \in Folders : WF_vars(DeliverFolder(f))

\* Once the host stops, the manifest ends with what the host has: its newest
\* version, its content and its folders, or nothing if it was deleted or is blank.
DocumentSettled(d) ==
  LET host == hostDocs[d]
      newest == host.edits[Len(host.edits)]
  IN  host.edits # << >> =>
        IF host.deleted \/ newest.content = Blank THEN ~docSource[d].live
        ELSE /\ docSource[d].live
             /\ docSource[d].version = Len(host.edits)
             /\ newest.snapshot => member[d] = newest.folders

FolderSettled(f) ==
  LET host == hostFolders[f]
  IN  host.edits # << >> =>
        IF host.deleted THEN ~Live(f)
        ELSE Live(f) /\ folderSource[f].version = Len(host.edits)

ManifestConverges ==
  <>[]((\A d \in Documents : DocumentSettled(d)) /\ (\A f \in Folders : FolderSettled(f)))
=============================================================================
