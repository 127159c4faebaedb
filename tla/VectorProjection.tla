-------------------------- MODULE VectorProjection --------------------------
(***************************************************************************)
(* DocumentVectorProjectionService and FolderVectorProjectionService: what *)
(* a worker of one of the four Qdrant targets does with an event.  A       *)
(* handler reads whether the event is current, computes embeddings, deletes*)
(* points and upserts others by two calls of Qdrant, and then brings the   *)
(* projection ledger into line in a transaction of Postgres.               *)
(*                                                                         *)
(* A point is what the filters, the ledger and the search results depend   *)
(* on: the item it is the vector of, the text that was embedded            *)
(* (vector_input_digest), and the source_version and source_input_digest of*)
(* its payload.  The first two make its id, so an item that is embedded    *)
(* anew gets another point; the ledger has one row per item.               *)
(***************************************************************************)
EXTENDS ProjectionFeed, Sequences

CONSTANT ChunkCount     \* chunks of a content

VARIABLES
  points,               \* the target's Qdrant collection, per source
  ledger                \* vector_projection_records of that collection, per source

vectorVars == <<points, ledger>>

ASSUME ChunkAssumption ==
  ChunkCount \in [Contents -> Nat] /\ \A c \in Contents : c = Blank <=> ChunkCount[c] = 0

(***************************************************************************)
(* The projections made of an event, which become the points.  The digest  *)
(* is of a document's content, of a folder's own fields, of a folder's     *)
(* signal input; it is part of the ids of chunks and signals.  A chunk's   *)
(* own text is the only one that goes with its id.  Every extraction has   *)
(* a summary, under the same id, and signals with ids of their own.        *)
(***************************************************************************)
ChunkVectors(e) ==
  {[item |-> <<e.content, i>>, input |-> <<e.content, i>>, version |-> e.version,
    digest |-> e.content] : i \in 1..ChunkCount[e.content]}
DocumentVector(e) ==
  [item |-> "document", input |-> <<e.content, e.extraction>>, version |-> e.version,
   digest |-> e.content]
DocumentSignalVectors(e) ==
  [item : {<<e.content, "summary">>, <<e.content, e.extraction>>}, input : {e.extraction},
   version : {e.version}, digest : {e.content}]
FolderVector(e) ==
  [item |-> "folder", input |-> e.label, version |-> e.version,
   digest |-> [parent |-> e.parent, label |-> e.label]]
FolderSignalVectors(e) ==
  [item : {<<e.input, about>> : about \in e.related \cup {"self"}}, input : {e.input},
   version : {0}, digest : {e.input}]

PointsOf(e) ==
  CASE e.type = "FOLDER_SIGNALS_INDEXED" -> FolderSignalVectors(e)
    [] e.type = "FOLDER_INDEXED" -> {FolderVector(e)}
    [] scenario.target = "chunks" -> ChunkVectors(e)
    [] scenario.target = "documents" -> {DocumentVector(e)}
    [] OTHER -> DocumentSignalVectors(e)

\* Equal point ids.
SamePoint(p, q) == p.item = q.item /\ p.input = q.input

(***************************************************************************)
(* The writes of the stores.  Each step is a call of Qdrant.               *)
(***************************************************************************)
ReplaceDocumentChunks == <<"clear", "upsert">>
DeleteDocumentChunks == <<"clear">>
\* Mutant: the point of the document's earlier text is left.
UpsertDocumentVectorOnly == <<"upsert">>
UpsertDocumentVector == <<"clear", "upsert">>
DeleteDocumentVector == <<"clear">>
ReplaceDocumentSignals == <<"clear", "upsert">>
DeleteDocumentSignals == <<"clear">>
ReplaceFolderSignalPoints == <<"clear", "upsert">>
DeleteFolderSignals == <<"clear">>
DeleteStaleFolderSignals == <<"clearStale">>
UpsertFolderVector == <<"clear", "upsert">>
DeleteFolderVector == <<"clear">>

(***************************************************************************)
(* The handlers of the services.  An embedding changes nothing; it is the  *)
(* time that passes between the check and the first write.                 *)
(***************************************************************************)
ProjectDocumentChunks == <<"check">> \o ReplaceDocumentChunks \o <<"recordAll">>
DropDocumentChunks == DeleteDocumentChunks \o <<"forgetAll">>
ProjectDocumentVector == <<"check">> \o UpsertDocumentVector \o <<"recordOne">>
DropDocumentVector == DeleteDocumentVector \o <<"forgetAll">>
ProjectDocumentSignals == <<"check">> \o ReplaceDocumentSignals \o <<"recordAll">>
DropDocumentSignals == DeleteDocumentSignals \o <<"forgetAll">>
ProjectFolderVector == <<"check">> \o UpsertFolderVector \o <<"recordOne">>
DropFolderVector == DeleteFolderVector \o <<"forgetAll">>
ProjectFolderSignals == <<"check">> \o ReplaceFolderSignalPoints \o <<"recordAll">>
InvalidateFolderSignals == <<"check">> \o DeleteStaleFolderSignals \o <<"forgetStale">>
DropFolderSignalVectors == DeleteFolderSignals \o <<"forgetAll">>

(***************************************************************************)
(* The consumers of each target.                                           *)
(***************************************************************************)
ChunkSteps(e) ==
  IF e.type = "DOCUMENT_DELETED" THEN DropDocumentChunks ELSE ProjectDocumentChunks
DocumentSteps(e) ==
  IF e.type = "DOCUMENT_DELETED" THEN DropDocumentVector ELSE ProjectDocumentVector
DocumentSignalSteps(e) ==
  IF e.type = "DOCUMENT_DELETED" THEN DropDocumentSignals ELSE ProjectDocumentSignals
FolderSteps(e) ==
  IF e.type = "FOLDER_DELETED" THEN DropFolderVector ELSE ProjectFolderVector
FolderSignalSteps(e) ==
  CASE e.type = "FOLDER_SIGNALS_INDEXED" -> ProjectFolderSignals
    [] e.type = "FOLDER_SIGNALS_INVALIDATED" -> InvalidateFolderSignals
    [] e.type = "FOLDER_DELETED" -> DropFolderSignalVectors
SignalSteps(e) ==
  IF e.type \in {"DOCUMENT_INDEXED", "DOCUMENT_DELETED"} THEN DocumentSignalSteps(e)
  ELSE FolderSignalSteps(e)

VectorSteps(e) ==
  CASE scenario.target = "chunks" -> ChunkSteps(e)
    [] scenario.target = "documents" -> DocumentSteps(e)
    [] scenario.target = "signals" -> SignalSteps(e)
    [] scenario.target = "folders" -> FolderSteps(e)

-----------------------------------------------------------------------------
\* Mutant: what is stale is kept, and what is current goes.
OfOtherDigests(stored, digest) == {r \in stored : r.digest # digest}
OfDigest(stored, digest) == {r \in stored : r.digest = digest}

\* delete_by_filter and upsert_points of the collection.
Clear(s) == points' = [points EXCEPT ![s] = {}] /\ UNCHANGED ledger
ClearStale(s, e) == points' = [points EXCEPT ![s] = OfDigest(@, e.input)] /\ UNCHANGED ledger
Upsert(s, e) ==
  /\ points' = [points EXCEPT ![s] =
       {p \in @ : \A n \in PointsOf(e) : ~SamePoint(n, p)} \cup PointsOf(e)]
  /\ UNCHANGED ledger

\* A record of the ledger (item and input give its point_id), and the row of the same
\* item it is upserted into.
Record(point) == [item |-> point.item, input |-> point.input, digest |-> point.digest]
Records(ps) == {Record(p) : p \in ps}
UpsertRecords(rows, new) == {r \in rows : \A n \in new : n.item # r.item} \cup new

RecordAll(s, e) ==
  /\ ledger' = [ledger EXCEPT ![s] = UpsertRecords({}, Records(PointsOf(e)))]
  /\ UNCHANGED points
RecordOne(s, e) ==
  /\ ledger' = [ledger EXCEPT ![s] = UpsertRecords(@, Records(PointsOf(e)))]
  /\ UNCHANGED points
ForgetAll(s) == ledger' = [ledger EXCEPT ![s] = {}] /\ UNCHANGED points
ForgetStale(s, e) == ledger' = [ledger EXCEPT ![s] = OfDigest(@, e.input)] /\ UNCHANGED points

VectorWrite(s, e, step) ==
  \/ step = "clear" /\ Clear(s)
  \/ step = "clearStale" /\ ClearStale(s, e)
  \/ step = "upsert" /\ Upsert(s, e)
  \/ step = "recordAll" /\ RecordAll(s, e)
  \/ step = "recordOne" /\ RecordOne(s, e)
  \/ step = "forgetAll" /\ ForgetAll(s)
  \/ step = "forgetStale" /\ ForgetStale(s, e)

VectorInit ==
  /\ points = [s \in Sources |-> {}]
  /\ ledger = [s \in Sources |-> {}]

\* What the collection should hold of a source, by the manifest.
ManifestPoints(s) ==
  IF s \in Documents
  THEN IF ~docSource[s].live \/ scenario.target = "folders" THEN {}
       ELSE PointsOf(DocumentIndexed(docSource[s].version, docSource[s].content,
                                     docIndex[s].extraction))
  ELSE IF ~Live(s) \/ scenario.target # "folders" THEN {}
       ELSE PointsOf(FolderIndexed(folderSource[s].version, folderSource[s].parent,
                                   folderSource[s].label))
=============================================================================
