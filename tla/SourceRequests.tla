--------------------------- MODULE SourceRequests ---------------------------
(***************************************************************************)
(* One source request of the host on its way through the core: the HTTP    *)
(* mappers normalise it, the indexing services cut a document into chunks, *)
(* ask the extractor for signals and write rows and outbox events, and a   *)
(* worker decodes the events again.                                        *)
(*                                                                         *)
(* A text is a sequence of characters: " " is white space, "-" punctuation,*)
(* "t" and "n" stand for a timestamp with and without a time zone, any     *)
(* other character for a word; one word is a UUID.  Null is an absent      *)
(* value.  A digest is what it is computed from.  Metadata, attributes     *)
(* other than a label, model names and event numbers are left out.         *)
(***************************************************************************)
EXTENDS Integers, SequencePlaces, SequencesExt, FiniteSetsExt

CONSTANTS
  Null,
  Characters,
  DocumentRequests,   \* bodies of POST /indexing/documents
  FolderRequests,     \* bodies of POST /indexing/folders
  DeletedIds,         \* ids in the path of a DELETE
  Tenants, Affected,  \* of the rows: tenants, and sequences of ids of folders that are affected
  Extractions,        \* what the language model may answer, a sequence of drafts
  Policies            \* chunking: [size, overlap]

\* A text may hold any characters; the key of a summary is a text too.
ASSUME CharactersAssumption ==
  {" ", "_", "document-summary"} \subseteq Characters /\ Null \notin Seq(Characters)

ASSUME PoliciesAssumption ==
  \A p \in Policies : /\ p.size \in Nat \ {0} /\ p.overlap \in Nat
                      /\ p.overlap < p.size

VARIABLES
  stage,      \* "received", "refused", "accepted", "failed", "written" or "decoded"
  source,     \* the request, then the command the mapper makes of it
  policy,
  rows,       \* what the transaction writes
  outbox,     \* the events it appends
  decoded     \* the commands the workers make of them; of each event none or one

sourceVars == <<stage, source, policy, rows, outbox, decoded>>

-----------------------------------------------------------------------------
(* Texts and the two sets of validators, shared/validation.py and          *)
(* message_codec.py.                                                       *)

Strip(t) ==
  LET solid == {i \in DOMAIN t : t[i] # " "}
  IN  IF solid = {} THEN <<>> ELSE SubSeq(t, Min(solid), Max(solid))

Blank(t) == Strip(t) = <<>>
IsUuid(t) == Len(Strip(t)) = 1
IsAware(t) == Strip(t) = <<"t">>

\* _string_tuple
NoBlankItem(items) == \A i \in DOMAIN items : ~Blank(items[i])
StrippedItems(items) == [i \in DOMAIN items |-> Strip(items[i])]

Valid(kind, v) ==
  CASE kind = "raw" -> TRUE
    [] kind \in {"text", "content"} -> v # Null /\ ~Blank(v)
    [] kind = "optional" -> v = Null \/ ~Blank(v)
    [] kind = "uuid" -> IsUuid(v)
    [] kind = "optional uuid" -> v = Null \/ IsUuid(v)
    [] kind = "timestamp" -> IsAware(v)
    [] kind = "items" -> NoBlankItem(v)

Value(kind, v) ==
  CASE kind \in {"raw", "content"} \/ v = Null -> v
    [] kind = "items" -> StrippedItems(v)
    [] OTHER -> Strip(v)

Conforms(schema, r) == \A f \in DOMAIN schema : Valid(schema[f], r[f])
Normalised(schema, r) == [f \in DOMAIN schema |-> Value(schema[f], r[f])]

-----------------------------------------------------------------------------
(* What the core is given: bodies that have passed pydantic, ids in a path,*)
(* objects of the model's answer, and what is in the rows, which a request *)
(* has brought there.                                                      *)

Strings == Seq(Characters)
OrNull(S) == S \cup {Null}
Stored(v) == v \in Strings /\ ~Blank(v) /\ Strip(v) = v

SourceDocumentDTO ==
  [kind : {"document"}, tenant : Strings, type : OrNull(Strings), id : Strings, version : Strings,
   title : Strings, body : Strings, created : Strings, updated : Strings,
   snapshot : OrNull([version : OrNull(Strings), folders : Seq(Strings)])]

SourceFolderDTO ==
  [kind : {"folder"}, tenant : Strings, id : Strings, version : Strings, name : Strings,
   created : Strings, updated : Strings, path : OrNull(Strings), parent : OrNull(Strings),
   description : Strings]

EvidenceDraft == [chunk : Int, quote : OrNull(Strings), start : OrNull(Int), end : OrNull(Int)]
Draft ==
  [type : STRING, text : OrNull(Strings), label : OrNull(Strings), confidence : OrNull(Int),
   evidence : Seq(EvidenceDraft)]

ASSUME RequestsAssumption ==
  /\ DocumentRequests \subseteq SourceDocumentDTO
  /\ FolderRequests \subseteq SourceFolderDTO
  /\ DeletedIds \subseteq Strings
  /\ Extractions \subseteq Seq(Draft)

ASSUME RowsAssumption ==
  /\ \A tenant \in Tenants : Stored(tenant)
  /\ Affected \subseteq Seq(Strings) /\ \A a \in Affected : \A i \in DOMAIN a : Stored(a[i])

-----------------------------------------------------------------------------
(* The HTTP mappers.                                                       *)

DocumentBody ==
  [tenant |-> "text", type |-> "optional", id |-> "uuid", version |-> "text",
   title |-> "raw", body |-> "raw", created |-> "timestamp", updated |-> "timestamp"]

FolderBody ==
  [tenant |-> "text", id |-> "uuid", version |-> "text", name |-> "text",
   created |-> "timestamp", updated |-> "timestamp", path |-> "raw",
   parent |-> "optional uuid", description |-> "raw"]

SnapshotAccepted(r) ==
  r.snapshot # Null =>
    /\ r.snapshot.version # Null => /\ ~Blank(r.snapshot.version)
                                    /\ Strip(r.snapshot.version) = Strip(r.version)
    /\ \A i \in DOMAIN r.snapshot.folders : IsUuid(r.snapshot.folders[i])

\* _unique_uuid_items: the first of equal ids, in order.
FolderIds(snapshot) ==
  IF snapshot = Null THEN Null
  ELSE LET ids == [i \in DOMAIN snapshot.folders |-> Strip(snapshot.folders[i])]
       IN  Only(ids, {i \in DOMAIN ids : \A j \in 1 .. i - 1 : ids[j] # ids[i]})

Accepted(r) ==
  CASE r.kind = "document" -> Conforms(DocumentBody, r) /\ SnapshotAccepted(r)
    [] r.kind = "folder" -> Conforms(FolderBody, r)
    [] OTHER -> IsUuid(r.id)

Command(r) ==
  CASE r.kind = "document" ->
         [kind |-> "document", document |-> Normalised(DocumentBody, r), folders |-> FolderIds(r.snapshot)]
    [] r.kind = "folder" -> [kind |-> "folder", folder |-> Normalised(FolderBody, r)]
    [] OTHER -> [r EXCEPT !.id = Strip(r.id)]

-----------------------------------------------------------------------------
(* The chunker.                                                            *)

FullText(d) == IF Blank(d.title) THEN Strip(d.body) ELSE Strip(d.title \o <<" ", " ">> \o d.body)

\* Mutant: the offsets of a chunk do not leave out the white space its text lost.
NotCounted(t) == 0

Leading(t) == Cardinality({i \in DOMAIN t : Blank(SubSeq(t, 1, i))})
Trailing(t) == Cardinality({i \in DOMAIN t : Blank(SubSeq(t, i, Len(t)))})

Chunk(d, p, index) ==
  LET text == FullText(d)
      start == index * (p.size - p.overlap)
      end == Min({Len(text), start + p.size})
      raw == SubSeq(text, start + 1, end)
  IN  [tenant |-> d.tenant, type |-> d.type, id |-> d.id, version |-> d.version,
       created |-> d.created, updated |-> d.updated, index |-> index, digest |-> <<text, p>>,
       text |-> Strip(raw), start |-> start + Leading(raw), end |-> end - Trailing(raw)]

Chunks(d, p) ==
  LET windows == {i \in 0 .. Len(FullText(d)) : i * (p.size - p.overlap) < Len(FullText(d))}
      cut == [i \in 1 .. Cardinality(windows) |-> Chunk(d, p, i - 1)]
  IN  Only(cut, {i \in DOMAIN cut : cut[i].text # <<>>})

-----------------------------------------------------------------------------
(* The signals of a document.  A draft is an object of the model's answer: *)
(* [type, text, label, confidence, evidence], confidence in percent or     *)
(* Null, a piece of evidence [chunk, quote, start, end].                   *)

Types == {"summary", "concept", "entity", "issue", "commitment", "claim"}

\* normalized_label: every run of other characters becomes one "_".
NormalizedLabel(t) ==
  LET word(i) == t[i] \notin {" ", "-"}
      kept == {i \in DOMAIN t : word(i) \/ (i > 1 /\ word(i - 1) /\ \E j \in i .. Len(t) : word(j))}
  IN  Only([i \in DOMAIN t |-> IF word(i) THEN t[i] ELSE "_"], kept)

\* key_for_type; the key of the other types is a digest of the text.
SignalKey(draft) ==
  CASE draft.type = "summary" -> <<"document-summary">>
    [] draft.type \in {"concept", "entity"} ->
         NormalizedLabel(IF draft.label = Null \/ Blank(draft.label) THEN draft.text ELSE draft.label)
    [] OTHER -> Strip(draft.text)

EvidenceAccepted(e, chunks) ==
  /\ Valid("text", e.quote)
  /\ \E i \in DOMAIN chunks : chunks[i].index = e.chunk
  /\ \A offset \in {e.start, e.end} : offset # Null => offset >= 0
  /\ e.start # Null /\ e.end # Null => e.start <= e.end

DraftAccepted(draft, chunks) ==
  /\ draft.type \in Types
  /\ Valid("text", draft.text)
  /\ draft.evidence # <<>>
  /\ \A i \in DOMAIN draft.evidence : EvidenceAccepted(draft.evidence[i], chunks)
  /\ draft.confidence # Null /\ draft.confidence \in 0 .. 100
  /\ SignalKey(draft) # <<>>

\* DocumentSignalExtractorAgent._signals
ExtractionAccepted(drafts, chunks) ==
  /\ drafts # <<>>
  /\ \A i \in DOMAIN drafts : DraftAccepted(drafts[i], chunks)
  /\ Cardinality({i \in DOMAIN drafts : drafts[i].type = "summary"}) = 1
  /\ \A i, j \in DOMAIN drafts :
       drafts[i].type = drafts[j].type /\ SignalKey(drafts[i]) = SignalKey(drafts[j]) => i = j

Signal(d, digest, draft) ==
  [tenant |-> d.tenant, type |-> d.type, id |-> d.id, version |-> d.version, digest |-> digest,
   kind |-> draft.type, key |-> SignalKey(draft), text |-> Strip(draft.text),
   evidence |-> [i \in DOMAIN draft.evidence |->
                   [draft.evidence[i] EXCEPT !.quote = Strip(draft.evidence[i].quote)]],
   confidence |-> draft.confidence]

Signals(d, digest, drafts) == [i \in DOMAIN drafts |-> Signal(d, digest, drafts[i])]

-----------------------------------------------------------------------------
(* The encoders of mappers/outbox_events.py.                               *)

Event(type, kind, tenant, id, payload) ==
  [type |-> type, kind |-> kind, tenant |-> tenant, id |-> id,
   key |-> <<kind, tenant, id>>, payload |-> payload]

\* Mutant: the profile of a document without a title has none either.
TitleAlone(d) == Strip(d.title)

ProfileTitle(d) == IF Blank(d.title) THEN d.id ELSE Strip(d.title)

DocumentIndexed(d, chunks, signals) ==
  Event("DOCUMENT_INDEXED", "document", d.tenant, d.id,
    [document |-> d, digest |-> FullText(d), chunks |-> chunks,
     profile |-> [tenant |-> d.tenant, type |-> d.type, id |-> d.id, version |-> d.version,
                  created |-> d.created, updated |-> d.updated, title |-> ProfileTitle(d),
                  content |-> FullText(d), digest |-> chunks[1].digest],
     signals |-> signals])

RelationsIndexed(d, folders) ==
  Event("DOCUMENT_FOLDER_RELATIONS_INDEXED", "document", d.tenant, d.id,
    [tenant |-> d.tenant, id |-> d.id, version |-> d.version, folders |-> folders])

DocumentDeleted(tenant, id, folders) ==
  Event("DOCUMENT_DELETED", "document", tenant, id, [tenant |-> tenant, id |-> id, folders |-> folders])

FolderIndexed(f) == Event("FOLDER_INDEXED", "folder", f.tenant, f.id, f)

FolderDeleted(tenant, id) ==
  Event("FOLDER_DELETED", "folder", tenant, id, [tenant |-> tenant, id |-> id])

SignalsInvalidated(tenant, folders) ==
  [i \in DOMAIN folders |->
     Event("FOLDER_SIGNALS_INVALIDATED", "folder", tenant, folders[i],
           [tenant |-> tenant, id |-> folders[i]])]

-----------------------------------------------------------------------------
(* The decoders of message_codec.py.                                       *)

Identity == [tenant |-> "text", id |-> "text"]

DocumentPayload ==
  [tenant |-> "text", type |-> "optional", id |-> "text", version |-> "text", created |-> "text",
   updated |-> "text", title |-> "raw"]
ProfilePayload ==
  [tenant |-> "text", type |-> "optional", id |-> "text", version |-> "text", created |-> "text",
   updated |-> "text", title |-> "content", content |-> "raw", digest |-> "raw"]
ChunkPayload ==
  [tenant |-> "text", type |-> "optional", id |-> "text", version |-> "text", created |-> "text",
   updated |-> "text", digest |-> "raw", index |-> "raw", text |-> "content", start |-> "raw",
   end |-> "raw"]
EvidencePayload == [chunk |-> "raw", quote |-> "content", start |-> "raw", end |-> "raw"]
SignalPayload ==
  [tenant |-> "text", type |-> "optional", id |-> "text", version |-> "text", digest |-> "raw",
   kind |-> "raw", key |-> "text", text |-> "content", evidence |-> "raw", confidence |-> "raw"]
RelationsPayload == [tenant |-> "text", id |-> "text", version |-> "text", folders |-> "items"]
DeletedPayload == [tenant |-> "text", id |-> "text", folders |-> "items"]
FolderPayload ==
  [tenant |-> "text", id |-> "text", version |-> "text", name |-> "content", created |-> "text",
   updated |-> "text", path |-> "raw", parent |-> "optional", description |-> "raw"]

Each(schema, items) == \A i \in DOMAIN items : Conforms(schema, items[i])
NormalisedEach(schema, items) == [i \in DOMAIN items |-> Normalised(schema, items[i])]

\* _validate_document_indexed_command
Context(r) == <<Strip(r.tenant), Strip(r.id), Strip(r.version)>>
ContextsAgree(p) ==
  /\ Context(p.profile) = Context(p.document)
  /\ p.profile.content = p.digest
  /\ \A i \in DOMAIN p.chunks : Context(p.chunks[i]) = Context(p.document)
                                /\ p.chunks[i].digest = p.profile.digest
  /\ \A i \in DOMAIN p.signals : Context(p.signals[i]) = Context(p.document)
                                 /\ p.signals[i].digest = p.profile.digest

DecodesPayload(type, p) ==
  CASE type = "DOCUMENT_INDEXED" ->
         /\ Conforms(DocumentPayload, p.document) /\ Conforms(ProfilePayload, p.profile)
         /\ Each(ChunkPayload, p.chunks) /\ Each(SignalPayload, p.signals)
         /\ \A i \in DOMAIN p.signals : Each(EvidencePayload, p.signals[i].evidence)
         /\ ContextsAgree(p)
    [] type = "DOCUMENT_FOLDER_RELATIONS_INDEXED" -> Conforms(RelationsPayload, p)
    [] type = "DOCUMENT_DELETED" -> Conforms(DeletedPayload, p)
    [] type = "FOLDER_INDEXED" -> Conforms(FolderPayload, p)
    [] OTHER -> Conforms(Identity, p)

PayloadCommand(type, p) ==
  CASE type = "DOCUMENT_INDEXED" ->
         [document |-> Normalised(DocumentPayload, p.document), chunks |-> NormalisedEach(ChunkPayload, p.chunks),
          signals |-> NormalisedEach(SignalPayload, p.signals), digest |-> p.profile.digest]
    [] type = "DOCUMENT_FOLDER_RELATIONS_INDEXED" -> Normalised(RelationsPayload, p)
    [] type = "DOCUMENT_DELETED" -> Normalised(DeletedPayload, p)
    [] type = "FOLDER_INDEXED" -> Normalised(FolderPayload, p)
    [] OTHER -> Normalised(Identity, p)

Named(type, p) == IF type = "DOCUMENT_INDEXED" THEN p.document ELSE p

Decodes(e) ==
  /\ Conforms(Identity, e)
  /\ e.key = <<e.kind, Strip(e.tenant), Strip(e.id)>>
  /\ DecodesPayload(e.type, e.payload)
  /\ Normalised(Identity, Named(e.type, e.payload)) = Normalised(Identity, e)

-----------------------------------------------------------------------------
SourceInit ==
  /\ stage = "received"
  /\ source \in DocumentRequests \cup FolderRequests
                \cup [kind : {"delete document", "delete folder"}, id : DeletedIds]
  /\ policy \in Policies
  /\ rows = Null
  /\ outbox = <<>>
  /\ decoded = <<>>

NoSource ==
  /\ stage = "none"
  /\ source = Null /\ policy = Null /\ rows = Null
  /\ outbox = <<>> /\ decoded = <<>>

Receive ==
  /\ stage = "received"
  /\ IF Accepted(source)
     THEN stage' = "accepted" /\ source' = Command(source)
     ELSE stage' = "refused" /\ source' = source
  /\ UNCHANGED <<policy, rows, outbox, decoded>>

Serves(kind) == stage = "accepted" /\ source.kind = kind

\* A transaction that writes r and appends the events.
Write(r, events) ==
  /\ stage' = "written"
  /\ rows' = r
  /\ outbox' = events
  /\ UNCHANGED <<source, policy, decoded>>

\* The folders whose signals the write invalidates are those of the document
\* before and after it, or their ancestors: any sequence of Affected.
IndexDocument(drafts, invalidated) ==
  LET d == source.document
      chunks == Chunks(d, policy)
      signals == Signals(d, chunks[1].digest, drafts)
  IN  /\ Serves("document")
      /\ chunks # <<>>
      /\ ExtractionAccepted(drafts, chunks)
      /\ Write([document |-> d, chunks |-> chunks, signals |-> signals, folders |-> source.folders],
               <<DocumentIndexed(d, chunks, signals)>>
               \o (IF source.folders = Null THEN <<>> ELSE <<RelationsIndexed(d, source.folders)>>)
               \o SignalsInvalidated(d.tenant, invalidated))

\* The answer is rejected: nothing is written.
FailExtraction(drafts) ==
  /\ Serves("document")
  /\ LET chunks == Chunks(source.document, policy)
     IN  chunks # <<>> /\ ~ExtractionAccepted(drafts, chunks)
  /\ stage' = "failed"
  /\ UNCHANGED <<source, policy, rows, outbox, decoded>>

\* _delete_empty_document
DropEmptyDocument(affected) ==
  LET d == source.document
  IN  /\ Serves("document")
      /\ Chunks(d, policy) = <<>>
      /\ Write([tenant |-> d.tenant, id |-> d.id, folders |-> affected],
               <<DocumentDeleted(d.tenant, d.id, affected)>> \o SignalsInvalidated(d.tenant, affected))

IndexFolder(invalidated) ==
  /\ Serves("folder")
  /\ Write(source.folder,
           <<FolderIndexed(source.folder)>> \o SignalsInvalidated(source.folder.tenant, invalidated))

\* The tenant is that of the rows; a source that has none is left alone.
Delete(tenant, affected) ==
  \/ /\ Serves("delete document")
     /\ Write([tenant |-> tenant, id |-> source.id, folders |-> affected],
              <<DocumentDeleted(tenant, source.id, affected)>> \o SignalsInvalidated(tenant, affected))
  \/ /\ Serves("delete folder")
     /\ Write([tenant |-> tenant, id |-> source.id],
              <<FolderDeleted(tenant, source.id)>> \o SignalsInvalidated(tenant, affected))

DecodeNext ==
  /\ stage = "written"
  /\ Len(decoded) < Len(outbox)
  /\ LET e == outbox[Len(decoded) + 1]
     IN  decoded' = Append(decoded, IF Decodes(e) THEN {PayloadCommand(e.type, e.payload)} ELSE {})
  /\ UNCHANGED <<stage, source, policy, rows, outbox>>

SourceNext ==
  \/ Receive
  \/ \E drafts \in Extractions : FailExtraction(drafts) \/ \E a \in Affected : IndexDocument(drafts, a)
  \/ \E a \in Affected : \/ DropEmptyDocument(a) \/ IndexFolder(a)
                          \/ \E tenant \in Tenants : Delete(tenant, a)
  \/ DecodeNext

SourceSpec == SourceInit /\ [][SourceNext]_sourceVars

-----------------------------------------------------------------------------
Fields(schema, r) == [f \in DOMAIN schema |-> r[f]]

\* What the rows say of the payload of an event.
Recorded(e) ==
  CASE e.type = "DOCUMENT_INDEXED" ->
         [document |-> Fields(DocumentPayload, rows.document), chunks |-> rows.chunks,
          signals |-> rows.signals, digest |-> <<FullText(rows.document), policy>>]
    [] e.type = "DOCUMENT_FOLDER_RELATIONS_INDEXED" ->
         [tenant |-> rows.document.tenant, id |-> rows.document.id,
          version |-> rows.document.version, folders |-> rows.folders]
    [] e.type = "FOLDER_SIGNALS_INVALIDATED" -> [tenant |-> e.tenant, id |-> e.id]
    [] OTHER -> rows

(***************************************************************************)
(* Every event of an accepted request is accepted by the worker, and what  *)
(* the worker makes of it is what the transaction wrote: the texts of the  *)
(* host and of the language model pass three different sets of validators  *)
(* (HTTP mapper, indexing services, message codec) that must agree on what *)
(* is blank, stripped or absent.                                           *)
(***************************************************************************)
AcceptedIsDecoded ==
  \A i \in DOMAIN decoded : decoded[i] = {Recorded(outbox[i])}

(***************************************************************************)
(* The chunks of a document are pieces of its text, at the offsets they    *)
(* state and within the size of the policy, and no word of the text is     *)
(* missing from all of them.                                               *)
(***************************************************************************)
ChunksCoverText ==
  stage = "written" /\ source.kind = "document" /\ Chunks(source.document, policy) # <<>> =>
    LET text == FullText(rows.document)
        all == ToSet(rows.chunks)
    IN  /\ \A c \in all : /\ c.text = SubSeq(text, c.start + 1, c.end)
                          /\ Len(c.text) <= policy.size
        /\ \A k \in DOMAIN text : text[k] = " " \/ \E c \in all : c.start < k /\ k <= c.end
=============================================================================
