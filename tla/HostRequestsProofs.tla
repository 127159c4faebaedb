------------------------- MODULE HostRequestsProofs -------------------------
(***************************************************************************)
(* Proofs about what a request of the host goes through.                   *)
(*                                                                         *)
(* A source, on its way through the core (SourceRequests): what one of the *)
(* three sets of validators lets through passes the next, and the chunks of*)
(* a document cover its text.                                              *)
(*                                                                         *)
(* A task (TaskSteps), for all plans the language model may answer, all    *)
(* texts and all states of the stores: a plan that is accepted puts a      *)
(* search before what is written from it, a search is followed by a result,*)
(* and the host's actions wait for actions before them, and for the host.  *)
(* A search stays in its scope and keeps the order of its lists, no folder *)
(* is recommended that a document is already in, and the chunks that speak *)
(* for a signal are of what the search had found.                          *)
(***************************************************************************)
EXTENDS SourceRequests, TaskSteps, SequencePlacesProofs

-----------------------------------------------------------------------------
(* Texts.                                                                  *)

LEMMA Extremes ==
  ASSUME NEW n \in Nat, NEW S \in SUBSET (1..n), S # {}
  PROVE  /\ Min(S) \in S /\ Max(S) \in S
         /\ \A i \in S : Min(S) <= i /\ i <= Max(S)
<1>1. Least(S) \in S /\ \A j \in S : Least(S) <= j
  <2>1. S \in SUBSET Nat
    OBVIOUS
  <2> QED BY <2>1, LeastNatural
<1>2. Min(S) \in S /\ \A i \in S : Min(S) <= i
  BY <1>1 DEF Min
<1>3. Max(S) \in S /\ \A i \in S : i <= Max(S)
  <2> DEFINE R == {n - i : i \in S}
  <2>1. R \in SUBSET Nat /\ R # {}
    <3>1. \A i \in S : n - i \in Nat
      OBVIOUS
    <3>2. R \in SUBSET Nat
      BY <3>1
    <3>3. R # {}
      OBVIOUS
    <3> QED BY <3>2, <3>3
  <2>2. Least(R) \in R /\ \A j \in R : Least(R) <= j
    BY <2>1, LeastNatural
  <2>3. PICK i \in S : Least(R) = n - i
    BY <2>2
  <2>4. ASSUME NEW j \in S PROVE j <= i
    <3>1. n - j \in R
      OBVIOUS
    <3>2. n - i <= n - j
      BY <2>2, <2>3, <3>1
    <3>3. i \in 1..n /\ j \in 1..n
      OBVIOUS
    <3> QED BY <3>2, <3>3
  <2>5. \A j \in S : j <= i
    BY <2>4
  <2>6. \E x \in S : \A y \in S : x >= y
    BY <2>5
  <2>7. Max(S) \in S /\ \A y \in S : Max(S) >= y
    BY <2>6 DEF Max
  <2> QED BY <2>7
<1> QED BY <1>2, <1>3

Solid(t) == {i \in DOMAIN t : t[i] # " "}

\* What is left of a text: from its first to its last character that is not white space.
LEMMA StripIs ==
  ASSUME NEW t \in Strings
  PROVE  /\ DOMAIN t = 1..Len(t) /\ Len(t) \in Nat
         /\ Solid(t) \in SUBSET (1..Len(t))
         /\ Solid(t) = {} => Strip(t) = <<>>
         /\ Solid(t) # {} =>
              /\ Min(Solid(t)) \in Solid(t) /\ Max(Solid(t)) \in Solid(t)
              /\ \A i \in Solid(t) : Min(Solid(t)) <= i /\ i <= Max(Solid(t))
              /\ Strip(t) = SubSeq(t, Min(Solid(t)), Max(Solid(t)))
              /\ Len(Strip(t)) = Max(Solid(t)) - Min(Solid(t)) + 1
              /\ \A k \in 1..Len(Strip(t)) : Strip(t)[k] = t[Min(Solid(t)) + k - 1]
         /\ Strip(t) \in Strings
         /\ Blank(t) <=> Solid(t) = {}
<1>1. DOMAIN t = 1..Len(t) /\ Len(t) \in Nat /\ \A i \in 1..Len(t) : t[i] \in Characters
  BY DEF Strings
<1>2. Solid(t) \in SUBSET (1..Len(t))
  BY <1>1 DEF Solid
<1>3. CASE Solid(t) = {}
  <2>1. Strip(t) = <<>>
    BY <1>3 DEF Strip, Solid
  <2>2. <<>> \in Strings
    BY DEF Strings
  <2> QED BY <1>1, <1>2, <1>3, <2>1, <2>2 DEF Blank
<1>4. CASE Solid(t) # {}
  <2> DEFINE a == Min(Solid(t))
             b == Max(Solid(t))
  <2>1. /\ a \in Solid(t) /\ b \in Solid(t)
        /\ \A i \in Solid(t) : a <= i /\ i <= b
    BY <1>1, <1>2, <1>4, Extremes
  <2>2. Strip(t) = SubSeq(t, a, b)
    BY <1>4 DEF Strip, Solid
  <2>3. a \in 1..Len(t) /\ b \in 1..Len(t) /\ a <= b
    BY <1>2, <2>1
  <2> HIDE DEF a, b
  <2>4. a \in Int /\ b \in Int /\ \A i \in a..b : t[i] \in Characters
    BY <1>1, <2>3
  <2>5. /\ SubSeq(t, a, b) \in Seq(Characters)
        /\ Len(SubSeq(t, a, b)) = IF a <= b THEN b - a + 1 ELSE 0
        /\ \A i \in 1 .. b - a + 1 : SubSeq(t, a, b)[i] = t[a + i - 1]
    BY <2>4, SubSeqProperties
  <2>6. /\ Strip(t) \in Strings /\ Len(Strip(t)) = b - a + 1
        /\ \A k \in 1..Len(Strip(t)) : Strip(t)[k] = t[a + k - 1]
    BY <2>2, <2>3, <2>5 DEF Strings
  <2>7. ~Blank(t)
    <3>1. Len(Strip(t)) > 0
      BY <2>3, <2>6
    <3> QED BY <3>1 DEF Blank
  <2> QED BY <1>1, <1>2, <1>4, <2>1, <2>2, <2>6, <2>7 DEF a, b
<1> QED BY <1>3, <1>4

LEMMA StoredIf ==
  ASSUME NEW t \in Strings, 1 \in Solid(t), Len(t) \in Solid(t)
  PROVE  Stored(t)
<1>1. /\ Len(t) \in Nat /\ Solid(t) \in SUBSET (1..Len(t))
      /\ Min(Solid(t)) \in Solid(t) /\ Max(Solid(t)) \in Solid(t)
      /\ Min(Solid(t)) <= 1 /\ Len(t) <= Max(Solid(t))
  BY StripIs
<1>2. Min(Solid(t)) = 1 /\ Max(Solid(t)) = Len(t)
  <2>1. \A i \in 1..Len(t) : (i <= 1 => i = 1) /\ (Len(t) <= i => i = Len(t))
    BY <1>1
  <2> QED BY <1>1, <2>1
<1>3. Strip(t) = SubSeq(t, 1, Len(t)) /\ ~Blank(t)
  BY <1>2, StripIs
<1>4. SubSeq(t, 1, Len(t)) = t
  BY SubSeqFull DEF Strings
<1> QED BY <1>3, <1>4 DEF Stored

\* A validator that strips a text leaves one that no later validator changes.
LEMMA Stripped ==
  ASSUME NEW t \in Strings, ~Blank(t)
  PROVE  Stored(Strip(t))
<1> DEFINE a == Min(Solid(t))
           b == Max(Solid(t))
           s == Strip(t)
<1>1. /\ Len(t) \in Nat /\ Solid(t) \in SUBSET (1..Len(t)) /\ a \in Solid(t) /\ b \in Solid(t) /\ a <= b
      /\ s \in Strings /\ Len(s) = b - a + 1
      /\ \A k \in 1..Len(s) : s[k] = t[a + k - 1]
  BY StripIs
<1> HIDE DEF a, b, s
<1>2. a \in Nat /\ b \in Nat /\ Len(s) >= 1
  BY <1>1
<1>3. s[1] = t[a] /\ s[Len(s)] = t[b]
  <2>1. a + 1 - 1 = a /\ a + Len(s) - 1 = b /\ 1 \in 1..Len(s) /\ Len(s) \in 1..Len(s)
    BY <1>1, <1>2
  <2> QED BY <1>1, <2>1
<1>4. DOMAIN s = 1..Len(s) /\ 1 \in 1..Len(s) /\ Len(s) \in 1..Len(s)
  <2>1. DOMAIN s = 1..Len(s)
    BY <1>1, StripIs
  <2> QED BY <1>2, <2>1
<1>5. 1 \in Solid(s) /\ Len(s) \in Solid(s)
  BY <1>1, <1>3, <1>4 DEF Solid
<1>6. Stored(s)
  BY <1>1, <1>5, StoredIf
<1> QED BY <1>6 DEF s

-----------------------------------------------------------------------------
(* The validators.                                                         *)

Kept == {t \in Strings : Stored(t)}

LEMMA EmptyIsShort ==
  /\ \A s : Len(s) = 1 => s # <<>>
  /\ \A x : <<x>> # <<>>
OBVIOUS

LEMMA NullIsNoText == Null \notin Strings /\ Null \notin Kept
BY CharactersAssumption DEF Strings, Kept

\* A text that a validator of the HTTP mappers strips is stored, or absent.
LEMMA MappedText ==
  ASSUME NEW v \in Strings, NEW kind \in {"text", "uuid", "timestamp", "optional", "optional uuid"},
         Valid(kind, v)
  PROVE  Value(kind, v) \in Kept
<1>1. v # Null
  BY NullIsNoText
<1>2. ~Blank(v)
  <2>1. CASE kind \in {"text", "optional"}
    BY <1>1, <2>1 DEF Valid
  <2>2. CASE kind \in {"uuid", "optional uuid"}
    <3>1. Len(Strip(v)) = 1
      BY <1>1, <2>2 DEF Valid, IsUuid
    <3>2. Strip(v) # <<>>
      BY <3>1, EmptyIsShort
    <3> QED BY <3>2 DEF Blank
  <2>3. CASE kind = "timestamp"
    <3>1. Strip(v) = <<"t">>
      BY <2>3 DEF Valid, IsAware
    <3> QED BY <3>1, EmptyIsShort DEF Blank
  <2> QED BY <2>1, <2>2, <2>3
<1>3. Value(kind, v) = Strip(v)
  BY <1>1 DEF Value
<1>4. Stored(Strip(v))
  BY <1>2, Stripped
<1> QED BY <1>3, <1>4 DEF Kept, Stored

\* The values that a validator of the message codec accepts and leaves as they are.
Fits(kind, v) ==
  \/ kind = "raw"
  \/ kind = "text" /\ v \in Kept
  \/ kind = "content" /\ v \in Strings /\ ~Blank(v)
  \/ kind = "optional" /\ v \in OrNull(Kept)
  \/ kind = "items" /\ v \in Seq(Kept)

LEMMA FitsIsKept ==
  ASSUME NEW kind, NEW v, Fits(kind, v)
  PROVE  Valid(kind, v) /\ Value(kind, v) = v
<1>1. CASE kind = "raw"
  BY <1>1 DEF Valid, Value
<1>2. CASE kind = "text" /\ v \in Kept
  BY <1>2, NullIsNoText DEF Valid, Value, Kept, Stored
<1>3. CASE kind = "content" /\ v \in Strings /\ ~Blank(v)
  BY <1>3, NullIsNoText DEF Valid, Value
<1>4. CASE kind = "optional" /\ v \in OrNull(Kept)
  BY <1>4, NullIsNoText DEF Valid, Value, Kept, Stored, OrNull
<1>5. CASE kind = "items" /\ v \in Seq(Kept)
  <2>1. \A i \in DOMAIN v : v[i] \in Kept
    BY <1>5
  <2>2. NoBlankItem(v) /\ StrippedItems(v) = [i \in DOMAIN v |-> v[i]]
    BY <2>1 DEF NoBlankItem, StrippedItems, Kept, Stored
  <2>3. StrippedItems(v) = v
    BY <1>5, <2>2
  <2>4. Value(kind, v) = v
    BY <1>5, <2>3 DEF Value
  <2> QED BY <1>5, <2>2, <2>4 DEF Valid
<1> QED BY <1>1, <1>2, <1>3, <1>4, <1>5 DEF Fits

LEMMA FieldsFit ==
  ASSUME NEW schema, NEW r, \A f \in DOMAIN schema : Fits(schema[f], r[f])
  PROVE  Conforms(schema, r) /\ Normalised(schema, r) = Fields(schema, r)
<1>1. \A f \in DOMAIN schema : Valid(schema[f], r[f]) /\ Value(schema[f], r[f]) = r[f]
  BY FitsIsKept
<1>2. Conforms(schema, r)
  BY <1>1 DEF Conforms
<1>3. Normalised(schema, r) = Fields(schema, r)
  BY <1>1 DEF Normalised, Fields
<1> QED BY <1>2, <1>3

-----------------------------------------------------------------------------
(* What the HTTP mappers make of a request.                                *)

KeptDocument ==
  [tenant : Kept, type : OrNull(Kept), id : Kept, version : Kept, title : Strings, body : Strings,
   created : Kept, updated : Kept]
KeptFolder ==
  [tenant : Kept, id : Kept, version : Kept, name : Kept, created : Kept, updated : Kept,
   path : OrNull(Strings), parent : OrNull(Kept), description : Strings]

DocumentCommand ==
  [kind : {"document"}, document : KeptDocument, folders : OrNull(Seq(Kept))]
FolderCommand == [kind : {"folder"}, folder : KeptFolder]
DeleteCommand == [kind : {"delete document", "delete folder"}, id : Kept]
Commands == DocumentCommand \cup FolderCommand \cup DeleteCommand

LEMMA MappedDocument ==
  ASSUME NEW r \in SourceDocumentDTO, Conforms(DocumentBody, r)
  PROVE  Normalised(DocumentBody, r) \in KeptDocument
<1>1. /\ r.tenant \in Strings /\ r.id \in Strings /\ r.version \in Strings /\ r.title \in Strings
      /\ r.body \in Strings /\ r.created \in Strings /\ r.updated \in Strings
      /\ r.type \in OrNull(Strings)
  BY DEF SourceDocumentDTO
<1>2. DOMAIN DocumentBody = {"tenant", "type", "id", "version", "title", "body", "created", "updated"}
  BY DEF DocumentBody
<1>3. /\ Valid("text", r.tenant) /\ Valid("optional", r.type) /\ Valid("uuid", r.id)
      /\ Valid("text", r.version) /\ Valid("timestamp", r.created) /\ Valid("timestamp", r.updated)
  BY <1>2 DEF Conforms, DocumentBody
<1>4. /\ Value("text", r.tenant) \in Kept /\ Value("uuid", r.id) \in Kept
      /\ Value("text", r.version) \in Kept /\ Value("timestamp", r.created) \in Kept
      /\ Value("timestamp", r.updated) \in Kept
  BY <1>1, <1>3, MappedText
<1>5. Value("optional", r.type) \in OrNull(Kept)
  <2>1. CASE r.type = Null
    BY <2>1 DEF Value, OrNull
  <2>2. CASE r.type \in Strings
    BY <1>3, <2>2, MappedText DEF OrNull
  <2> QED BY <1>1, <2>1, <2>2 DEF OrNull
<1>6. Value("raw", r.title) = r.title /\ Value("raw", r.body) = r.body
  BY DEF Value
<1>7. Normalised(DocumentBody, r) =
        [tenant |-> Value("text", r.tenant), type |-> Value("optional", r.type),
         id |-> Value("uuid", r.id), version |-> Value("text", r.version), title |-> r.title,
         body |-> r.body, created |-> Value("timestamp", r.created),
         updated |-> Value("timestamp", r.updated)]
  BY <1>6 DEF Normalised, DocumentBody
<1> QED BY <1>1, <1>4, <1>5, <1>7 DEF KeptDocument

LEMMA MappedFolder ==
  ASSUME NEW r \in SourceFolderDTO, Conforms(FolderBody, r)
  PROVE  Normalised(FolderBody, r) \in KeptFolder
<1>1. /\ r.tenant \in Strings /\ r.id \in Strings /\ r.version \in Strings /\ r.name \in Strings
      /\ r.created \in Strings /\ r.updated \in Strings /\ r.path \in OrNull(Strings)
      /\ r.parent \in OrNull(Strings) /\ r.description \in Strings
  BY DEF SourceFolderDTO
<1>2. DOMAIN FolderBody =
        {"tenant", "id", "version", "name", "created", "updated", "path", "parent", "description"}
  BY DEF FolderBody
<1>3. /\ Valid("text", r.tenant) /\ Valid("uuid", r.id) /\ Valid("text", r.version)
      /\ Valid("text", r.name) /\ Valid("timestamp", r.created) /\ Valid("timestamp", r.updated)
      /\ Valid("optional uuid", r.parent)
  BY <1>2 DEF Conforms, FolderBody
<1>4. /\ Value("text", r.tenant) \in Kept /\ Value("uuid", r.id) \in Kept
      /\ Value("text", r.version) \in Kept /\ Value("text", r.name) \in Kept
      /\ Value("timestamp", r.created) \in Kept /\ Value("timestamp", r.updated) \in Kept
  BY <1>1, <1>3, MappedText
<1>5. Value("optional uuid", r.parent) \in OrNull(Kept)
  <2>1. CASE r.parent = Null
    BY <2>1 DEF Value, OrNull
  <2>2. CASE r.parent \in Strings
    BY <1>3, <2>2, MappedText DEF OrNull
  <2> QED BY <1>1, <2>1, <2>2 DEF OrNull
<1>6. Value("raw", r.path) = r.path /\ Value("raw", r.description) = r.description
  BY DEF Value
<1> DEFINE n == Normalised(FolderBody, r)
<1>7. DOMAIN n = DOMAIN FolderBody /\ n = [f \in DOMAIN FolderBody |-> n[f]]
  BY DEF Normalised
<1>8. \A f \in DOMAIN FolderBody : n[f] = Value(FolderBody[f], r[f])
  BY DEF Normalised
<1>9. /\ n["tenant"] = Value("text", r.tenant) /\ n["id"] = Value("uuid", r.id)
      /\ n["version"] = Value("text", r.version) /\ n["name"] = Value("text", r.name)
      /\ n["created"] = Value("timestamp", r.created) /\ n["updated"] = Value("timestamp", r.updated)
      /\ n["path"] = Value("raw", r.path) /\ n["parent"] = Value("optional uuid", r.parent)
      /\ n["description"] = Value("raw", r.description)
  <2> HIDE DEF n
  <2> QED BY <1>2, <1>8 DEF FolderBody
<1>10. /\ n["tenant"] \in Kept /\ n["id"] \in Kept /\ n["version"] \in Kept /\ n["name"] \in Kept
       /\ n["created"] \in Kept /\ n["updated"] \in Kept /\ n["path"] \in OrNull(Strings)
       /\ n["parent"] \in OrNull(Kept) /\ n["description"] \in Strings
  <2> HIDE DEF n
  <2> QED BY <1>1, <1>4, <1>5, <1>6, <1>9
<1> HIDE DEF n
<1>11. n \in KeptFolder
  BY <1>2, <1>7, <1>10 DEF KeptFolder
<1> QED BY <1>11 DEF n

\* The folders of a snapshot: every id once, and every id stripped.
LEMMA MappedFolders ==
  ASSUME NEW r \in SourceDocumentDTO, SnapshotAccepted(r)
  PROVE  FolderIds(r.snapshot) \in OrNull(Seq(Kept))
<1>1. CASE r.snapshot = Null
  BY <1>1 DEF FolderIds, OrNull
<1>2. CASE r.snapshot # Null
  <2> DEFINE fs == r.snapshot.folders
             ids == [i \in DOMAIN fs |-> Strip(fs[i])]
             first == {i \in DOMAIN ids : \A j \in 1 .. i - 1 : ids[j] # ids[i]}
  <2>1. r.snapshot \in [version : OrNull(Strings), folders : Seq(Strings)]
    BY <1>2 DEF SourceDocumentDTO, OrNull
  <2>2. fs \in Seq(Strings) /\ \A i \in DOMAIN fs : IsUuid(fs[i])
    BY <1>2, <2>1 DEF SnapshotAccepted
  <2>3. \A i \in DOMAIN fs : Strip(fs[i]) \in Kept
    <3> HIDE DEF fs
    <3> SUFFICES ASSUME NEW i \in DOMAIN fs PROVE Strip(fs[i]) \in Kept
      OBVIOUS
    <3>1. fs[i] \in Strings /\ Len(Strip(fs[i])) = 1
      BY <2>2 DEF IsUuid
    <3>2. Strip(fs[i]) # <<>>
      BY <3>1, EmptyIsShort
    <3>3. Stored(Strip(fs[i]))
      BY <3>1, <3>2, Stripped DEF Blank
    <3> QED BY <3>3 DEF Kept, Stored
  <2>4. ids \in Seq(Kept)
    <3> HIDE DEF fs
    <3>1. DOMAIN fs = 1..Len(fs) /\ Len(fs) \in Nat
      BY <2>2
    <3>2. ids \in [1..Len(fs) -> Kept]
      BY <2>3, <3>1
    <3> QED BY <3>1, <3>2
  <2>5. first \in SUBSET DOMAIN ids
    OBVIOUS
  <2>6. FolderIds(r.snapshot) = Only(ids, first)
    BY <1>2 DEF FolderIds
  <2> HIDE DEF fs, ids, first
  <2>7. Only(ids, first) \in Seq(Kept)
    BY <2>4, <2>5, OnlyKeeps
  <2> QED BY <2>6, <2>7 DEF OrNull
<1> QED BY <1>1, <1>2

LEMMA MappedDocumentCommand ==
  ASSUME NEW r \in SourceDocumentDTO, Accepted(r)
  PROVE  Command(r) \in DocumentCommand
<1>1. r.kind = "document"
  BY DEF SourceDocumentDTO
<1>2. Conforms(DocumentBody, r) /\ SnapshotAccepted(r)
  BY <1>1 DEF Accepted
<1>3. Command(r) = [kind |-> "document", document |-> Normalised(DocumentBody, r),
                    folders |-> FolderIds(r.snapshot)]
  BY <1>1 DEF Command
<1>4. Normalised(DocumentBody, r) \in KeptDocument /\ FolderIds(r.snapshot) \in OrNull(Seq(Kept))
  BY <1>2, MappedDocument, MappedFolders
<1> QED BY <1>3, <1>4 DEF DocumentCommand

LEMMA MappedFolderCommand ==
  ASSUME NEW r \in SourceFolderDTO, Accepted(r)
  PROVE  Command(r) \in FolderCommand
<1>1. r.kind = "folder"
  BY DEF SourceFolderDTO
<1>2. Conforms(FolderBody, r)
  BY <1>1 DEF Accepted
<1>3. Command(r) = [kind |-> "folder", folder |-> Normalised(FolderBody, r)]
  BY <1>1 DEF Command
<1>4. Normalised(FolderBody, r) \in KeptFolder
  BY <1>2, MappedFolder
<1> QED BY <1>3, <1>4 DEF FolderCommand

LEMMA MappedDelete ==
  ASSUME NEW r \in [kind : {"delete document", "delete folder"}, id : DeletedIds], Accepted(r)
  PROVE  Command(r) \in DeleteCommand
<1>1. r.kind \in {"delete document", "delete folder"} /\ r.id \in Strings
  BY RequestsAssumption
<1>2. Valid("uuid", r.id)
  BY <1>1 DEF Accepted, Valid
<1>3. Value("uuid", r.id) = Strip(r.id)
  BY <1>1, NullIsNoText DEF Value
<1>4. Strip(r.id) \in Kept
  BY <1>1, <1>2, <1>3, MappedText
<1>5. Command(r) = [r EXCEPT !.id = Strip(r.id)]
  BY <1>1 DEF Command
<1> QED BY <1>1, <1>4, <1>5 DEF DeleteCommand

\* What a client may send.
Sent == DocumentRequests \cup FolderRequests
        \cup [kind : {"delete document", "delete folder"}, id : DeletedIds]

\* An accepted request is mapped to a command whose texts are stripped.
LEMMA Mapped ==
  ASSUME NEW r \in Sent, Accepted(r)
  PROVE  Command(r) \in Commands
<1>1. CASE r \in DocumentRequests
  BY <1>1, RequestsAssumption, MappedDocumentCommand DEF Commands
<1>2. CASE r \in FolderRequests
  BY <1>2, RequestsAssumption, MappedFolderCommand DEF Commands
<1>3. CASE r \in [kind : {"delete document", "delete folder"}, id : DeletedIds]
  BY <1>3, MappedDelete DEF Commands
<1> QED BY <1>1, <1>2, <1>3 DEF Sent

-----------------------------------------------------------------------------
(* A piece of a text.                                                      *)

LEMMA PieceIs ==
  ASSUME NEW t \in Strings, NEW a \in Nat, NEW b \in Nat, 1 <= a, b <= Len(t)
  PROVE  /\ SubSeq(t, a, b) \in Strings
         /\ Len(SubSeq(t, a, b)) = IF a <= b THEN b - a + 1 ELSE 0
         /\ \A i \in 1 .. b - a + 1 : SubSeq(t, a, b)[i] = t[a + i - 1]
         /\ Blank(SubSeq(t, a, b)) <=> \A k \in a..b : t[k] = " "
<1> DEFINE s == SubSeq(t, a, b)
<1>1. Len(t) \in Nat /\ \A i \in 1..Len(t) : t[i] \in Characters
  BY DEF Strings
<1>2. \A i \in a..b : t[i] \in Characters
  BY <1>1
<1>3. /\ s \in Seq(Characters)
      /\ Len(s) = IF a <= b THEN b - a + 1 ELSE 0
      /\ \A i \in 1 .. b - a + 1 : s[i] = t[a + i - 1]
  BY <1>2, SubSeqProperties
<1> HIDE DEF s
<1>4. s \in Strings
  BY <1>3 DEF Strings
<1>5. DOMAIN s = 1 .. b - a + 1
  <2>1. DOMAIN s = 1..Len(s)
    BY <1>4, StripIs
  <2> QED BY <1>3, <2>1
<1>6. ASSUME Solid(s) = {}, NEW k \in a..b PROVE t[k] = " "
  <2>1. k - a + 1 \in 1 .. b - a + 1 /\ a + (k - a + 1) - 1 = k
    OBVIOUS
  <2>2. s[k - a + 1] = t[k]
    BY <1>3, <2>1
  <2>3. s[k - a + 1] = " "
    BY <1>5, <1>6, <2>1 DEF Solid
  <2> QED BY <2>2, <2>3
<1>7. ASSUME \A k \in a..b : t[k] = " " PROVE Solid(s) = {}
  <2> SUFFICES ASSUME NEW i \in 1 .. b - a + 1 PROVE s[i] = " "
    BY <1>5 DEF Solid
  <2>1. a + i - 1 \in a..b
    OBVIOUS
  <2> QED BY <1>3, <1>7, <2>1
<1>8. Blank(s) <=> \A k \in a..b : t[k] = " "
  <2>1. Blank(s) <=> Solid(s) = {}
    BY <1>4, StripIs
  <2> QED BY <1>6, <1>7, <2>1
<1> QED BY <1>3, <1>4, <1>8 DEF s

\* The white space around a text that has some other character.
LEMMA AroundIs ==
  ASSUME NEW t \in Strings, ~Blank(t)
  PROVE  Leading(t) = Min(Solid(t)) - 1 /\ Trailing(t) = Len(t) - Max(Solid(t))
<1> DEFINE a == Min(Solid(t))
           b == Max(Solid(t))
<1>1. /\ DOMAIN t = 1..Len(t) /\ Len(t) \in Nat
      /\ Solid(t) \in SUBSET (1..Len(t)) /\ a \in Solid(t) /\ b \in Solid(t)
      /\ \A i \in Solid(t) : a <= i /\ i <= b
  BY StripIs
<1> HIDE DEF a, b
<1>2. a \in 1..Len(t) /\ b \in 1..Len(t)
  BY <1>1
<1>3. \A i \in 1..Len(t) : i \in Solid(t) <=> t[i] # " "
  BY <1>1 DEF Solid
<1>4. {i \in DOMAIN t : Blank(SubSeq(t, 1, i))} = 1 .. a - 1
  <2>1. ASSUME NEW i \in 1..Len(t) PROVE Blank(SubSeq(t, 1, i)) <=> i < a
    <3>1. Blank(SubSeq(t, 1, i)) <=> \A k \in 1..i : t[k] = " "
      <4>1. 1 \in Nat /\ i \in Nat /\ 1 <= 1 /\ i <= Len(t)
        BY <1>1
      <4> QED BY <4>1, PieceIs
    <3>2. ASSUME \A k \in 1..i : t[k] = " " PROVE i < a
      <4>1. a \notin 1..i
        BY <1>1, <1>2, <1>3, <3>2
      <4> QED BY <1>1, <1>2, <4>1
    <3>3. ASSUME i < a, NEW k \in 1..i PROVE t[k] = " "
      <4>1. k \in 1..Len(t) /\ ~(a <= k)
        BY <1>1, <1>2, <3>3
      <4> QED BY <1>1, <1>3, <4>1
    <3> QED BY <3>1, <3>2, <3>3
  <2>2. \A i : i \in 1..Len(t) /\ i < a <=> i \in 1 .. a - 1
    BY <1>1, <1>2
  <2> QED BY <1>1, <2>1, <2>2
<1>5. {i \in DOMAIN t : Blank(SubSeq(t, i, Len(t)))} = b + 1 .. Len(t)
  <2>1. ASSUME NEW i \in 1..Len(t) PROVE Blank(SubSeq(t, i, Len(t))) <=> b < i
    <3>1. Blank(SubSeq(t, i, Len(t))) <=> \A k \in i..Len(t) : t[k] = " "
      <4>1. i \in Nat /\ Len(t) \in Nat /\ 1 <= i /\ Len(t) <= Len(t)
        BY <1>1
      <4> QED BY <4>1, PieceIs
    <3>2. ASSUME \A k \in i..Len(t) : t[k] = " " PROVE b < i
      <4>1. b \notin i..Len(t)
        BY <1>1, <1>2, <1>3, <3>2
      <4> QED BY <1>1, <1>2, <4>1
    <3>3. ASSUME b < i, NEW k \in i..Len(t) PROVE t[k] = " "
      <4>1. k \in 1..Len(t) /\ ~(k <= b)
        BY <1>1, <1>2, <3>3
      <4> QED BY <1>1, <1>3, <4>1
    <3> QED BY <3>1, <3>2, <3>3
  <2>2. \A i : i \in 1..Len(t) /\ b < i <=> i \in b + 1 .. Len(t)
    BY <1>1, <1>2
  <2> QED BY <1>1, <2>1, <2>2
<1>6. Cardinality(1 .. a - 1) = a - 1 /\ Cardinality(b + 1 .. Len(t)) = Len(t) - b
  <2>1. /\ Cardinality(1 .. a - 1) = IF 1 > a - 1 THEN 0 ELSE a - 1 - 1 + 1
        /\ Cardinality(b + 1 .. Len(t)) = IF b + 1 > Len(t) THEN 0 ELSE Len(t) - (b + 1) + 1
    <3>1. 1 \in Int /\ a - 1 \in Int /\ b + 1 \in Int /\ Len(t) \in Int
      BY <1>1, <1>2
    <3> QED BY <3>1, FS_Interval
  <2> QED BY <1>1, <1>2, <2>1
<1> QED BY <1>4, <1>5, <1>6 DEF Leading, Trailing, a, b

\* The text of a window, without the white space around it, is the text between the offsets.
LEMMA WindowIs ==
  ASSUME NEW t \in Strings, NEW start \in Nat, NEW end \in Nat, start < end, end <= Len(t),
         NEW raw, raw = SubSeq(t, start + 1, end)
  PROVE  /\ raw \in Strings
         /\ Blank(raw) <=> \A k \in start + 1 .. end : t[k] = " "
         /\ ~Blank(raw) =>
              /\ Strip(raw) = SubSeq(t, start + Leading(raw) + 1, end - Trailing(raw))
              /\ Len(Strip(raw)) <= end - start
              /\ \A k \in start + 1 .. end :
                   t[k] # " " => start + Leading(raw) < k /\ k <= end - Trailing(raw)
<1>1. /\ raw \in Strings /\ Len(raw) = end - start
      /\ \A i \in 1 .. end - start : raw[i] = t[start + i]
      /\ Blank(raw) <=> \A k \in start + 1 .. end : t[k] = " "
  <2>1. start + 1 \in Nat /\ 1 <= start + 1 /\ start + 1 <= end /\ end - (start + 1) + 1 = end - start
    OBVIOUS
  <2> DEFINE m == start + 1
  <2>2. m \in Nat /\ 1 <= m /\ m <= end /\ end - m + 1 = end - start
    BY <2>1
  <2>3. \A i \in 1 .. end - start : m + i - 1 = start + i
    OBVIOUS
  <2>4. raw = SubSeq(t, m, end)
    OBVIOUS
  <2> HIDE DEF m
  <2>5. /\ SubSeq(t, m, end) \in Strings
        /\ Len(SubSeq(t, m, end)) = IF m <= end THEN end - m + 1 ELSE 0
        /\ \A i \in 1 .. end - m + 1 : SubSeq(t, m, end)[i] = t[m + i - 1]
        /\ Blank(SubSeq(t, m, end)) <=> \A k \in m .. end : t[k] = " "
    BY <2>2, PieceIs
  <2>6. \A i \in 1 .. end - start : raw[i] = t[start + i]
    BY <2>2, <2>3, <2>4, <2>5
  <2>7. raw \in Strings /\ Len(raw) = end - start /\ (Blank(raw) <=> \A k \in m .. end : t[k] = " ")
    BY <2>2, <2>4, <2>5
  <2> QED BY <2>6, <2>7 DEF m
<1>2. ASSUME ~Blank(raw)
      PROVE  /\ Strip(raw) = SubSeq(t, start + Leading(raw) + 1, end - Trailing(raw))
             /\ Len(Strip(raw)) <= end - start
             /\ \A k \in start + 1 .. end :
                  t[k] # " " => start + Leading(raw) < k /\ k <= end - Trailing(raw)
  <2> DEFINE a == Min(Solid(raw))
             b == Max(Solid(raw))
  <2>1. /\ DOMAIN raw = 1 .. end - start
        /\ Solid(raw) \in SUBSET (1 .. end - start) /\ a \in Solid(raw) /\ b \in Solid(raw) /\ a <= b
        /\ \A i \in Solid(raw) : a <= i /\ i <= b
        /\ Strip(raw) = SubSeq(raw, a, b)
        /\ Len(Strip(raw)) = b - a + 1
        /\ Leading(raw) = a - 1 /\ Trailing(raw) = end - start - b
    BY <1>1, <1>2, StripIs, AroundIs
  <2> HIDE DEF a, b
  <2>2. a \in 1 .. end - start /\ b \in 1 .. end - start
    BY <2>1
  <2>3. start + Leading(raw) + 1 = start + a /\ end - Trailing(raw) = start + b
    BY <2>1, <2>2
  <2>4. SubSeq(raw, a, b) = SubSeq(t, start + a, start + b)
    <3> DEFINE i == start + 1
               n == end - i + 1
    <3>a. n = end - start
      OBVIOUS
    <3>b. i \in 1..Len(t) /\ end \in 1..Len(t) /\ t \in Seq(Characters)
      <4>1. Len(t) \in Nat
        BY StripIs
      <4> QED BY <4>1 DEF Strings
    <3>c. a \in 1..n /\ b \in 1..n
      BY <2>2, <3>a
    <3> HIDE DEF i
    <3>1. SubSeq(SubSeq(t, i, end), a, b) = SubSeq(t, i + a - 1, i + b - 1)
      BY <3>b, <3>c, SubSeqOfSubSeq
    <3>2. SubSeq(SubSeq(t, start + 1, end), a, b) = SubSeq(t, start + 1 + a - 1, start + 1 + b - 1)
      BY <3>1 DEF i
    <3>3. start + 1 + a - 1 = start + a /\ start + 1 + b - 1 = start + b
      BY <2>2
    <3> QED BY <3>2, <3>3
  <2>5. ASSUME NEW k \in start + 1 .. end, t[k] # " " PROVE start + Leading(raw) < k /\ k <= start + b
    <3>1. k - start \in 1 .. end - start /\ start + (k - start) = k
      OBVIOUS
    <3>2. raw[k - start] = t[k]
      BY <1>1, <3>1
    <3>3. k - start \in Solid(raw)
      BY <2>1, <2>5, <3>1, <3>2 DEF Solid
    <3>4. a <= k - start /\ k - start <= b
      BY <2>1, <3>3
    <3> QED BY <2>1, <2>2, <3>4
  <2>6. Len(Strip(raw)) <= end - start
    BY <2>1, <2>2
  <2> QED BY <2>1, <2>3, <2>4, <2>5, <2>6
<1> QED BY <1>1, <1>2

-----------------------------------------------------------------------------
(* The windows of a text.                                                  *)

LEMMA Times ==
  ASSUME NEW step \in Nat \ {0}, NEW i \in Nat, NEW j \in Nat
  PROVE  /\ i * step \in Nat /\ i <= i * step
         /\ i <= j => i * step <= j * step
         /\ (i + 1) * step = i * step + step
<1>1. i * step \in Nat /\ (i + 1) * step = i * step + step
  OBVIOUS
<1>2. i <= i * step
  <2>1. i * step = i + i * (step - 1) /\ i * (step - 1) >= 0
    <3>1. step - 1 \in Nat
      OBVIOUS
    <3>2. i * (step - 1) \in Nat
      BY <3>1
    <3>3. i * step = i + i * (step - 1)
      OBVIOUS
    <3> QED BY <3>2, <3>3
  <2> QED BY <1>1, <2>1
<1>3. ASSUME i <= j PROVE i * step <= j * step
  <2>1. j - i \in Nat
    BY <1>3
  <2>2. (j - i) * step \in Nat
    BY <2>1
  <2>3. j * step = i * step + (j - i) * step
    OBVIOUS
  <2> QED BY <1>1, <2>2, <2>3
<1> QED BY <1>1, <1>2, <1>3

\* The windows that begin inside a text of n characters are the first ones.
LEMMA WindowsAre ==
  ASSUME NEW n \in Nat, NEW step \in Nat \ {0},
         NEW w, w = {i \in 0..n : i * step < n}
  PROVE  Cardinality(w) \in Nat /\ w = 0 .. Cardinality(w) - 1
<1> DEFINE over == {i \in Nat : n <= i * step}
           m == Least(over)
<1>1. n \in over
  BY Times
<1>2. m \in over /\ \A j \in over : m <= j
  <2>1. over \in SUBSET Nat /\ over # {}
    BY <1>1
  <2> HIDE DEF over
  <2> QED BY <2>1, LeastNatural
<1>3. m \in Nat /\ n <= m * step
  BY <1>2
<1>4. \A i \in Nat : i < m => i * step < n
  <2> SUFFICES ASSUME NEW i \in Nat, i < m PROVE i * step < n
    OBVIOUS
  <2>1. i \notin over
    <3> HIDE DEF over, m
    <3> QED BY <1>2, <1>3
  <2>2. i * step \in Nat
    BY Times
  <2> QED BY <2>1, <2>2
<1> HIDE DEF m, over
<1>5. w = 0 .. m - 1
  <2>1. ASSUME NEW i \in w PROVE i \in 0 .. m - 1
    <3>1. i \in Nat /\ i * step < n
      OBVIOUS
    <3>2. ~(m <= i)
      <4>1. ASSUME m <= i PROVE FALSE
        <5>1. m * step <= i * step /\ m * step \in Nat /\ i * step \in Nat
          BY <1>3, <3>1, <4>1, Times
        <5> QED BY <1>3, <3>1, <5>1
      <4> QED BY <4>1
    <3> QED BY <1>3, <3>1, <3>2
  <2>2. ASSUME NEW i \in 0 .. m - 1 PROVE i \in w
    <3>1. i \in Nat /\ i < m
      BY <1>3
    <3>2. i * step < n /\ i <= i * step /\ i * step \in Nat
      BY <1>4, <3>1, Times
    <3>3. i \in 0..n
      BY <3>1, <3>2
    <3> QED BY <3>2, <3>3
  <2> QED BY <2>1, <2>2
<1>6. Cardinality(0 .. m - 1) = m
  <2>1. 0 \in Int /\ m - 1 \in Int
    BY <1>3
  <2>2. Cardinality(0 .. m - 1) = IF 0 > m - 1 THEN 0 ELSE m - 1 - 0 + 1
    BY <2>1, FS_Interval
  <2> QED BY <1>3, <2>2
<1> QED BY <1>3, <1>5, <1>6

\* Every character is in the first part of a window, the one no later window begins in.
LEMMA SomeWindow ==
  ASSUME NEW n \in Nat, NEW step \in Nat \ {0}, NEW k \in 1..n
  PROVE  \E i \in Nat : i * step < n /\ i * step < k /\ k <= i * step + step
<1> DEFINE reach == {i \in Nat : k <= (i + 1) * step}
           i == Least(reach)
<1>1. k \in reach
  <2>1. k <= k * step /\ k * step \in Nat /\ (k + 1) * step = k * step + step
    BY Times
  <2> QED BY <2>1
<1>2. i \in reach /\ \A j \in reach : i <= j
  <2>1. reach \in SUBSET Nat /\ reach # {}
    BY <1>1
  <2> HIDE DEF reach
  <2> QED BY <2>1, LeastNatural
<1>3. i \in Nat /\ k <= (i + 1) * step
  BY <1>2
<1>4. i * step \in Nat /\ (i + 1) * step = i * step + step
  <2> HIDE DEF i
  <2> QED BY <1>3, Times
<1>5. i * step < k
  <2>1. CASE i = 0
    <3> HIDE DEF i
    <3> QED BY <2>1
  <2>2. CASE i # 0
    <3>1. i - 1 \notin reach /\ i - 1 \in Nat
      <4> HIDE DEF reach, i
      <4> QED BY <1>2, <1>3, <2>2
    <3>2. ~(k <= (i - 1 + 1) * step)
      <4> HIDE DEF i
      <4> QED BY <3>1
    <3>3. i - 1 + 1 = i
      <4> HIDE DEF i
      <4> QED BY <1>3
    <3>4. ~(k <= i * step)
      BY <3>2, <3>3
    <3> HIDE DEF i
    <3> QED BY <1>4, <3>4
  <2> QED BY <2>1, <2>2
<1> HIDE DEF i
<1>6. i * step < n
  BY <1>4, <1>5
<1> QED BY <1>3, <1>4, <1>5, <1>6

-----------------------------------------------------------------------------
(* The chunks of a document.                                               *)

Step(p) == p.size - p.overlap

LEMMA StepIs ==
  ASSUME NEW p \in Policies
  PROVE  /\ p.size \in Nat \ {0} /\ Step(p) \in Nat \ {0} /\ Step(p) <= p.size
BY PoliciesAssumption DEF Step

LEMMA OfCharacters ==
  \A a \in Characters : <<a>> \in Strings /\ <<a, a>> \in Strings
<1> SUFFICES ASSUME NEW a \in Characters PROVE <<a>> \in Seq(Characters) /\ <<a, a>> \in Seq(Characters)
  BY DEF Strings
<1> QED OBVIOUS

LEMMA FullTextIs ==
  ASSUME NEW d \in KeptDocument
  PROVE  FullText(d) \in Strings
<1>1. d.title \in Strings /\ d.body \in Strings
  BY DEF KeptDocument
<1>2. <<" ", " ">> \in Seq(Characters)
  <2>1. " " \in Characters
    BY CharactersAssumption
  <2> QED BY <2>1, OfCharacters DEF Strings
<1>3. d.title \o <<" ", " ">> \in Seq(Characters)
  BY <1>1, <1>2, ConcatProperties DEF Strings
<1>4. d.title \o <<" ", " ">> \o d.body \in Strings
  BY <1>1, <1>3, ConcatProperties DEF Strings
<1> QED BY <1>1, <1>4, StripIs DEF FullText

\* The character is of a word, and before the next window.
WordOfWindow(d, p, i, k) == /\ i * Step(p) < k /\ k <= i * Step(p) + Step(p)
                            /\ FullText(d)[k] # " "

\* A chunk is a piece of the text, at its offsets, and has every word of its window.
LEMMA ChunkIs ==
  ASSUME NEW d \in KeptDocument, NEW p \in Policies, NEW i \in Nat,
         i * Step(p) < Len(FullText(d)),
         NEW c, c = Chunk(d, p, i)
  PROVE  /\ c.text \in Strings
         /\ c.text # <<>> =>
              /\ ~Blank(c.text)
              /\ c.text = SubSeq(FullText(d), c.start + 1, c.end)
              /\ Len(c.text) <= p.size
         /\ \A k \in 1..Len(FullText(d)) :
              WordOfWindow(d, p, i, k) => c.text # <<>> /\ c.start < k /\ k <= c.end
<1> DEFINE text == FullText(d)
           start == i * Step(p)
           end == Min({Len(text), start + p.size})
           raw == SubSeq(text, start + 1, end)
<1>1. text \in Strings /\ Len(text) \in Nat
  BY FullTextIs, StripIs
<1>2. start \in Nat /\ p.size \in Nat /\ p.size # 0 /\ Step(p) \in Nat /\ Step(p) <= p.size
  BY StepIs, Times
<1>3. /\ c.text = Strip(raw) /\ c.start = start + Leading(raw) /\ c.end = end - Trailing(raw)
  BY DEF Chunk, Step
<1>4. start < Len(text)
  OBVIOUS
<1> HIDE DEF text, start
<1>5. end \in Nat /\ start < end /\ end <= Len(text) /\ end <= start + p.size
      /\ (end = Len(text) \/ end = start + p.size)
  <2> DEFINE both == {Len(text), start + p.size}
             m == Len(text) + start + p.size
  <2>1. both \in SUBSET (1..m) /\ both # {} /\ m \in Nat
    BY <1>1, <1>2, <1>4
  <2>2. Min(both) \in both /\ \A x \in both : Min(both) <= x
    <3> HIDE DEF both, m
    <3> QED BY <2>1, Extremes
  <2> QED BY <1>1, <1>2, <1>4, <2>2
<1> HIDE DEF end
<1>6. /\ raw \in Strings
      /\ Blank(raw) <=> \A k \in start + 1 .. end : text[k] = " "
      /\ ~Blank(raw) =>
           /\ Strip(raw) = SubSeq(text, start + Leading(raw) + 1, end - Trailing(raw))
           /\ Len(Strip(raw)) <= end - start
           /\ \A k \in start + 1 .. end :
                text[k] # " " => start + Leading(raw) < k /\ k <= end - Trailing(raw)
  BY <1>1, <1>2, <1>5, WindowIs
<1> HIDE DEF raw
<1>7. Strip(raw) \in Strings
  BY <1>6, StripIs
<1>8. ASSUME c.text # <<>>
      PROVE  ~Blank(c.text) /\ c.text = SubSeq(text, c.start + 1, c.end) /\ Len(c.text) <= p.size
  <2>1. ~Blank(raw)
    BY <1>3, <1>8 DEF Blank
  <2>2. ~Blank(c.text)
    BY <1>3, <1>6, <2>1, Stripped DEF Stored
  <2>3. Len(c.text) <= p.size
    <3>1. Len(Strip(raw)) \in Nat /\ Len(Strip(raw)) <= end - start
      BY <1>6, <1>7, <2>1, StripIs
    <3> QED BY <1>2, <1>3, <1>5, <3>1
  <2> QED BY <1>3, <1>6, <2>1, <2>2, <2>3
<1>9. ASSUME NEW k \in 1..Len(text), start < k, k <= start + Step(p), text[k] # " "
      PROVE  c.text # <<>> /\ c.start < k /\ k <= c.end
  <2>1. k \in start + 1 .. end
    <3>a. start \in Nat /\ p.size \in Nat /\ Step(p) \in Nat /\ k \in Nat
      BY <1>1, <1>2
    <3>b. start < k /\ k <= start + Step(p) /\ Step(p) <= p.size
      BY <1>2, <1>9
    <3>1. k \in Nat /\ k <= Len(text) /\ start + 1 <= k /\ k <= start + p.size
      BY <1>1, <3>a, <3>b
    <3>2. k <= end
      BY <1>5, <3>1
    <3> QED BY <1>2, <1>5, <3>1, <3>2
  <2>2. ~Blank(raw)
    BY <1>6, <1>9, <2>1
  <2> QED BY <1>3, <1>6, <1>9, <2>1, <2>2 DEF Blank
<1>10. ASSUME NEW k \in 1..Len(text), WordOfWindow(d, p, i, k)
       PROVE  c.text # <<>> /\ c.start < k /\ k <= c.end
  <2>1. start < k /\ k <= start + Step(p) /\ text[k] # " "
    BY <1>10 DEF WordOfWindow, text, start
  <2> QED BY <1>9, <2>1
<1> QED BY <1>3, <1>7, <1>8, <1>10 DEF text

OfWindow(d, p, c) ==
  \E i \in Nat : i * Step(p) < Len(FullText(d)) /\ c = Chunk(d, p, i) /\ c.text # <<>>

LEMMA ChunksAre ==
  ASSUME NEW d \in KeptDocument, NEW p \in Policies,
         NEW cs, cs = Chunks(d, p)
  PROVE  /\ cs \in Seq({Chunk(d, p, i) : i \in Nat})
         /\ \A j \in DOMAIN cs : OfWindow(d, p, cs[j])
         /\ \A i \in Nat :
              i * Step(p) < Len(FullText(d)) /\ Chunk(d, p, i).text # <<>>
              => \E j \in DOMAIN cs : cs[j] = Chunk(d, p, i)
<1> DEFINE n == Len(FullText(d))
           w == {i \in 0..n : i * Step(p) < n}
           cut == [i \in 1 .. Cardinality(w) |-> Chunk(d, p, i - 1)]
           kept == {i \in DOMAIN cut : cut[i].text # <<>>}
           X == {Chunk(d, p, i) : i \in Nat}
<1>1. n \in Nat /\ Step(p) \in Nat \ {0}
  BY FullTextIs, StripIs, StepIs
<1>2. Cardinality(w) \in Nat /\ w = 0 .. Cardinality(w) - 1
  <2> HIDE DEF n
  <2> QED BY <1>1, WindowsAre
<1>3. cs = Only(cut, kept)
  BY DEF Chunks, Step
<1> DEFINE m == Cardinality(w)
<1>4. \A i \in Nat : i * Step(p) < n <=> i + 1 \in 1..m
  <2> SUFFICES ASSUME NEW i \in Nat PROVE i * Step(p) < n <=> i + 1 \in 1..m
    OBVIOUS
  <2>1. i * Step(p) \in Nat /\ i <= i * Step(p)
    BY <1>1, Times
  <2>2. i * Step(p) < n <=> i \in w
    <3> HIDE DEF n
    <3> QED BY <1>1, <2>1
  <2> HIDE DEF w, n
  <2> QED BY <1>2, <2>2
<1> HIDE DEF w, n
<1>5. cut \in Seq(X) /\ DOMAIN cut = 1..m /\ \A i \in 1..m : cut[i] = Chunk(d, p, i - 1) /\ i - 1 \in Nat
  <2> HIDE DEF m
  <2>1. m \in Nat
    BY <1>2 DEF m
  <2>2. \A i \in 1..m : i - 1 \in Nat
    BY <2>1
  <2>3. cut \in [1..m -> X]
    BY <2>2 DEF m
  <2>4. cut \in Seq(X)
    <3> HIDE DEF cut, X
    <3> QED BY <2>1, <2>3
  <2> QED BY <2>2, <2>3, <2>4 DEF m
<1>6. kept \in SUBSET DOMAIN cut
  OBVIOUS
<1>7. \A i \in kept : i \in 1..m /\ cut[i].text # <<>>
  BY <1>5
<1>8. \A i \in 1..m : Chunk(d, p, i - 1).text # <<>> => i \in kept
  BY <1>5
<1> HIDE DEF cut, kept, X, m
<1>9. /\ cs \in Seq(X)
      /\ \A k \in DOMAIN cs : Place(kept, k) \in kept /\ cs[k] = cut[Place(kept, k)]
      /\ \A i \in kept : \E k \in DOMAIN cs : Place(kept, k) = i
  <2>1. /\ Only(cut, kept) \in Seq(X)
        /\ \A k \in DOMAIN Only(cut, kept) : Place(kept, k) \in kept /\ Only(cut, kept)[k] = cut[Place(kept, k)]
    <3>1. cut \in Seq(X)
      BY <1>5
    <3> QED BY <1>6, <3>1, OnlyKeeps
  <2>2. \A i \in kept : \E k \in DOMAIN Only(cut, kept) : Place(kept, k) = i
    BY <1>5, <1>6, OnlyInOrder
  <2> QED BY <1>3, <2>1, <2>2
<1>10. ASSUME NEW j \in DOMAIN cs
       PROVE  OfWindow(d, p, cs[j])
  <2> DEFINE a == Place(kept, j)
  <2>1. a \in 1..m /\ cs[j] = cut[a] /\ cut[a].text # <<>>
    BY <1>7, <1>9
  <2> HIDE DEF a
  <2>2. a - 1 \in Nat /\ cs[j] = Chunk(d, p, a - 1) /\ a - 1 + 1 = a
    BY <1>5, <2>1
  <2>3. (a - 1) * Step(p) < n
    BY <1>4, <2>1, <2>2
  <2> QED BY <2>1, <2>2, <2>3 DEF OfWindow, n
<1>11. ASSUME NEW i \in Nat, i * Step(p) < n, Chunk(d, p, i).text # <<>>
       PROVE  \E j \in DOMAIN cs : cs[j] = Chunk(d, p, i)
  <2>1. i + 1 \in 1..m /\ i + 1 - 1 = i
    BY <1>4, <1>11
  <2>2. i + 1 \in kept /\ cut[i + 1] = Chunk(d, p, i)
    BY <1>5, <1>8, <1>11, <2>1
  <2>3. PICK k \in DOMAIN cs : Place(kept, k) = i + 1
    BY <1>9, <2>2
  <2> QED BY <1>9, <2>2, <2>3
<1> QED BY <1>9, <1>10, <1>11 DEF n, X

\* The chunks cover the text.
LEMMA Covering ==
  ASSUME NEW d \in KeptDocument, NEW p \in Policies, NEW n \in Nat, n = Len(FullText(d)),
         NEW k \in 1..n, FullText(d)[k] # " "
  PROVE  \E j \in DOMAIN Chunks(d, p) : Chunks(d, p)[j].start < k /\ k <= Chunks(d, p)[j].end
<1>1. n \in Nat /\ Step(p) \in Nat \ {0}
  BY StepIs
<1>2. k \in 1..n
  OBVIOUS
<1>3. PICK i \in Nat : i * Step(p) < n /\ i * Step(p) < k /\ k <= i * Step(p) + Step(p)
  BY <1>1, <1>2, SomeWindow
<1> DEFINE c == Chunk(d, p, i)
<1>5. c.text # <<>> /\ c.start < k /\ k <= c.end
  <2>1. i * Step(p) < Len(FullText(d)) /\ k \in 1..Len(FullText(d))
    BY <1>2, <1>3
  <2>2. WordOfWindow(d, p, i, k)
    BY <1>3 DEF WordOfWindow
  <2> HIDE DEF c
  <2>3. c = Chunk(d, p, i)
    BY DEF c
  <2> QED BY <2>1, <2>2, <2>3, ChunkIs
<1> DEFINE cs == Chunks(d, p)
<1>6. \E j \in DOMAIN cs : cs[j] = Chunk(d, p, i)
  <2>1. i * Step(p) < Len(FullText(d)) /\ Chunk(d, p, i).text # <<>>
    BY <1>3, <1>5
  <2> HIDE DEF cs
  <2>2. cs = Chunks(d, p)
    BY DEF cs
  <2> QED BY <2>1, <2>2, ChunksAre
<1> QED BY <1>5, <1>6

-----------------------------------------------------------------------------
(* The signals of an accepted answer.                                      *)

\* The characters other than white space.
Ink == Characters \ {" "}

\* A text without white space is stored as it is.
LEMMA WordsAreKept ==
  ASSUME NEW t \in Seq(Ink), t # <<>>
  PROVE  t \in Kept
<1>1. t \in Strings
  BY SeqMonotonic DEF Strings, Ink
<1>2. DOMAIN t = 1..Len(t) /\ Len(t) \in Nat /\ \A i \in 1..Len(t) : t[i] \in Ink
  OBVIOUS
<1>3. Len(t) \in Nat \ {0}
  BY EmptySeq
<1>4. 1 \in Solid(t) /\ Len(t) \in Solid(t)
  <2>1. \A n \in Nat \ {0} : 1 \in 1..n /\ n \in 1..n
    OBVIOUS
  <2>2. 1 \in DOMAIN t /\ Len(t) \in DOMAIN t /\ t[1] \in Ink /\ t[Len(t)] \in Ink
    BY <1>2, <1>3, <2>1
  <2> QED BY <2>2 DEF Solid, Ink
<1> QED BY <1>1, <1>4, StoredIf DEF Kept

LEMMA LabelIsKept ==
  ASSUME NEW t \in Strings, NormalizedLabel(t) # <<>>
  PROVE  NormalizedLabel(t) \in Kept
<1> DEFINE word(i) == t[i] \notin {" ", "-"}
           kept == {i \in DOMAIN t : word(i) \/ (i > 1 /\ word(i - 1) /\ \E j \in i .. Len(t) : word(j))}
           seq == [i \in DOMAIN t |-> IF word(i) THEN t[i] ELSE "_"]
<1>1. NormalizedLabel(t) = Only(seq, kept)
  BY DEF NormalizedLabel
<1>2. DOMAIN t = 1..Len(t) /\ Len(t) \in Nat /\ \A i \in DOMAIN t : t[i] \in Characters
  BY DEF Strings
<1>3. "_" \in Ink
  BY CharactersAssumption DEF Ink
<1>4. \A i \in DOMAIN t : seq[i] \in Ink
  BY <1>2, <1>3 DEF Ink
<1>5. seq \in Seq(Ink) /\ DOMAIN seq = DOMAIN t
  <2>1. seq \in [1..Len(t) -> Ink]
    BY <1>2, <1>4
  <2> HIDE DEF seq
  <2> QED BY <1>2, <2>1
<1>6. kept \in SUBSET DOMAIN seq
  BY <1>5
<1>7. Only(seq, kept) \in Seq(Ink)
  <2> HIDE DEF seq, kept
  <2> QED BY <1>5, <1>6, OnlyKeeps
<1> QED BY <1>1, <1>7, WordsAreKept

LEMMA DraftIs ==
  ASSUME NEW draft \in Draft, NEW chunks, DraftAccepted(draft, chunks)
  PROVE  /\ SignalKey(draft) \in Kept
         /\ Strip(draft.text) \in Kept
         /\ \A i \in DOMAIN draft.evidence : Strip(draft.evidence[i].quote) \in Kept
         /\ draft.evidence \in Seq(EvidenceDraft)
<1>1. /\ draft.text \in OrNull(Strings) /\ draft.label \in OrNull(Strings)
      /\ draft.evidence \in Seq(EvidenceDraft)
  BY DEF Draft
<1>2. \A v \in OrNull(Strings) : Valid("text", v) => v \in Strings /\ ~Blank(v)
  BY DEF Valid, OrNull
<1>3. \A t \in Strings : ~Blank(t) => Strip(t) \in Kept
  BY Stripped DEF Kept, Stored
<1>4. draft.text \in Strings /\ ~Blank(draft.text)
  BY <1>1, <1>2 DEF DraftAccepted
<1>5. ASSUME NEW i \in DOMAIN draft.evidence PROVE Strip(draft.evidence[i].quote) \in Kept
  <2>1. draft.evidence[i] \in EvidenceDraft
    BY <1>1
  <2>2. draft.evidence[i].quote \in OrNull(Strings)
    BY <2>1 DEF EvidenceDraft
  <2>3. Valid("text", draft.evidence[i].quote)
    BY DEF DraftAccepted, EvidenceAccepted
  <2> QED BY <1>2, <1>3, <2>2, <2>3
<1>6. SignalKey(draft) # <<>>
  BY DEF DraftAccepted
<1>7. SignalKey(draft) \in Kept
  <2>1. CASE draft.type = "summary"
    <3>1. SignalKey(draft) = <<"document-summary">>
      BY <2>1 DEF SignalKey
    <3>2. "document-summary" \in Ink
      BY CharactersAssumption DEF Ink
    <3>3. \A a \in Ink : <<a>> \in Seq(Ink)
      OBVIOUS
    <3> QED BY <1>6, <3>1, <3>2, <3>3, WordsAreKept
  <2>2. CASE draft.type \in {"concept", "entity"}
    <3> DEFINE t == IF draft.label = Null \/ Blank(draft.label) THEN draft.text ELSE draft.label
    <3>1. SignalKey(draft) = NormalizedLabel(t)
      BY <2>2 DEF SignalKey
    <3>2. t \in Strings
      BY <1>1, <1>4 DEF OrNull
    <3> HIDE DEF t
    <3> QED BY <1>6, <3>1, <3>2, LabelIsKept
  <2>3. CASE draft.type \notin {"summary", "concept", "entity"}
    <3>1. SignalKey(draft) = Strip(draft.text)
      BY <2>3 DEF SignalKey
    <3> QED BY <1>3, <1>4, <3>1
  <2> QED BY <2>1, <2>2, <2>3
<1> QED BY <1>1, <1>3, <1>4, <1>5, <1>7

-----------------------------------------------------------------------------
(* The payloads, and what a worker makes of them.                          *)

LEMMA WholeFits ==
  ASSUME NEW schema, NEW r, r = [f \in DOMAIN schema |-> r[f]],
         \A f \in DOMAIN schema : Fits(schema[f], r[f])
  PROVE  Conforms(schema, r) /\ Normalised(schema, r) = r
BY FieldsFit DEF Fields

LEMMA KeptFits ==
  /\ \A v : Fits("raw", v)
  /\ \A v \in Kept : Fits("text", v) /\ Fits("content", v) /\ Strip(v) = v /\ v \in Strings /\ ~Blank(v)
  /\ \A v \in OrNull(Kept) : Fits("optional", v)
  /\ \A v \in Seq(Kept) : Fits("items", v)
BY DEF Fits, Kept, Stored

LEMMA ChunkFits ==
  ASSUME NEW d \in KeptDocument, NEW p, NEW i, NEW c, c = Chunk(d, p, i),
         c.text \in Strings, ~Blank(c.text)
  PROVE  /\ Conforms(ChunkPayload, c) /\ Normalised(ChunkPayload, c) = c
         /\ Context(c) = Context(d) /\ c.digest = <<FullText(d), p>>
<1> DEFINE fields == {"tenant", "type", "id", "version", "created", "updated", "digest", "index", "text",
                      "start", "end"}
<1>1. DOMAIN ChunkPayload = fields
  BY DEF ChunkPayload
<1>2. DOMAIN c = fields /\ c = [f \in DOMAIN c |-> c[f]]
  BY DEF Chunk
<1>3. /\ c.tenant = d.tenant /\ c.type = d.type /\ c.id = d.id /\ c.version = d.version
      /\ c.created = d.created /\ c.updated = d.updated /\ c.digest = <<FullText(d), p>>
  BY DEF Chunk
<1>4. /\ d.tenant \in Kept /\ d.type \in OrNull(Kept) /\ d.id \in Kept /\ d.version \in Kept
      /\ d.created \in Kept /\ d.updated \in Kept
  BY DEF KeptDocument
<1>5. Fits("content", c.text)
  BY DEF Fits
<1>6. \A f \in fields : Fits(ChunkPayload[f], c[f])
  BY <1>3, <1>4, <1>5, KeptFits DEF ChunkPayload
<1> HIDE DEF fields
<1>7. Conforms(ChunkPayload, c) /\ Normalised(ChunkPayload, c) = c
  BY <1>1, <1>2, <1>6, WholeFits
<1>8. Context(c) = Context(d)
  BY <1>3 DEF Context
<1> QED BY <1>3, <1>7, <1>8

LEMMA SignalFits ==
  ASSUME NEW d \in KeptDocument, NEW digest, NEW draft \in Draft, NEW chunks,
         DraftAccepted(draft, chunks), NEW s, s = Signal(d, digest, draft)
  PROVE  /\ Conforms(SignalPayload, s) /\ Normalised(SignalPayload, s) = s
         /\ Each(EvidencePayload, s.evidence)
         /\ Context(s) = Context(d) /\ s.digest = digest
<1> DEFINE fields == {"tenant", "type", "id", "version", "digest", "kind", "key", "text", "evidence",
                      "confidence"}
<1>1. DOMAIN SignalPayload = fields
  BY DEF SignalPayload
<1>2. DOMAIN s = fields /\ s = [f \in DOMAIN s |-> s[f]]
  BY DEF Signal
<1>3. /\ s.tenant = d.tenant /\ s.type = d.type /\ s.id = d.id /\ s.version = d.version
      /\ s.digest = digest /\ s.key = SignalKey(draft) /\ s.text = Strip(draft.text)
      /\ s.evidence = [i \in DOMAIN draft.evidence |->
                         [draft.evidence[i] EXCEPT !.quote = Strip(draft.evidence[i].quote)]]
  BY DEF Signal
<1>4. d.tenant \in Kept /\ d.type \in OrNull(Kept) /\ d.id \in Kept /\ d.version \in Kept
  BY DEF KeptDocument
<1>5. /\ SignalKey(draft) \in Kept /\ Strip(draft.text) \in Kept
      /\ \A i \in DOMAIN draft.evidence : Strip(draft.evidence[i].quote) \in Kept
      /\ draft.evidence \in Seq(EvidenceDraft)
  BY DraftIs
<1>6. \A f \in fields : Fits(SignalPayload[f], s[f])
  BY <1>3, <1>4, <1>5, KeptFits DEF SignalPayload
<1>7. Conforms(SignalPayload, s) /\ Normalised(SignalPayload, s) = s
  <2> HIDE DEF fields
  <2> QED BY <1>1, <1>2, <1>6, WholeFits
<1>8. ASSUME NEW i \in DOMAIN s.evidence PROVE Conforms(EvidencePayload, s.evidence[i])
  <2> DEFINE e == draft.evidence[i]
             g == s.evidence[i]
  <2>1. i \in DOMAIN draft.evidence
    BY <1>3, <1>8
  <2>2. e \in EvidenceDraft
    BY <1>5, <2>1
  <2>3. g = [e EXCEPT !.quote = Strip(e.quote)]
    BY <1>3, <2>1
  <2>4. Strip(e.quote) \in Kept
    BY <1>5, <2>1
  <2> HIDE DEF e, g
  <2>5. g.quote = Strip(e.quote)
    BY <2>2, <2>3 DEF EvidenceDraft
  <2>6. DOMAIN EvidencePayload = {"chunk", "quote", "start", "end"}
    BY DEF EvidencePayload
  <2>7. \A f \in DOMAIN EvidencePayload : Fits(EvidencePayload[f], g[f])
    BY <2>4, <2>5, <2>6, KeptFits DEF EvidencePayload
  <2>8. Conforms(EvidencePayload, g)
    BY <2>7, FieldsFit
  <2> QED BY <2>8 DEF g
<1>9. Context(s) = Context(d)
  BY <1>3 DEF Context
<1> QED BY <1>3, <1>7, <1>8, <1>9 DEF Each

-----------------------------------------------------------------------------
(* The events, and what a worker decodes.                                  *)

Carries(e, command) == Decodes(e) /\ PayloadCommand(e.type, e.payload) = command

LEMMA IdentityFits ==
  ASSUME NEW r, r.tenant \in Kept, r.id \in Kept
  PROVE  /\ Conforms(Identity, r)
         /\ Normalised(Identity, r) = [tenant |-> r.tenant, id |-> r.id]
<1>1. DOMAIN Identity = {"tenant", "id"}
  BY DEF Identity
<1>2. \A f \in DOMAIN Identity : Fits(Identity[f], r[f])
  BY <1>1, KeptFits DEF Identity
<1>3. Conforms(Identity, r) /\ Normalised(Identity, r) = Fields(Identity, r)
  BY <1>2, FieldsFit
<1>4. Fields(Identity, r) = [tenant |-> r.tenant, id |-> r.id]
  BY <1>1 DEF Fields
<1> QED BY <1>3, <1>4

LEMMA DecodesIf ==
  ASSUME NEW type, NEW kind, NEW tenant \in Kept, NEW id \in Kept, NEW payload,
         DecodesPayload(type, payload),
         Named(type, payload).tenant = tenant, Named(type, payload).id = id,
         NEW e, e = Event(type, kind, tenant, id, payload)
  PROVE  Decodes(e) /\ e.type = type /\ e.payload = payload
<1>1. /\ e.type = type /\ e.payload = payload /\ e.tenant = tenant /\ e.id = id /\ e.kind = kind
      /\ e.key = <<kind, tenant, id>>
  BY DEF Event
<1>2. Strip(tenant) = tenant /\ Strip(id) = id
  BY KeptFits
<1>3. Conforms(Identity, e) /\ Normalised(Identity, e) = [tenant |-> tenant, id |-> id]
  BY <1>1, IdentityFits
<1> DEFINE n == Named(type, payload)
<1>4. Normalised(Identity, n) = [tenant |-> tenant, id |-> id]
  <2>1. n.tenant = tenant /\ n.id = id
    OBVIOUS
  <2> HIDE DEF n
  <2> QED BY <2>1, IdentityFits
<1> QED BY <1>1, <1>2, <1>3, <1>4 DEF Decodes

LEMMA RelationsCarried ==
  ASSUME NEW d \in KeptDocument, NEW folders \in Seq(Kept)
  PROVE  Carries(RelationsIndexed(d, folders),
                 [tenant |-> d.tenant, id |-> d.id, version |-> d.version, folders |-> folders])
<1> DEFINE type == "DOCUMENT_FOLDER_RELATIONS_INDEXED"
           p == [tenant |-> d.tenant, id |-> d.id, version |-> d.version, folders |-> folders]
<1>1. d.tenant \in Kept /\ d.id \in Kept /\ d.version \in Kept
  BY DEF KeptDocument
<1>2. DOMAIN RelationsPayload = {"tenant", "id", "version", "folders"}
  BY DEF RelationsPayload
<1>3. p = [f \in DOMAIN RelationsPayload |-> p[f]]
  BY <1>2
<1>4. \A f \in DOMAIN RelationsPayload : Fits(RelationsPayload[f], p[f])
  BY <1>1, <1>2, KeptFits DEF RelationsPayload
<1>5. /\ RelationsIndexed(d, folders) = Event(type, "document", d.tenant, d.id, p)
      /\ Named(type, p).tenant = d.tenant /\ Named(type, p).id = d.id
  BY DEF RelationsIndexed, Named
<1> HIDE DEF p
<1>6. Conforms(RelationsPayload, p) /\ Normalised(RelationsPayload, p) = p
  BY <1>3, <1>4, WholeFits
<1>7. DecodesPayload(type, p) /\ PayloadCommand(type, p) = p
  BY <1>6 DEF DecodesPayload, PayloadCommand
<1> HIDE DEF type
<1>8. Carries(RelationsIndexed(d, folders), p)
  BY <1>1, <1>5, <1>7, DecodesIf DEF Carries
<1> QED BY <1>8 DEF p

LEMMA DocumentDeletedCarried ==
  ASSUME NEW tenant \in Kept, NEW id \in Kept, NEW folders \in Seq(Kept)
  PROVE  Carries(DocumentDeleted(tenant, id, folders), [tenant |-> tenant, id |-> id, folders |-> folders])
<1> DEFINE type == "DOCUMENT_DELETED"
           p == [tenant |-> tenant, id |-> id, folders |-> folders]
<1>2. DOMAIN DeletedPayload = {"tenant", "id", "folders"}
  BY DEF DeletedPayload
<1>3. p = [f \in DOMAIN DeletedPayload |-> p[f]]
  BY <1>2
<1>4. \A f \in DOMAIN DeletedPayload : Fits(DeletedPayload[f], p[f])
  BY <1>2, KeptFits DEF DeletedPayload
<1>5. /\ DocumentDeleted(tenant, id, folders) = Event(type, "document", tenant, id, p)
      /\ Named(type, p).tenant = tenant /\ Named(type, p).id = id
  BY DEF DocumentDeleted, Named
<1> HIDE DEF p
<1>6. Conforms(DeletedPayload, p) /\ Normalised(DeletedPayload, p) = p
  BY <1>3, <1>4, WholeFits
<1>7. DecodesPayload(type, p) /\ PayloadCommand(type, p) = p
  BY <1>6 DEF DecodesPayload, PayloadCommand
<1> HIDE DEF type
<1>8. Carries(DocumentDeleted(tenant, id, folders), p)
  BY <1>5, <1>7, DecodesIf DEF Carries
<1> QED BY <1>8 DEF p

LEMMA FolderCarried ==
  ASSUME NEW f \in KeptFolder
  PROVE  Carries(FolderIndexed(f), f)
<1> DEFINE type == "FOLDER_INDEXED"
           fields == {"tenant", "id", "version", "name", "created", "updated", "path", "parent", "description"}
<1>1. /\ f.tenant \in Kept /\ f.id \in Kept /\ f.version \in Kept /\ f.name \in Kept
      /\ f.created \in Kept /\ f.updated \in Kept /\ f.parent \in OrNull(Kept)
  BY DEF KeptFolder
<1>2. DOMAIN FolderPayload = fields
  BY DEF FolderPayload
<1>3. DOMAIN f = fields /\ f = [x \in DOMAIN f |-> f[x]]
  BY DEF KeptFolder
<1>4. \A x \in fields : Fits(FolderPayload[x], f[x])
  BY <1>1, KeptFits DEF FolderPayload
<1>5. /\ FolderIndexed(f) = Event(type, "folder", f.tenant, f.id, f)
      /\ Named(type, f).tenant = f.tenant /\ Named(type, f).id = f.id
  BY DEF FolderIndexed, Named
<1> HIDE DEF fields
<1>6. Conforms(FolderPayload, f) /\ Normalised(FolderPayload, f) = f
  BY <1>2, <1>3, <1>4, WholeFits
<1>7. DecodesPayload(type, f) /\ PayloadCommand(type, f) = f
  BY <1>6 DEF DecodesPayload, PayloadCommand
<1> HIDE DEF type
<1> QED BY <1>1, <1>5, <1>7, DecodesIf DEF Carries

Invalidated(tenant, id) ==
  Event("FOLDER_SIGNALS_INVALIDATED", "folder", tenant, id, [tenant |-> tenant, id |-> id])

LEMMA IdentityCarried ==
  ASSUME NEW tenant \in Kept, NEW id \in Kept
  PROVE  /\ Carries(FolderDeleted(tenant, id), [tenant |-> tenant, id |-> id])
         /\ Carries(Invalidated(tenant, id), [tenant |-> tenant, id |-> id])
<1> DEFINE p == [tenant |-> tenant, id |-> id]
<1>1. p.tenant = tenant /\ p.id = id
  OBVIOUS
<1>2. /\ FolderDeleted(tenant, id) = Event("FOLDER_DELETED", "folder", tenant, id, p)
      /\ Invalidated(tenant, id) = Event("FOLDER_SIGNALS_INVALIDATED", "folder", tenant, id, p)
  BY DEF FolderDeleted, Invalidated
<1>3. Conforms(Identity, p) /\ Normalised(Identity, p) = p
  <2>1. Conforms(Identity, p) /\ Normalised(Identity, p) = [tenant |-> p.tenant, id |-> p.id]
    <3> HIDE DEF p
    <3> QED BY <1>1, IdentityFits
  <2> QED BY <2>1
<1> HIDE DEF p
<1>4. \A type \in {"FOLDER_DELETED", "FOLDER_SIGNALS_INVALIDATED"} :
        /\ DecodesPayload(type, p) /\ PayloadCommand(type, p) = p
        /\ Named(type, p) = p
  BY <1>3 DEF DecodesPayload, PayloadCommand, Named
<1>5. \A type \in {"FOLDER_DELETED", "FOLDER_SIGNALS_INVALIDATED"} :
        Carries(Event(type, "folder", tenant, id, p), p)
  BY <1>1, <1>4, DecodesIf DEF Carries
<1> QED BY <1>2, <1>5 DEF p

\* The event of an indexed document, with its chunks and the signals of an accepted answer.
LEMMA DocumentCarried ==
  ASSUME NEW d \in KeptDocument, NEW p \in Policies, NEW chunks, chunks = Chunks(d, p), chunks # <<>>,
         NEW drafts \in Seq(Draft), ExtractionAccepted(drafts, chunks),
         NEW signals, signals = Signals(d, chunks[1].digest, drafts)
  PROVE  Carries(DocumentIndexed(d, chunks, signals),
                 [document |-> Fields(DocumentPayload, d), chunks |-> chunks, signals |-> signals,
                  digest |-> <<FullText(d), p>>])
<1> DEFINE type == "DOCUMENT_INDEXED"
           profile == [tenant |-> d.tenant, type |-> d.type, id |-> d.id, version |-> d.version,
                       created |-> d.created, updated |-> d.updated, title |-> ProfileTitle(d),
                       content |-> FullText(d), digest |-> chunks[1].digest]
           load == [document |-> d, digest |-> FullText(d), chunks |-> chunks, profile |-> profile,
                    signals |-> signals]
           digest == <<FullText(d), p>>
<1>1. /\ d.tenant \in Kept /\ d.type \in OrNull(Kept) /\ d.id \in Kept /\ d.version \in Kept
      /\ d.created \in Kept /\ d.updated \in Kept /\ d.title \in Strings
  BY DEF KeptDocument
<1>2. Conforms(DocumentPayload, d) /\ Normalised(DocumentPayload, d) = Fields(DocumentPayload, d)
  <2>1. DOMAIN DocumentPayload = {"tenant", "type", "id", "version", "created", "updated", "title"}
    BY DEF DocumentPayload
  <2>2. \A f \in DOMAIN DocumentPayload : Fits(DocumentPayload[f], d[f])
    BY <1>1, <2>1, KeptFits DEF DocumentPayload
  <2> QED BY <2>2, FieldsFit
<1>3. ASSUME NEW i \in DOMAIN chunks
      PROVE  /\ Conforms(ChunkPayload, chunks[i]) /\ Normalised(ChunkPayload, chunks[i]) = chunks[i]
             /\ Context(chunks[i]) = Context(d) /\ chunks[i].digest = digest
  <2>1. PICK k \in Nat : /\ k * Step(p) < Len(FullText(d)) /\ chunks[i] = Chunk(d, p, k)
                         /\ chunks[i].text # <<>>
    <3>1. OfWindow(d, p, chunks[i])
      BY ChunksAre
    <3> QED BY <3>1 DEF OfWindow
  <2>2. chunks[i].text \in Strings /\ ~Blank(chunks[i].text)
    BY <2>1, ChunkIs
  <2> QED BY <2>1, <2>2, ChunkFits
<1>4. chunks[1].digest = digest /\ chunks = [i \in DOMAIN chunks |-> chunks[i]]
  <2>1. chunks \in Seq({Chunk(d, p, i) : i \in Nat})
    BY ChunksAre
  <2>2. 1 \in DOMAIN chunks /\ chunks = [i \in DOMAIN chunks |-> chunks[i]]
    <3> DEFINE X == {Chunk(d, p, i) : i \in Nat}
    <3>1. chunks \in Seq(X)
      BY <2>1
    <3> HIDE DEF X
    <3>2. Len(chunks) \in Nat \ {0} /\ DOMAIN chunks = 1..Len(chunks) /\ chunks \in [1..Len(chunks) -> X]
      BY <3>1, EmptySeq, LenProperties
    <3>3. \A n \in Nat \ {0} : 1 \in 1..n
      OBVIOUS
    <3> QED BY <3>2, <3>3
  <2> QED BY <1>3, <2>2
<1>5. NormalisedEach(ChunkPayload, chunks) = chunks /\ Each(ChunkPayload, chunks)
  BY <1>3, <1>4 DEF NormalisedEach, Each
<1>6. DOMAIN signals = DOMAIN drafts /\ signals = [i \in DOMAIN signals |-> signals[i]]
  BY DEF Signals
<1>7. ASSUME NEW i \in DOMAIN signals
      PROVE  /\ Conforms(SignalPayload, signals[i]) /\ Normalised(SignalPayload, signals[i]) = signals[i]
             /\ Each(EvidencePayload, signals[i].evidence)
             /\ Context(signals[i]) = Context(d) /\ signals[i].digest = digest
  <2>1. signals[i] = Signal(d, digest, drafts[i])
    BY <1>4, <1>6 DEF Signals
  <2>2. drafts[i] \in Draft
    BY <1>6
  <2>3. DraftAccepted(drafts[i], chunks)
    BY <1>6 DEF ExtractionAccepted
  <2> QED BY <2>1, <2>2, <2>3, SignalFits
<1>8. NormalisedEach(SignalPayload, signals) = signals /\ Each(SignalPayload, signals)
  BY <1>6, <1>7 DEF NormalisedEach, Each
<1>9. ProfileTitle(d) \in Strings /\ ~Blank(ProfileTitle(d))
  BY <1>1, KeptFits, Stripped DEF ProfileTitle, Stored
<1>10. /\ profile.tenant = d.tenant /\ profile.type = d.type /\ profile.id = d.id
       /\ profile.version = d.version /\ profile.created = d.created /\ profile.updated = d.updated
       /\ profile.title = ProfileTitle(d) /\ profile.content = FullText(d) /\ profile.digest = digest
  BY <1>4
<1>11. /\ load.document = d /\ load.digest = FullText(d) /\ load.chunks = chunks /\ load.profile = profile
       /\ load.signals = signals
  OBVIOUS
<1>12. DocumentIndexed(d, chunks, signals) = Event(type, "document", d.tenant, d.id, load)
  BY DEF DocumentIndexed
<1> HIDE DEF profile, load, digest
<1>13. Conforms(ProfilePayload, profile)
  <2>1. DOMAIN ProfilePayload =
          {"tenant", "type", "id", "version", "created", "updated", "title", "content", "digest"}
    BY DEF ProfilePayload
  <2>2. Fits("content", profile.title)
    BY <1>9, <1>10 DEF Fits
  <2>3. \A f \in DOMAIN ProfilePayload : Fits(ProfilePayload[f], profile[f])
    BY <1>1, <1>10, <2>1, <2>2, KeptFits DEF ProfilePayload
  <2> QED BY <2>3, FieldsFit
<1>14. Context(profile) = Context(d)
  BY <1>10 DEF Context
<1>15. ContextsAgree(load)
  BY <1>3, <1>7, <1>10, <1>11, <1>14 DEF ContextsAgree
<1>16. DecodesPayload(type, load)
  BY <1>2, <1>5, <1>7, <1>8, <1>11, <1>13, <1>15 DEF DecodesPayload
<1>17. PayloadCommand(type, load) =
         [document |-> Fields(DocumentPayload, d), chunks |-> chunks, signals |-> signals, digest |-> digest]
  BY <1>2, <1>5, <1>8, <1>10, <1>11 DEF PayloadCommand
<1>18. Named(type, load).tenant = d.tenant /\ Named(type, load).id = d.id
  BY <1>11 DEF Named
<1> HIDE DEF type
<1>19. Decodes(Event(type, "document", d.tenant, d.id, load))
  BY <1>1, <1>16, <1>18, DecodesIf
<1>20. /\ Event(type, "document", d.tenant, d.id, load).type = type
       /\ Event(type, "document", d.tenant, d.id, load).payload = load
  BY DEF Event
<1> QED BY <1>12, <1>17, <1>19, <1>20 DEF Carries, digest

-----------------------------------------------------------------------------
(* The invariant.                                                          *)

\* What a transaction has written, and what the workers have decoded of it.
WrittenInv ==
  /\ Len(outbox) \in Nat /\ DOMAIN outbox = 1..Len(outbox)
  /\ \A i \in DOMAIN outbox : Carries(outbox[i], Recorded(outbox[i]))
  /\ Len(decoded) \in 0..Len(outbox)
  /\ decoded = [i \in 1..Len(decoded) |-> {Recorded(outbox[i])}]
  /\ source.kind = "document" /\ Chunks(source.document, policy) # <<>> =>
       rows.document = source.document /\ rows.chunks = Chunks(source.document, policy)

SourceTypes ==
  /\ policy \in Policies
  /\ stage \in {"received", "refused", "accepted", "failed", "written"}
  /\ stage = "received" => source \in Sent
  /\ stage \in {"accepted", "written"} => source \in Commands
  /\ stage # "written" => outbox = <<>> /\ decoded = <<>>

SourceInv == SourceTypes /\ (stage = "written" => WrittenInv)

LEMMA RowsAreKept ==
  /\ Tenants \subseteq Kept
  /\ Affected \subseteq Seq(Kept)
<1>1. Tenants \subseteq Kept
  BY RowsAssumption DEF Kept, Stored
<1>2. ASSUME NEW a \in Affected PROVE a \in Seq(Kept)
  <2>1. a \in Seq(Strings) /\ \A i \in DOMAIN a : Stored(a[i])
    BY <1>2, RowsAssumption
  <2>2. DOMAIN a = 1..Len(a) /\ Len(a) \in Nat /\ \A i \in DOMAIN a : a[i] \in Kept
    BY <2>1 DEF Kept
  <2>3. a \in [1..Len(a) -> Kept]
    BY <2>1, <2>2
  <2> QED BY <2>2, <2>3
<1> QED BY <1>1, <1>2

Notices(tenant) == {Invalidated(tenant, id) : id \in Kept}

LEMMA NoticesAre ==
  ASSUME NEW tenant \in Kept, NEW a \in Seq(Kept)
  PROVE  SignalsInvalidated(tenant, a) \in Seq(Notices(tenant))
<1>1. DOMAIN a = 1..Len(a) /\ Len(a) \in Nat /\ \A i \in DOMAIN a : a[i] \in Kept
  OBVIOUS
<1>2. SignalsInvalidated(tenant, a) = [i \in DOMAIN a |-> Invalidated(tenant, a[i])]
  BY DEF SignalsInvalidated, Invalidated
<1>3. \A i \in DOMAIN a : Invalidated(tenant, a[i]) \in Notices(tenant)
  BY <1>1 DEF Notices
<1> DEFINE s == [i \in DOMAIN a |-> Invalidated(tenant, a[i])]
<1>4. s \in [1..Len(a) -> Notices(tenant)]
  BY <1>1, <1>3
<1> HIDE DEF s
<1>5. s \in Seq(Notices(tenant))
  BY <1>1, <1>4
<1> QED BY <1>2, <1>5 DEF s

LEMMA NoticesCarried ==
  ASSUME NEW tenant \in Kept, NEW e \in Notices(tenant)
  PROVE  Carries(e, Recorded(e))
<1>1. PICK id \in Kept : e = Invalidated(tenant, id)
  BY DEF Notices
<1>2. e.type = "FOLDER_SIGNALS_INVALIDATED" /\ e.tenant = tenant /\ e.id = id
  BY <1>1 DEF Invalidated, Event
<1>3. Recorded(e) = [tenant |-> tenant, id |-> id]
  BY <1>2 DEF Recorded
<1> QED BY <1>1, <1>3, IdentityCarried

\* Every action that writes: its events say what its rows say.
LEMMA WriteKeeps ==
  ASSUME SourceTypes, stage = "accepted", NEW r, NEW X, NEW events \in Seq(X), Write(r, events),
         \A e \in X : Carries(e, Recorded(e)'),
         source.kind = "document" /\ Chunks(source.document, policy) # <<>> =>
           r.document = source.document /\ r.chunks = Chunks(source.document, policy)
  PROVE  SourceInv'
<1>1. /\ stage' = "written" /\ rows' = r /\ outbox' = events
      /\ source' = source /\ policy' = policy /\ decoded' = decoded /\ decoded = <<>>
  BY DEF Write, SourceTypes
<1>2. SourceTypes'
  BY <1>1 DEF SourceTypes
<1>3. Len(events) \in Nat /\ DOMAIN events = 1..Len(events) /\ \A i \in DOMAIN events : events[i] \in X
  OBVIOUS
<1>4. \A i \in DOMAIN events : Carries(events[i], Recorded(events[i])')
  BY <1>3
<1>5. (\A i \in DOMAIN outbox : Carries(outbox[i], Recorded(outbox[i])))'
  BY <1>1, <1>4 DEF Recorded
<1>6. Len(decoded') = 0 /\ decoded' = [i \in 1..0 |-> {Recorded(outbox[i])'}]
  BY <1>1
<1>7. (Len(outbox) \in Nat /\ DOMAIN outbox = 1..Len(outbox))' /\ 0 \in 0..Len(outbox')
  BY <1>1, <1>3
<1>8. (source.kind = "document" /\ Chunks(source.document, policy) # <<>> =>
         rows.document = source.document /\ rows.chunks = Chunks(source.document, policy))'
  BY <1>1
<1>9. WrittenInv'
  BY <1>5, <1>6, <1>7, <1>8 DEF WrittenInv
<1> QED BY <1>2, <1>9 DEF SourceInv

\* The kind of a command says what it is.
LEMMA CommandIs ==
  ASSUME NEW c \in Commands
  PROVE  /\ c.kind = "document" => c.document \in KeptDocument /\ c.folders \in OrNull(Seq(Kept))
         /\ c.kind = "folder" => c.folder \in KeptFolder
         /\ c.kind \in {"delete document", "delete folder"} => c.id \in Kept
<1>1. CASE c \in DocumentCommand
  BY <1>1 DEF DocumentCommand
<1>2. CASE c \in FolderCommand
  BY <1>2 DEF FolderCommand
<1>3. CASE c \in DeleteCommand
  BY <1>3 DEF DeleteCommand
<1> QED BY <1>1, <1>2, <1>3 DEF Commands

LEMMA ServesIs ==
  ASSUME SourceInv, NEW kind, Serves(kind)
  PROVE  SourceTypes /\ stage = "accepted" /\ source \in Commands /\ source.kind = kind /\ policy \in Policies
BY DEF SourceInv, SourceTypes, Serves

LEMMA OneOf ==
  ASSUME NEW X, NEW x \in X
  PROVE  <<x>> \in Seq(X)
OBVIOUS

\* One event before those of the folders.
LEMMA EventsAre ==
  ASSUME NEW e, NEW tenant \in Kept, NEW a \in Seq(Kept), NEW s, s = SignalsInvalidated(tenant, a),
         NEW X, X = {e} \cup Notices(tenant)
  PROVE  <<e>> \o s \in Seq(X)
<1>1. s \in Seq(Notices(tenant))
  BY NoticesAre
<1>2. s \in Seq(X)
  BY <1>1, SeqMonotonic
<1>3. e \in X
  OBVIOUS
<1>4. <<e>> \in Seq(X)
  BY <1>3, OneOf
<1> QED BY <1>2, <1>4, ConcatProperties

LEMMA NoticesKeep ==
  ASSUME NEW tenant \in Kept, NEW e \in Notices(tenant)
  PROVE  Carries(e, Recorded(e)')
<1>1. Carries(e, Recorded(e)) /\ e.type = "FOLDER_SIGNALS_INVALIDATED"
  BY NoticesCarried DEF Notices, Invalidated, Event
<1>2. Recorded(e)' = Recorded(e)
  BY <1>1 DEF Recorded
<1> QED BY <1>1, <1>2

LEMMA OneEventKeeps ==
  ASSUME SourceTypes, stage = "accepted", NEW tenant \in Kept, NEW a \in Affected, NEW r, NEW e,
         Write(r, <<e>> \o SignalsInvalidated(tenant, a)), Carries(e, Recorded(e)'),
         ~(source.kind = "document" /\ Chunks(source.document, policy) # <<>>)
  PROVE  SourceInv'
<1> DEFINE s == SignalsInvalidated(tenant, a)
           X == {e} \cup Notices(tenant)
<1>1. a \in Seq(Kept)
  BY RowsAreKept
<1>2. <<e>> \o s \in Seq(X)
  BY <1>1, EventsAre
<1>3. \A x \in X : Carries(x, Recorded(x)')
  BY NoticesKeep
<1> HIDE DEF s, X
<1>4. Write(r, <<e>> \o s)
  BY DEF s
<1> QED BY <1>2, <1>3, <1>4, WriteKeeps

LEMMA DropKeeps ==
  ASSUME SourceInv, NEW a \in Affected, DropEmptyDocument(a)
  PROVE  SourceInv'
<1> DEFINE d == source.document
           r == [tenant |-> d.tenant, id |-> d.id, folders |-> a]
<1>0. PICK e : e = DocumentDeleted(d.tenant, d.id, a)
  OBVIOUS
<1>1. /\ SourceTypes /\ stage = "accepted" /\ source \in Commands /\ source.kind = "document"
      /\ Chunks(source.document, policy) = <<>>
      /\ Write(r, <<e>> \o SignalsInvalidated(d.tenant, a))
  BY <1>0, ServesIs DEF DropEmptyDocument
<1>2. d.tenant \in Kept /\ d.id \in Kept /\ a \in Seq(Kept)
  <2>1. d \in KeptDocument
    BY <1>1, CommandIs
  <2> QED BY <2>1, RowsAreKept DEF KeptDocument
<1>3. Carries(e, Recorded(e)')
  <2>1. e.type = "DOCUMENT_DELETED"
    BY <1>0 DEF DocumentDeleted, Event
  <2>2. Recorded(e)' = r
    BY <1>1, <2>1 DEF Recorded, Write
  <2>3. Carries(e, r)
    BY <1>0, <1>2, DocumentDeletedCarried
  <2> QED BY <2>2, <2>3
<1> HIDE DEF r, d
<1>4. ~(source.kind = "document" /\ Chunks(source.document, policy) # <<>>)
  BY <1>1
<1> QED BY <1>1, <1>2, <1>3, <1>4, OneEventKeeps

LEMMA FolderKeeps ==
  ASSUME SourceInv, NEW a \in Affected, IndexFolder(a)
  PROVE  SourceInv'
<1> DEFINE f == source.folder
<1>0. PICK e : e = FolderIndexed(f)
  OBVIOUS
<1>1. /\ SourceTypes /\ stage = "accepted" /\ source \in Commands /\ source.kind = "folder"
      /\ Write(f, <<e>> \o SignalsInvalidated(f.tenant, a))
  BY <1>0, ServesIs DEF IndexFolder
<1>2. f \in KeptFolder
  BY <1>1, CommandIs
<1>3. f.tenant \in Kept
  BY <1>2 DEF KeptFolder
<1>4. Carries(e, Recorded(e)')
  <2>1. e.type = "FOLDER_INDEXED"
    BY <1>0 DEF FolderIndexed, Event
  <2>2. Recorded(e)' = f
    BY <1>1, <2>1 DEF Recorded, Write
  <2>3. Carries(e, f)
    BY <1>0, <1>2, FolderCarried
  <2> QED BY <2>2, <2>3
<1> HIDE DEF f
<1>5. ~(source.kind = "document" /\ Chunks(source.document, policy) # <<>>)
  BY <1>1
<1> QED BY <1>1, <1>3, <1>4, <1>5, OneEventKeeps

LEMMA DeleteKeeps ==
  ASSUME SourceInv, NEW tenant \in Tenants, NEW a \in Affected, Delete(tenant, a)
  PROVE  SourceInv'
<1>1. tenant \in Kept /\ a \in Seq(Kept)
  BY RowsAreKept
<1>2. CASE /\ Serves("delete document")
           /\ Write([tenant |-> tenant, id |-> source.id, folders |-> a],
                    <<DocumentDeleted(tenant, source.id, a)>> \o SignalsInvalidated(tenant, a))
  <2> DEFINE r == [tenant |-> tenant, id |-> source.id, folders |-> a]
  <2>0. PICK e : e = DocumentDeleted(tenant, source.id, a)
    OBVIOUS
  <2>1. /\ SourceTypes /\ stage = "accepted" /\ source \in Commands /\ source.kind = "delete document"
        /\ Write(r, <<e>> \o SignalsInvalidated(tenant, a))
    BY <1>2, <2>0, ServesIs
  <2>2. source.id \in Kept
    BY <2>1, CommandIs
  <2>3. Carries(e, Recorded(e)')
    <3>1. e.type = "DOCUMENT_DELETED"
      BY <2>0 DEF DocumentDeleted, Event
    <3>2. Recorded(e)' = r
      BY <2>1, <3>1 DEF Recorded, Write
    <3>3. Carries(e, r)
      BY <1>1, <2>0, <2>2, DocumentDeletedCarried
    <3> QED BY <3>2, <3>3
  <2> HIDE DEF r
  <2>4. ~(source.kind = "document" /\ Chunks(source.document, policy) # <<>>)
    BY <2>1
  <2> QED BY <1>1, <2>1, <2>3, <2>4, OneEventKeeps
<1>3. CASE /\ Serves("delete folder")
           /\ Write([tenant |-> tenant, id |-> source.id],
                    <<FolderDeleted(tenant, source.id)>> \o SignalsInvalidated(tenant, a))
  <2> DEFINE r == [tenant |-> tenant, id |-> source.id]
  <2>0. PICK e : e = FolderDeleted(tenant, source.id)
    OBVIOUS
  <2>1. /\ SourceTypes /\ stage = "accepted" /\ source \in Commands /\ source.kind = "delete folder"
        /\ Write(r, <<e>> \o SignalsInvalidated(tenant, a))
    BY <1>3, <2>0, ServesIs
  <2>2. source.id \in Kept
    BY <2>1, CommandIs
  <2>3. Carries(e, Recorded(e)')
    <3>1. e.type = "FOLDER_DELETED"
      BY <2>0 DEF FolderDeleted, Event
    <3>2. Recorded(e)' = r
      BY <2>1, <3>1 DEF Recorded, Write
    <3>3. Carries(e, r)
      BY <1>1, <2>0, <2>2, IdentityCarried
    <3> QED BY <3>2, <3>3
  <2> HIDE DEF r
  <2>4. ~(source.kind = "document" /\ Chunks(source.document, policy) # <<>>)
    BY <2>1
  <2> QED BY <1>1, <2>1, <2>3, <2>4, OneEventKeeps
<1> QED BY <1>2, <1>3 DEF Delete

LEMMA IndexKeeps ==
  ASSUME SourceInv, NEW drafts \in Extractions, NEW a \in Affected, IndexDocument(drafts, a)
  PROVE  SourceInv'
<1> DEFINE d == source.document
           chunks == Chunks(d, policy)
           signals == Signals(d, chunks[1].digest, drafts)
           r == [document |-> d, chunks |-> chunks, signals |-> signals, folders |-> source.folders]
           s == SignalsInvalidated(d.tenant, a)
<1>0. PICK first, second : /\ first = DocumentIndexed(d, chunks, signals)
                           /\ second = RelationsIndexed(d, source.folders)
  OBVIOUS
<1> DEFINE middle == IF source.folders = Null THEN <<>> ELSE <<second>>
           X == {first} \cup (IF source.folders = Null THEN {} ELSE {second}) \cup Notices(d.tenant)
<1>1. /\ SourceTypes /\ stage = "accepted" /\ source \in Commands /\ source.kind = "document"
      /\ policy \in Policies
      /\ chunks # <<>> /\ ExtractionAccepted(drafts, chunks)
      /\ Write(r, <<first>> \o middle \o s)
  BY <1>0, ServesIs DEF IndexDocument
<1>2. d \in KeptDocument /\ source.folders \in OrNull(Seq(Kept))
  BY <1>1, CommandIs
<1>3. d.tenant \in Kept /\ a \in Seq(Kept) /\ drafts \in Seq(Draft)
  BY <1>2, RowsAreKept, RequestsAssumption DEF KeptDocument
<1>4. <<first>> \o middle \o s \in Seq(X)
  <2>1. first \in X /\ (source.folders # Null => second \in X) /\ Notices(d.tenant) \subseteq X
    OBVIOUS
  <2>2. s \in Seq(Notices(d.tenant))
    BY <1>3, NoticesAre
  <2> HIDE DEF X, s
  <2>3. s \in Seq(X)
    BY <2>1, <2>2, SeqMonotonic
  <2>4. <<first>> \in Seq(X)
    BY <2>1, OneOf
  <2>5. middle \in Seq(X)
    BY <2>1, OneOf, EmptySeq
  <2> HIDE DEF middle
  <2>6. <<first>> \o middle \in Seq(X)
    BY <2>4, <2>5, ConcatProperties
  <2> QED BY <2>3, <2>6, ConcatProperties
<1>5. rows' = r /\ policy' = policy
  BY <1>1 DEF Write
<1>6. Carries(first, Recorded(first)')
  <2>1. first.type = "DOCUMENT_INDEXED"
    BY <1>0 DEF DocumentIndexed, Event
  <2> DEFINE said == [document |-> Fields(DocumentPayload, d), chunks |-> chunks, signals |-> signals,
                      digest |-> <<FullText(d), policy>>]
  <2>2. Recorded(first)' = said
    <3>1. r.document = d /\ r.chunks = chunks /\ r.signals = signals
      OBVIOUS
    <3> HIDE DEF r, d, chunks, signals
    <3> QED BY <1>5, <2>1, <3>1 DEF Recorded
  <2>3. Carries(first, said)
    <3> HIDE DEF d
    <3> DEFINE c == chunks
    <3>1. c = Chunks(d, policy) /\ c # <<>> /\ ExtractionAccepted(drafts, c)
      BY <1>1
    <3> QED BY <1>0, <1>1, <1>2, <1>3, DocumentCarried
  <2> QED BY <2>2, <2>3
<1>7. ASSUME source.folders # Null PROVE Carries(second, Recorded(second)')
  <2>1. second.type = "DOCUMENT_FOLDER_RELATIONS_INDEXED"
    BY <1>0 DEF RelationsIndexed, Event
  <2>2. Recorded(second)' = [tenant |-> d.tenant, id |-> d.id, version |-> d.version,
                             folders |-> source.folders]
    <3>1. r.document = d /\ r.folders = source.folders
      OBVIOUS
    <3> HIDE DEF r, d
    <3> QED BY <1>5, <2>1, <3>1 DEF Recorded
  <2>3. source.folders \in Seq(Kept)
    BY <1>2, <1>7 DEF OrNull
  <2>4. Carries(second, [tenant |-> d.tenant, id |-> d.id, version |-> d.version, folders |-> source.folders])
    BY <1>0, <1>2, <2>3, RelationsCarried
  <2> QED BY <2>2, <2>4
<1>8. \A x \in X : Carries(x, Recorded(x)')
  <2>1. \A x \in Notices(d.tenant) : Carries(x, Recorded(x)')
    BY <1>3, NoticesKeep
  <2>2. \A x \in X : x = first \/ (source.folders # Null /\ x = second) \/ x \in Notices(d.tenant)
    OBVIOUS
  <2> HIDE DEF X
  <2> QED BY <1>6, <1>7, <2>1, <2>2
<1>9. r.document = source.document /\ r.chunks = Chunks(source.document, policy)
  OBVIOUS
<1> DEFINE events == <<first>> \o middle \o s
<1>10. Write(r, events)
  BY <1>1
<1>11. events \in Seq(X)
  BY <1>4
<1> HIDE DEF r, events, X
<1> QED BY <1>1, <1>8, <1>9, <1>10, <1>11, WriteKeeps

LEMMA DecodeKeeps ==
  ASSUME SourceInv, DecodeNext
  PROVE  SourceInv'
<1> DEFINE n == Len(decoded) + 1
           e == outbox[n]
           X == {{Recorded(outbox[i])} : i \in DOMAIN outbox}
<1>1. /\ SourceTypes /\ WrittenInv /\ stage = "written" /\ Len(decoded) < Len(outbox)
      /\ decoded' = Append(decoded, IF Decodes(e) THEN {PayloadCommand(e.type, e.payload)} ELSE {})
      /\ UNCHANGED <<stage, source, policy, rows, outbox>>
  BY DEF DecodeNext, SourceInv
<1>2. Len(decoded) \in Nat /\ Len(outbox) \in Nat /\ DOMAIN outbox = 1..Len(outbox)
      /\ n \in DOMAIN outbox /\ n <= Len(outbox)
  BY <1>1 DEF WrittenInv
<1>3. decoded' = Append(decoded, {Recorded(e)})
  <2>1. Carries(e, Recorded(e))
    BY <1>1, <1>2 DEF WrittenInv
  <2> HIDE DEF e
  <2> QED BY <1>1, <2>1 DEF Carries
<1>4. decoded \in Seq(X) /\ {Recorded(e)} \in X
  <2>1. \A i \in DOMAIN outbox : {Recorded(outbox[i])} \in X
    OBVIOUS
  <2>2. {Recorded(e)} \in X
    BY <1>2, <2>1
  <2> HIDE DEF X, e, n
  <2>3. \A i \in 1..Len(decoded) : i \in DOMAIN outbox
    BY <1>1, <1>2
  <2>4. decoded \in [1..Len(decoded) -> X]
    BY <1>1, <2>1, <2>3 DEF WrittenInv
  <2> QED BY <1>2, <2>2, <2>4
<1>5. /\ Len(decoded') = n /\ decoded'[n] = {Recorded(e)}
      /\ \A i \in 1..Len(decoded) : decoded'[i] = decoded[i]
      /\ decoded' \in Seq(X)
  <2> HIDE DEF X, e
  <2> QED BY <1>3, <1>4, AppendProperties
<1>6. \A i \in 1..n : decoded'[i] = {Recorded(outbox[i])}
  <2>1. \A i \in 1..n : i = n \/ i \in 1..Len(decoded)
    BY <1>2
  <2>2. \A i \in 1..Len(decoded) : decoded[i] = {Recorded(outbox[i])}
    BY <1>1 DEF WrittenInv
  <2> QED BY <1>5, <2>1, <2>2
<1>7. decoded' = [i \in 1..n |-> {Recorded(outbox[i])}]
  <2>1. DOMAIN decoded' = 1..n /\ decoded' = [i \in DOMAIN decoded' |-> decoded'[i]]
    <3> HIDE DEF X, n
    <3> QED BY <1>5
  <2> HIDE DEF n
  <2> QED BY <1>6, <2>1
<1>8. \A x : Recorded(x)' = Recorded(x)
  BY <1>1 DEF Recorded
<1>9. WrittenInv'
  <2>1. decoded' = [i \in 1..Len(decoded') |-> {Recorded(outbox[i])'}]
    BY <1>1, <1>5, <1>7, <1>8
  <2>2. (\A i \in DOMAIN outbox : Carries(outbox[i], Recorded(outbox[i])))'
    BY <1>1, <1>8 DEF WrittenInv
  <2>3. Len(decoded') \in 0..Len(outbox')
    BY <1>1, <1>2, <1>5
  <2>4. (decoded = [i \in 1..Len(decoded) |-> {Recorded(outbox[i])}])'
    BY <1>1, <2>1
  <2> QED BY <1>1, <1>2, <2>2, <2>3, <2>4 DEF WrittenInv
<1>10. SourceTypes'
  BY <1>1 DEF SourceTypes
<1> QED BY <1>9, <1>10 DEF SourceInv

LEMMA SourceInvariant == SourceSpec => []SourceInv
<1>1. SourceInit => SourceInv
  BY DEF SourceInit, SourceInv, SourceTypes, Sent
<1>2. SourceInv /\ [SourceNext]_sourceVars => SourceInv'
  <2> SUFFICES ASSUME SourceInv, [SourceNext]_sourceVars PROVE SourceInv'
    OBVIOUS
  <2>1. CASE Receive
    <3>1. /\ SourceTypes /\ stage = "received" /\ source \in Sent
          /\ UNCHANGED <<policy, rows, outbox, decoded>>
      BY <2>1 DEF Receive, SourceInv, SourceTypes
    <3>2. CASE Accepted(source)
      <4>1. stage' = "accepted" /\ source' = Command(source)
        BY <2>1, <3>2 DEF Receive
      <4>2. source' \in Commands
        BY <3>1, <3>2, <4>1, Mapped
      <4> QED BY <3>1, <4>1, <4>2 DEF SourceInv, SourceTypes
    <3>3. CASE ~Accepted(source)
      <4>1. stage' = "refused"
        BY <2>1, <3>3 DEF Receive
      <4> QED BY <3>1, <4>1 DEF SourceInv, SourceTypes
    <3> QED BY <3>2, <3>3
  <2>2. ASSUME NEW drafts \in Extractions, FailExtraction(drafts) PROVE SourceInv'
    BY <2>2 DEF FailExtraction, Serves, SourceInv, SourceTypes
  <2>3. ASSUME NEW drafts \in Extractions, NEW a \in Affected, IndexDocument(drafts, a) PROVE SourceInv'
    BY <2>3, IndexKeeps
  <2>4. ASSUME NEW a \in Affected, DropEmptyDocument(a) PROVE SourceInv'
    BY <2>4, DropKeeps
  <2>5. ASSUME NEW a \in Affected, IndexFolder(a) PROVE SourceInv'
    BY <2>5, FolderKeeps
  <2>6. ASSUME NEW a \in Affected, NEW tenant \in Tenants, Delete(tenant, a) PROVE SourceInv'
    BY <2>6, DeleteKeeps
  <2>7. CASE DecodeNext
    BY <2>7, DecodeKeeps
  <2>8. CASE UNCHANGED sourceVars
    <3>1. \A x : Recorded(x)' = Recorded(x)
      BY <2>8 DEF Recorded, sourceVars
    <3>2. WrittenInv' = WrittenInv
      BY <2>8, <3>1 DEF WrittenInv, sourceVars
    <3>3. SourceTypes' = SourceTypes /\ stage' = stage
      BY <2>8 DEF SourceTypes, sourceVars
    <3> QED BY <3>2, <3>3 DEF SourceInv
  <2> QED BY <2>1, <2>2, <2>3, <2>4, <2>5, <2>6, <2>7, <2>8 DEF SourceNext
<1> QED BY <1>1, <1>2, PTL DEF SourceSpec

(***************************************************************************)
(* Whatever a client sends and the language model answers, every event of  *)
(* an accepted request passes the worker's validators, and the worker      *)
(* makes of it what the transaction wrote.                                 *)
(***************************************************************************)
THEOREM SourceAcceptedIsDecoded == SourceSpec => []AcceptedIsDecoded
<1>1. SourceInv => AcceptedIsDecoded
  <2> SUFFICES ASSUME SourceInv, NEW i \in DOMAIN decoded PROVE decoded[i] = {Recorded(outbox[i])}
    BY DEF AcceptedIsDecoded
  <2>1. CASE stage = "written"
    BY <2>1 DEF SourceInv, WrittenInv
  <2>2. CASE stage # "written"
    BY <2>2 DEF SourceInv, SourceTypes
  <2> QED BY <2>1, <2>2
<1> QED BY <1>1, SourceInvariant, PTL

(***************************************************************************)
(* Whatever the text and the size and overlap of the windows, the chunks   *)
(* are pieces of it at the offsets they state, none is longer than the     *)
(* size, and every word of the text is in one of them.                     *)
(***************************************************************************)
THEOREM SourceChunksCoverText == SourceSpec => []ChunksCoverText
<1>1. SourceInv => ChunksCoverText
  <2> SUFFICES ASSUME SourceInv, stage = "written", source.kind = "document",
                      Chunks(source.document, policy) # <<>>
               PROVE  LET text == FullText(rows.document)
                          all == ToSet(rows.chunks)
                      IN  /\ \A c \in all : /\ c.text = SubSeq(text, c.start + 1, c.end)
                                            /\ Len(c.text) <= policy.size
                          /\ \A k \in DOMAIN text :
                               text[k] = " " \/ \E c \in all : c.start < k /\ k <= c.end
    BY DEF ChunksCoverText
  <2> DEFINE d == source.document
             cs == Chunks(d, policy)
             text == FullText(d)
  <2>1. rows.document = d /\ rows.chunks = cs
    BY DEF SourceInv, WrittenInv
  <2>2. d \in KeptDocument /\ policy \in Policies
    <3>1. source \in Commands /\ policy \in Policies
      BY DEF SourceInv, SourceTypes
    <3> QED BY <3>1, CommandIs
  <2> HIDE DEF d
  <2>3. ASSUME NEW j \in DOMAIN cs
        PROVE  cs[j].text = SubSeq(text, cs[j].start + 1, cs[j].end) /\ Len(cs[j].text) <= policy.size
    <3>1. OfWindow(d, policy, cs[j])
      BY <2>2, ChunksAre
    <3>2. PICK i \in Nat : i * Step(policy) < Len(FullText(d)) /\ cs[j] = Chunk(d, policy, i) /\ cs[j].text # <<>>
      BY <3>1 DEF OfWindow
    <3> HIDE DEF cs
    <3> QED BY <2>2, <3>2, ChunkIs
  <2>4. ASSUME NEW k \in DOMAIN text, text[k] # " "
        PROVE  \E j \in DOMAIN cs : cs[j].start < k /\ k <= cs[j].end
    <3>1. Len(text) \in Nat /\ DOMAIN text = 1..Len(text)
      BY <2>2, FullTextIs, StripIs
    <3>2. k \in 1..Len(text)
      BY <3>1
    <3> QED BY <2>2, <2>4, <3>1, <3>2, Covering
  <2>5. \A c : c \in ToSet(rows.chunks) <=> \E j \in DOMAIN cs : c = cs[j]
    <3> HIDE DEF cs
    <3> QED BY <2>1 DEF ToSet
  <2> HIDE DEF cs, text
  <2>6. \A c \in ToSet(rows.chunks) : c.text = SubSeq(text, c.start + 1, c.end) /\ Len(c.text) <= policy.size
    BY <2>3, <2>5
  <2>7. \A k \in DOMAIN text : text[k] = " " \/ \E c \in ToSet(rows.chunks) : c.start < k /\ k <= c.end
    BY <2>4, <2>5
  <2> QED BY <2>1, <2>6, <2>7 DEF text
<1> QED BY <1>1, SourceInvariant, PTL
-----------------------------------------------------------------------------
(* Sums and joined lists.  Both are defined by recursive functions, whose  *)
(* existence is shown by the least size without one.                       *)

\* What the sum of g over s is, given that over one member less.
SumStep(h, g, s) == IF s = {} THEN 0 ELSE g[CHOOSE x \in s : TRUE] + h[s \ {CHOOSE x \in s : TRUE}]
SumsUp(h, S, g) == h = [s \in SUBSET S |-> SumStep(h, g, s)]

LEMMA OneLess ==
  ASSUME NEW s, IsFiniteSet(s), s # {}
  PROVE  LET c == CHOOSE x \in s : TRUE IN
         /\ c \in s /\ Cardinality(s) \in Nat \ {0} /\ s \ {c} \subseteq s
         /\ Cardinality(s \ {c}) = Cardinality(s) - 1
<1> DEFINE c == CHOOSE x \in s : TRUE
<1>1. c \in s
  OBVIOUS
<1> HIDE DEF c
<1>2. Cardinality(s) \in Nat /\ Cardinality(s) # 0
  BY FS_CardinalityType, FS_EmptySet
<1>3. Cardinality(s \ {c}) = Cardinality(s) - 1
  BY <1>1, FS_RemoveElement
<1> QED BY <1>1, <1>2, <1>3 DEF c

LEMMA SumExists ==
  ASSUME NEW S, IsFiniteSet(S), NEW g
  PROVE  \E h : SumsUp(h, S, g)
<1> DEFINE UpTo(h, n) == \A s \in SUBSET S : Cardinality(s) <= n => h[s] = SumStep(h, g, s)
           Bad == {n \in Nat : ~\E h : UpTo(h, n)}
<1>1. \A s \in SUBSET S : IsFiniteSet(s) /\ Cardinality(s) \in Nat /\ Cardinality(s) <= Cardinality(S)
  BY FS_Subset, FS_CardinalityType
<1>2. ASSUME Bad # {} PROVE FALSE
  <2> DEFINE n == Least(Bad)
  <2>1. n \in Bad /\ \A m \in Bad : n <= m
    BY <1>2, LeastNatural
  <2> HIDE DEF n
  <2>2. CASE n = 0
    <3> DEFINE h == [s \in SUBSET S |-> 0]
    <3>1. \A s \in SUBSET S : Cardinality(s) <= 0 => s = {}
      BY <1>1, FS_EmptySet
    <3>2. UpTo(h, 0)
      BY <3>1 DEF SumStep
    <3> QED BY <2>1, <2>2, <3>2
  <2>3. CASE n # 0
    <3>1. n - 1 \in Nat /\ n \in Nat /\ n - 1 \notin Bad
      BY <2>1, <2>3
    <3>2. PICK h : UpTo(h, n - 1)
      BY <3>1
    <3> DEFINE k == [s \in SUBSET S |-> IF Cardinality(s) <= n - 1 THEN h[s] ELSE SumStep(h, g, s)]
    <3>3. ASSUME NEW s \in SUBSET S, Cardinality(s) <= n PROVE k[s] = SumStep(k, g, s)
      <4>1. k[s] = SumStep(h, g, s)
        BY <3>2
      <4>2. SumStep(k, g, s) = SumStep(h, g, s)
        <5>1. CASE s = {}
          BY <5>1 DEF SumStep
        <5>2. CASE s # {}
          <6> DEFINE r == s \ {CHOOSE x \in s : TRUE}
          <6>1. Cardinality(r) = Cardinality(s) - 1 /\ r \in SUBSET S
            BY <1>1, <5>2, OneLess
          <6> HIDE DEF r
          <6>2. Cardinality(r) <= n - 1
            BY <1>1, <3>1, <3>3, <6>1
          <6>3. k[r] = h[r]
            BY <6>1, <6>2
          <6> HIDE DEF k
          <6> QED BY <6>3 DEF SumStep, r
        <5> QED BY <5>1, <5>2
      <4> QED BY <4>1, <4>2
    <3> HIDE DEF k
    <3>4. UpTo(k, n)
      BY <3>3
    <3> QED BY <2>1, <3>4
  <2> QED BY <2>2, <2>3
<1>3. Cardinality(S) \in Nat
  BY FS_CardinalityType
<1>4. PICK h : UpTo(h, Cardinality(S))
  BY <1>2, <1>3
<1> DEFINE k == [s \in SUBSET S |-> h[s]]
<1>5. ASSUME NEW s \in SUBSET S PROVE k[s] = SumStep(k, g, s)
  <2>1. h[s] = SumStep(h, g, s)
    BY <1>1, <1>4
  <2>2. SumStep(k, g, s) = SumStep(h, g, s)
    <3>1. s \ {CHOOSE x \in s : TRUE} \in SUBSET S
      OBVIOUS
    <3> QED BY <3>1 DEF SumStep
  <2> QED BY <2>1, <2>2
<1>6. SumsUp(k, S, g)
  <2>1. k = [s \in SUBSET S |-> k[s]]
    OBVIOUS
  <2> HIDE DEF k
  <2>2. k = [s \in SUBSET S |-> SumStep(k, g, s)]
    BY <1>5, <2>1
  <2> QED BY <2>2 DEF SumsUp
<1> QED BY <1>6

LEMMA SumIsInteger ==
  ASSUME NEW S, IsFiniteSet(S), NEW g, \A x \in S : g[x] \in Int, NEW h, SumsUp(h, S, g)
  PROVE  h[S] \in Int
<1> DEFINE Bad == {n \in Nat : \E s \in SUBSET S : Cardinality(s) = n /\ h[s] \notin Int}
<1>1. \A s \in SUBSET S : IsFiniteSet(s) /\ Cardinality(s) \in Nat
  BY FS_Subset, FS_CardinalityType
<1>2. \A s \in SUBSET S : h[s] = SumStep(h, g, s)
  BY DEF SumsUp
<1>3. ASSUME Bad # {} PROVE FALSE
  <2> DEFINE n == Least(Bad)
  <2>1. n \in Bad /\ \A m \in Bad : n <= m
    BY <1>3, LeastNatural
  <2> HIDE DEF n
  <2>2. PICK s \in SUBSET S : Cardinality(s) = n /\ h[s] \notin Int
    BY <2>1
  <2>3. s # {}
    <3>1. h[s] = SumStep(h, g, s)
      BY <1>2
    <3>2. s = {} => SumStep(h, g, s) = 0
      BY DEF SumStep
    <3> QED BY <2>2, <3>1, <3>2
  <2> DEFINE c == CHOOSE x \in s : TRUE
  <2>4. c \in S /\ Cardinality(s \ {c}) = n - 1 /\ s \ {c} \in SUBSET S /\ n \in Nat \ {0}
    BY <1>1, <2>2, <2>3, OneLess
  <2>5. h[s] = g[c] + h[s \ {c}]
    BY <1>2, <2>3 DEF SumStep
  <2> HIDE DEF c
  <2>6. h[s \ {c}] \in Int
    <3>1. n - 1 \notin Bad /\ n - 1 \in Nat
      BY <2>1, <2>4
    <3> QED BY <2>4, <3>1
  <2> QED BY <2>2, <2>4, <2>5, <2>6
<1>4. Cardinality(S) \notin Bad /\ S \in SUBSET S
  BY <1>3
<1> QED BY <1>1, <1>4

\* A sum of integers is one.
LEMMA TotalIs ==
  ASSUME NEW S, IsFiniteSet(S), NEW g, \A x \in S : g[x] \in Int
  PROVE  Total(g, S) \in Int
<1>1. \E h : h = [s \in SUBSET S |->
                   IF s = {} THEN 0 ELSE g[CHOOSE x \in s : TRUE] + h[s \ {CHOOSE x \in s : TRUE}]]
  <2>1. PICK h : SumsUp(h, S, g)
    BY SumExists
  <2> QED BY <2>1 DEF SumsUp, SumStep
<1>2. PICK h : /\ Total(g, S) = h[S]
               /\ h = [s \in SUBSET S |->
                        IF s = {} THEN 0 ELSE g[CHOOSE x \in s : TRUE] + h[s \ {CHOOSE x \in s : TRUE}]]
  BY <1>1 DEF Total, MapThenSumSet, MapThenFoldSet
<1>3. SumsUp(h, S, g)
  BY <1>2 DEF SumsUp, SumStep
<1> QED BY <1>2, <1>3, SumIsInteger

LEMMA SumIs ==
  ASSUME NEW S \in SUBSET Int, IsFiniteSet(S)
  PROVE  SumSet(S) \in Int /\ (S = {} => SumSet(S) = 0) /\ \A x : S = {x} => SumSet(S) = x
<1> DEFINE g == [x \in S |-> x]
           step(h, s) == IF s = {} THEN 0 ELSE (CHOOSE x \in s : TRUE) + h[s \ {CHOOSE x \in s : TRUE}]
<1>1. \A h : \A s \in SUBSET S : SumStep(h, g, s) = step(h, s)
  <2> SUFFICES ASSUME NEW h, NEW s \in SUBSET S PROVE SumStep(h, g, s) = step(h, s)
    OBVIOUS
  <2>1. s # {} => g[CHOOSE x \in s : TRUE] = CHOOSE x \in s : TRUE
    OBVIOUS
  <2> HIDE DEF g
  <2> QED BY <2>1 DEF SumStep
<1>2. PICK f : SumsUp(f, S, g)
  BY SumExists
<1>3. f = [s \in SUBSET S |-> step(f, s)]
  <2>1. f = [s \in SUBSET S |-> SumStep(f, g, s)]
    BY <1>2 DEF SumsUp
  <2> QED BY <1>1, <2>1
<1>4. PICK h : SumSet(S) = h[S] /\ h = [s \in SUBSET S |-> step(h, s)]
  <2> HIDE DEF g
  <2>1. \E h : h = [s \in SUBSET S |->
                    IF s = {} THEN 0 ELSE (CHOOSE x \in s : TRUE) + h[s \ {CHOOSE x \in s : TRUE}]]
    BY <1>3
  <2>2. \E h : /\ SumSet(S) = h[S]
               /\ h = [s \in SUBSET S |->
                        IF s = {} THEN 0 ELSE (CHOOSE x \in s : TRUE) + h[s \ {CHOOSE x \in s : TRUE}]]
    BY <2>1 DEF SumSet, FoldSet, MapThenFoldSet
  <2> QED BY <2>2
<1>5. SumsUp(h, S, g)
  <2> HIDE DEF step
  <2>1. [s \in SUBSET S |-> SumStep(h, g, s)] = [s \in SUBSET S |-> step(h, s)]
    BY <1>1
  <2> QED BY <1>4, <2>1 DEF SumsUp
<1>6. h[S] \in Int
  <2>1. \A x \in S : g[x] \in Int
    OBVIOUS
  <2> HIDE DEF g
  <2> QED BY <1>5, <2>1, SumIsInteger
<1>7. S = {} => h[S] = 0
  BY <1>4
<1>8. ASSUME NEW x, S = {x} PROVE h[S] = x
  <2>1. (CHOOSE y \in S : TRUE) = x /\ S \ {x} = {} /\ x \in Int
    BY <1>8
  <2>2. h[{}] = 0
    BY <1>4
  <2>3. h[S] = x + h[S \ {x}]
    BY <1>4, <1>8, <2>1
  <2>4. h[S \ {x}] = 0
    BY <2>1, <2>2
  <2>5. h[S] = x + 0
    BY <2>3, <2>4
  <2> QED BY <2>1, <2>5
<1> QED BY <1>4, <1>6, <1>7, <1>8

\* Lists joined to one: its elements are theirs.
LEMMA FlattenIs ==
  ASSUME NEW X, NEW seqs \in Seq(Seq(X))
  PROVE  FlattenSeq(seqs) \in Seq(X)
<1> DEFINE N == Len(seqs)
           step(f, i) == IF i = 1 THEN seqs[i] ELSE f[i - 1] \o seqs[i]
<1>1. N \in Nat /\ DOMAIN seqs = 1 .. N /\ \A i \in 1 .. N : seqs[i] \in Seq(X)
  OBVIOUS
<1>2. CASE N = 0
  <2>1. FlattenSeq(seqs) = seqs
    BY <1>2 DEF FlattenSeq
  <2>2. seqs = <<>>
    BY <1>2
  <2> QED BY <2>1, <2>2
<1>3. CASE N # 0
  <2> DEFINE UpTo(f, n) == \A i \in 1 .. n : f[i] = step(f, i)
             Bad == {n \in Nat : ~\E f : UpTo(f, n)}
  <2>1. ASSUME Bad # {} PROVE FALSE
    <3> DEFINE n == Least(Bad)
    <3>1. n \in Bad /\ \A m \in Bad : n <= m
      BY <2>1, LeastNatural
    <3> HIDE DEF n
    <3>2. n # 0
      <4>1. UpTo(<<>>, 0)
        OBVIOUS
      <4> QED BY <3>1, <4>1
    <3>3. n - 1 \in Nat /\ n \in Nat /\ n - 1 \notin Bad
      <4> HIDE DEF UpTo
      <4> QED BY <3>1, <3>2
    <3>4. PICK f : UpTo(f, n - 1)
      BY <3>3
    <3> DEFINE k == [i \in 1 .. n |-> IF i = n THEN step(f, n) ELSE f[i]]
    <3>5. ASSUME NEW i \in 1 .. n PROVE k[i] = step(k, i)
      <4>1. i # 1 => i - 1 \in 1 .. n - 1
        BY <3>3
      <4>2. i # 1 => k[i - 1] = f[i - 1]
        BY <3>3, <4>1
      <4>3. k[i] = step(f, i)
        <5>1. CASE i = n
          BY <5>1
        <5>2. CASE i # n
          <6>1. i \in 1 .. n - 1
            BY <3>3, <5>2
          <6> QED BY <3>4, <5>2, <6>1
        <5> QED BY <5>1, <5>2
      <4> HIDE DEF k
      <4> QED BY <4>2, <4>3
    <3> HIDE DEF k
    <3>6. UpTo(k, n)
      BY <3>5
    <3> QED BY <3>1, <3>6
  <2>2. PICK f : UpTo(f, N)
    BY <1>1, <2>1
  <2> DEFINE k == [i \in 1 .. N |-> f[i]]
  <2>3. k = [i \in 1 .. N |-> step(k, i)]
    <3>1. ASSUME NEW i \in 1 .. N PROVE k[i] = step(k, i)
      <4>1. i # 1 => i - 1 \in 1 .. N
        BY <1>1
      <4> HIDE DEF N
      <4>2. f[i] = step(f, i) /\ (i # 1 => k[i - 1] = f[i - 1]) /\ k[i] = f[i]
        BY <2>2, <4>1
      <4> HIDE DEF k
      <4> QED BY <4>2
    <3>2. k = [i \in 1 .. N |-> k[i]]
      OBVIOUS
    <3> HIDE DEF k
    <3> QED BY <3>1, <3>2
  <2>4. PICK h : FlattenSeq(seqs) = h[N] /\ h = [i \in 1 .. N |-> step(h, i)]
    BY <1>3, <2>3 DEF FlattenSeq
  <2> DEFINE Out == {n \in 1 .. N : h[n] \notin Seq(X)}
  <2>5. ASSUME Out # {} PROVE FALSE
    <3> DEFINE n == Least(Out)
    <3>1. n \in Out /\ \A m \in Out : n <= m
      <4>1. Out \in SUBSET Nat
        BY <1>1
      <4> HIDE DEF Out
      <4> QED BY <2>5, <4>1, LeastNatural
    <3> HIDE DEF n
    <3>2. n \in 1 .. N /\ h[n] = step(h, n) /\ h[n] \notin Seq(X)
      BY <2>4, <3>1
    <3>3. n # 1 => n - 1 \in 1 .. N /\ n - 1 \notin Out
      BY <1>1, <3>1
    <3>4. n # 1 => h[n - 1] \in Seq(X)
      BY <3>3
    <3>5. h[n] \in Seq(X)
      BY <1>1, <3>2, <3>4
    <3> QED BY <3>2, <3>5
  <2>6. N \in 1 .. N
    BY <1>1, <1>3
  <2>7. h[N] \in Seq(X)
    BY <2>5, <2>6
  <2>8. FlattenSeq(seqs) = h[N]
    BY <2>4
  <2> QED BY <2>7, <2>8
<1> QED BY <1>2, <1>3

-----------------------------------------------------------------------------
(* Lists of what was found, each with its score.                           *)

Hits(C) == Seq([of : C, score : Int])
Once(items) == \A m, n \in DOMAIN items : items[m].of = items[n].of => m = n
\* The further back, the lower the score.
Falls(items) == \A m, n \in DOMAIN items : m < n => items[m].score >= items[n].score

LEMMA HitsAre ==
  ASSUME NEW C, NEW items \in Hits(C)
  PROVE  /\ DOMAIN items = 1 .. Len(items) /\ Len(items) \in Nat
         /\ \A n \in DOMAIN items : /\ items[n].of \in C /\ items[n].score \in Int
                                    /\ items[n] = [of |-> items[n].of, score |-> items[n].score]
<1> DEFINE H == [of : C, score : Int]
<1>1. \A r \in H : r.of \in C /\ r.score \in Int /\ r = [of |-> r.of, score |-> r.score]
  OBVIOUS
<1>2. items \in Seq(H)
  BY DEF Hits
<1> HIDE DEF H
<1> QED BY <1>1, <1>2

LEMMA HitsIf ==
  ASSUME NEW C, NEW N \in Nat, NEW items, DOMAIN items = 1 .. N, items = [n \in 1 .. N |-> items[n]],
         \A n \in 1 .. N : items[n] \in [of : C, score : Int]
  PROVE  items \in Hits(C)
<1> DEFINE H == [of : C, score : Int]
<1>1. items \in [1 .. N -> H]
  OBVIOUS
<1> HIDE DEF H
<1>2. items \in Seq(H)
  BY <1>1
<1> QED BY <1>2 DEF Hits, H

\* The same elements in another order.
Reordered(new, old) ==
  /\ DOMAIN new = DOMAIN old
  /\ \E order \in [DOMAIN old -> DOMAIN old] :
       /\ \A n \in DOMAIN old : new[n] = old[order[n]]
       /\ \A i \in DOMAIN old : \E n \in DOMAIN old : order[n] = i
       /\ \A m, n \in DOMAIN old : order[m] = order[n] => m = n

LEMMA PutsIsReordered ==
  ASSUME NEW X, NEW old \in Seq(X), NEW new, NEW keys, NEW order, PutsByKey(order, DOMAIN old, keys),
         keys \in [DOMAIN old -> Int], DOMAIN new = DOMAIN old, \A n \in DOMAIN old : new[n] = old[order[n]]
  PROVE  Reordered(new, old)
<1>1. DOMAIN old \in SUBSET Nat
  BY AllPlaces
<1>2. ASSUME NEW m \in DOMAIN old, NEW n \in DOMAIN old, m < n PROVE order[m] # order[n]
  <2>1. order[m] \in Nat /\ keys[order[m]] \in Int
    BY <1>1 DEF PutsByKey
  <2>2. keys[order[m]] < keys[order[n]] \/ (keys[order[m]] = keys[order[n]] /\ order[m] < order[n])
    BY <1>2 DEF PutsByKey
  <2>3. \A i \in Int : ~(i < i)
    OBVIOUS
  <2> QED BY <2>1, <2>2, <2>3
<1>3. \A m, n \in DOMAIN old : order[m] = order[n] => m = n
  <2>1. \A m, n \in DOMAIN old : m = n \/ m < n \/ n < m
    BY <1>1
  <2> QED BY <1>2, <2>1
<1> QED BY <1>3 DEF Reordered, PutsByKey

LEMMA ReorderedKeeps ==
  ASSUME NEW C, NEW old \in Hits(C), NEW new, Reordered(new, old), Once(old)
  PROVE  Once(new)
  BY DEF Once, Reordered

\* The best first.
LEMMA DescendingIs ==
  ASSUME NEW X, NEW items \in Seq(X), \A n \in DOMAIN items : items[n].score \in Int
  PROVE  /\ Descending(items) \in Seq(X)
         /\ Reordered(Descending(items), items)
         /\ \E order : /\ PutsByKey(order, DOMAIN items, [n \in DOMAIN items |-> -items[n].score])
                       /\ \A n \in DOMAIN items : Descending(items)[n] = items[order[n]]
<1> DEFINE keys == [n \in DOMAIN items |-> -items[n].score]
<1>1. keys \in [DOMAIN items -> Int]
  OBVIOUS
<1>2. Descending(items) = Sorted(items, keys)
  BY DEF Descending
<1> HIDE DEF keys
<1>3. /\ Descending(items) \in Seq(X)
      /\ DOMAIN Descending(items) = DOMAIN items
      /\ \E order : /\ PutsByKey(order, DOMAIN items, keys)
                    /\ \A n \in DOMAIN items : Descending(items)[n] = items[order[n]]
  BY <1>1, <1>2, SortedIs
<1>4. Reordered(Descending(items), items)
  BY <1>1, <1>3, PutsIsReordered
<1> QED BY <1>3, <1>4 DEF keys

LEMMA DescendingFalls ==
  ASSUME NEW C, NEW items \in Hits(C)
  PROVE  Falls(Descending(items))
<1> DEFINE keys == [n \in DOMAIN items |-> -items[n].score]
           new == Descending(items)
<1>1. \A n \in DOMAIN items : items[n].score \in Int /\ keys[n] = -items[n].score
  BY HitsAre
<1>2. PICK order : /\ PutsByKey(order, DOMAIN items, keys)
                   /\ \A n \in DOMAIN items : new[n] = items[order[n]]
  BY <1>1, DescendingIs DEF Hits
<1>3. DOMAIN new = DOMAIN items
  BY <1>1, DescendingIs DEF Hits, Reordered
<1> HIDE DEF keys, new
<1>4. ASSUME NEW m \in DOMAIN items, NEW n \in DOMAIN items, m < n PROVE new[m].score >= new[n].score
  <2>1. order[m] \in DOMAIN items /\ order[n] \in DOMAIN items
    BY <1>2 DEF PutsByKey
  <2>2. keys[order[m]] < keys[order[n]] \/ (keys[order[m]] = keys[order[n]] /\ order[m] < order[n])
    BY <1>2, <1>4 DEF PutsByKey
  <2>3. /\ items[order[m]].score \in Int /\ items[order[n]].score \in Int
        /\ keys[order[m]] = -items[order[m]].score /\ keys[order[n]] = -items[order[n]].score
    BY <1>1, <2>1
  <2>4. items[order[m]].score >= items[order[n]].score
    BY <2>2, <2>3
  <2> QED BY <1>2, <2>4
<1> QED BY <1>3, <1>4 DEF Falls, new

\* The earliest, or the latest, first.
LEMMA ByTimeIs ==
  ASSUME NEW X, NEW items \in Seq(X), NEW times \in [DOMAIN items -> Int],
         NEW scope, scope.sort \in {None, "asc", "desc"}
  PROVE  /\ ByTime(items, times, scope) \in Seq(X)
         /\ Reordered(ByTime(items, times, scope), items)
         /\ scope.sort = None => ByTime(items, times, scope) = items
<1> DEFINE down == [n \in DOMAIN items |-> -times[n]]
<1>1. down \in [DOMAIN items -> Int]
  OBVIOUS
<1> HIDE DEF down
<1>2. Reordered(items, items)
  <2>1. [n \in DOMAIN items |-> n] \in [DOMAIN items -> DOMAIN items]
    OBVIOUS
  <2> QED BY <2>1 DEF Reordered
<1>3. ASSUME NEW keys \in [DOMAIN items -> Int]
      PROVE  Sorted(items, keys) \in Seq(X) /\ Reordered(Sorted(items, keys), items)
  <2>1. /\ Sorted(items, keys) \in Seq(X)
        /\ DOMAIN Sorted(items, keys) = DOMAIN items
        /\ \E order : /\ PutsByKey(order, DOMAIN items, keys)
                      /\ \A n \in DOMAIN items : Sorted(items, keys)[n] = items[order[n]]
    BY SortedIs
  <2> QED BY <2>1, PutsIsReordered
<1>4. ByTime(items, times, scope) \in {items, Sorted(items, times), Sorted(items, down)}
  BY DEF ByTime, down
<1>5. scope.sort = None => ByTime(items, times, scope) = items
  BY NoneAssumption DEF ByTime
<1> QED BY <1>1, <1>2, <1>3, <1>4, <1>5

\* The first of a list.
LEMMA TakeIs ==
  ASSUME NEW X, NEW items \in Seq(X), NEW n \in Nat
  PROVE  /\ Take(items, n) \in Seq(X)
         /\ DOMAIN Take(items, n) = {i \in DOMAIN items : i <= n}
         /\ \A i \in DOMAIN Take(items, n) : Take(items, n)[i] = items[i]
<1>1. Len(items) \in Nat /\ DOMAIN items = 1 .. Len(items) /\ \A i \in DOMAIN items : items[i] \in X
  OBVIOUS
<1>2. PICK m \in Nat : m = Min({n, Len(items)}) /\ m \in {n, Len(items)} /\ m <= n /\ m <= Len(items)
  <2>1. \E x \in {n, Len(items)} : \A y \in {n, Len(items)} : x <= y
    BY <1>1
  <2> QED BY <1>1, <2>1 DEF Min
<1>3. Take(items, n) = SubSeq(items, 1, m)
  BY <1>2 DEF Take
<1>4. SubSeq(items, 1, m) = [i \in 1 .. m |-> items[i]]
  BY <1>1, <1>2
<1> DEFINE taken == [i \in 1 .. m |-> items[i]]
<1>5. taken \in Seq(X)
  <2>1. taken \in [1 .. m -> X]
    BY <1>1, <1>2
  <2> QED BY <2>1
<1>6. DOMAIN taken = {i \in DOMAIN items : i <= n}
  <2>1. \A i \in 1 .. m : i \in DOMAIN items /\ i <= n
    BY <1>1, <1>2
  <2>2. \A i \in DOMAIN items : i <= n => i \in 1 .. m
    BY <1>1, <1>2
  <2> QED BY <2>1, <2>2
<1>7. \A i \in DOMAIN taken : taken[i] = items[i]
  OBVIOUS
<1> QED BY <1>3, <1>4, <1>5, <1>6, <1>7

\* A list of the members of a set with their scores, each once.
LEMMA BestIs ==
  ASSUME NEW S \in SUBSET Nat, IsFiniteSet(S), NEW f, \A x \in S : f[x] \in Int
  PROVE  /\ Best(f, S) \in Hits(S) /\ Once(Best(f, S)) /\ Falls(Best(f, S))
         /\ \A x \in S : \E n \in DOMAIN Best(f, S) : Best(f, S)[n].of = x
<1> DEFINE N == Cardinality(S)
           list == [n \in 1 .. N |-> [of |-> Place(S, n), score |-> f[Place(S, n)]]]
<1>1. N \in Nat /\ \A n \in 1 .. N : Place(S, n) \in S /\ Cardinality({j \in S : j <= Place(S, n)}) = n
  BY FS_CardinalityType, PlaceIn
<1>2. list \in [1 .. N -> [of : S, score : Int]]
  BY <1>1
<1>3. list \in Hits(S) /\ \A n \in DOMAIN list : list[n].score \in Int
  <2> HIDE DEF list
  <2>1. N \in Nat /\ DOMAIN list = 1 .. N
    BY <1>1 DEF list
  <2> HIDE DEF N
  <2> DEFINE R == [of : S, score : Int]
  <2>2. \A r \in R : r.score \in Int
    OBVIOUS
  <2>3. list \in [1 .. N -> R]
    BY <1>2
  <2> HIDE DEF R
  <2>4. list \in Seq(R)
    BY <2>1, <2>3
  <2> QED BY <2>1, <2>2, <2>3, <2>4 DEF Hits, R
<1>4. Once(list)
  <2>1. \A m, n \in 1 .. N : Place(S, m) = Place(S, n) => m = n
    BY <1>1
  <2>2. \A n \in DOMAIN list : n \in 1 .. N /\ list[n].of = Place(S, n)
    OBVIOUS
  <2> HIDE DEF list, N
  <2> QED BY <2>1, <2>2 DEF Once
<1>5. ASSUME NEW x \in S PROVE \E n \in DOMAIN list : list[n].of = x
  <2> DEFINE UpTo(i) == {j \in S : j <= i}
             n == Cardinality(UpTo(x))
  <2>1. UpTo(x) \subseteq S /\ x \in UpTo(x)
    OBVIOUS
  <2>2. \A i \in S : IsFiniteSet(UpTo(i))
    BY FS_Subset
  <2>3. n \in 1 .. N
    <3> HIDE DEF UpTo
    <3>1. n \in Nat /\ n <= N /\ n # 0
      BY <2>1, <2>2, FS_Subset, FS_CardinalityType, FS_EmptySet
    <3> QED BY <1>1, <3>1
  <2>4. Place(S, n) \in S /\ Cardinality(UpTo(Place(S, n))) = Cardinality(UpTo(x))
    BY <1>1, <2>3
  <2>5. ASSUME NEW a \in S, NEW b \in S, a < b PROVE Cardinality(UpTo(a)) # Cardinality(UpTo(b))
    <3>1. UpTo(a) \subseteq UpTo(b) /\ b \in UpTo(b) /\ b \notin UpTo(a)
      <4>1. \A j \in S : j \in Nat
        OBVIOUS
      <4>2. \A j \in S : j <= a => j <= b
        BY <2>5, <4>1
      <4>3. b <= b /\ ~(b <= a)
        BY <2>5, <4>1
      <4> QED BY <4>2, <4>3
    <3> HIDE DEF UpTo
    <3> QED BY <2>2, <3>1, FS_Subset
  <2>6. Place(S, n) = x
    <3>1. Place(S, n) \in Nat /\ x \in Nat
      BY <2>4
    <3> HIDE DEF UpTo
    <3> QED BY <2>4, <2>5, <3>1
  <2> QED BY <2>3, <2>6
<1>6. Best(f, S) = Descending(list)
  BY DEF Best
<1> HIDE DEF list
<1>7. Best(f, S) \in Hits(S) /\ Reordered(Best(f, S), list)
  BY <1>3, <1>6, DescendingIs DEF Hits
<1>8. \A x \in S : \E n \in DOMAIN Best(f, S) : Best(f, S)[n].of = x
  BY <1>5, <1>7 DEF Reordered
<1>9. Falls(Best(f, S))
  BY <1>3, <1>6, DescendingFalls
<1> QED BY <1>3, <1>4, <1>7, <1>8, <1>9, ReorderedKeeps

-----------------------------------------------------------------------------
(* Searches for documents.                                                 *)

LEMMA MaxIs ==
  ASSUME NEW S \in SUBSET Int, IsFiniteSet(S), S # {}
  PROVE  Max(S) \in S /\ \A x \in S : x <= Max(S)
<1> DEFINE R == {p \in S \X S : p[1] < p[2]}
           N == Cardinality(S)
<1>1. \A x, y \in S : <<x, y>> \in R <=> x < y
  OBVIOUS
<1> HIDE DEF R
<1>2. Orders(R, S)
  BY <1>1 DEF Orders
<1>3. /\ N \in Nat /\ Arranged(S, R) \in [1 .. N -> S]
      /\ \A x \in S : \E n \in 1 .. N : Arranged(S, R)[n] = x
      /\ \A m, n \in 1 .. N : m < n => <<Arranged(S, R)[m], Arranged(S, R)[n]>> \in R
  BY <1>2, ArrangedIs
<1>4. N # 0
  BY FS_EmptySet
<1> HIDE DEF N
<1>5. \A x \in S : x <= Arranged(S, R)[N]
  <2> SUFFICES ASSUME NEW x \in S PROVE x <= Arranged(S, R)[N]
    OBVIOUS
  <2>1. PICK n \in 1 .. N : Arranged(S, R)[n] = x
    BY <1>3
  <2>2. N \in 1 .. N /\ (n < N \/ n = N)
    BY <1>3, <1>4
  <2>3. Arranged(S, R)[N] \in S
    BY <1>3, <2>2
  <2>4. n < N => <<x, Arranged(S, R)[N]>> \in R
    BY <1>3, <2>1, <2>2
  <2>5. x < Arranged(S, R)[N] \/ x = Arranged(S, R)[N]
    BY <1>1, <2>1, <2>2, <2>3, <2>4
  <2>6. \A y \in S : y \in Int
    OBVIOUS
  <2>7. x \in Int /\ Arranged(S, R)[N] \in Int
    BY <2>3, <2>6
  <2> QED BY <2>5, <2>7
<1>6. \E x \in S : \A y \in S : x >= y
  <2>1. Arranged(S, R)[N] \in S
    BY <1>3, <1>4
  <2> QED BY <1>5, <2>1
<1>7. Max(S) \in S /\ \A y \in S : Max(S) >= y
  BY <1>6 DEF Max
<1> QED BY <1>7

\* Orders in time and by score, as the searches and the records of them have it.
IsScope(scope) ==
  /\ scope = [documents |-> scope.documents, folders |-> scope.folders, at |-> scope.at, sort |-> scope.sort]
  /\ scope.sort \in {None, "asc", "desc"}

ChunkIds(s) == DOMAIN s.chunkNear \cup DOMAIN s.worded
Findable(s, scope) ==
  NearChunks(s, scope) \cup WordedChunks(s, scope) \cup ChunksOf(s, TitledDocuments(s, scope))

LEMMA StoreHas ==
  ASSUME NEW s, IsStore(s)
  PROVE  /\ Scores(s.near) /\ Scores(s.linked) /\ Scores(s.chunkNear) /\ Scores(s.worded)
         /\ Scores(s.titled) /\ Scores(s.folderNear) /\ Scores(s.folderNamed)
         /\ ChunkIds(s) \in SUBSET Nat /\ IsFiniteSet(ChunkIds(s))
         /\ \A c \in ChunkIds(s) : s.time[Document(c)] \in Int
<1>1. /\ Scores(s.near) /\ Scores(s.linked) /\ Scores(s.chunkNear) /\ Scores(s.worded)
      /\ Scores(s.titled) /\ Scores(s.folderNear) /\ Scores(s.folderNamed)
  BY DEF IsStore
<1>2. ChunkIds(s) \in SUBSET Nat /\ IsFiniteSet(ChunkIds(s))
  BY <1>1, FS_Union DEF Scores, ChunkIds
<1>3. \A c \in ChunkIds(s) : Document(c) \in Timed(s)
  BY DEF Timed, ChunkIds
<1> QED BY <1>1, <1>2, <1>3 DEF IsStore

LEMMA FindableIs ==
  ASSUME NEW s, NEW scope
  PROVE  Findable(s, scope) \subseteq ChunkIds(s)
  BY DEF Findable, ChunkIds, NearChunks, WordedChunks, ChunksOf

\* What is found has a time.
LEMMA ChunksByTimeIs ==
  ASSUME NEW s, IsStore(s), NEW scope, IsScope(scope), NEW C \in SUBSET ChunkIds(s), NEW items \in Hits(C)
  PROVE  /\ ChunksByTime(s, items, scope) \in Hits(C) /\ Reordered(ChunksByTime(s, items, scope), items)
         /\ scope.sort = None => ChunksByTime(s, items, scope) = items
<1> DEFINE times == [n \in DOMAIN items |-> s.time[Chunked(items[n])]]
<1>1. \A n \in DOMAIN items : items[n].of \in C
  BY HitsAre
<1>2. times \in [DOMAIN items -> Int]
  BY <1>1, StoreHas DEF Chunked
<1>3. ChunksByTime(s, items, scope) = ByTime(items, times, scope)
  BY DEF ChunksByTime
<1> HIDE DEF times
<1> QED BY <1>2, <1>3, ByTimeIs DEF Hits, IsScope

LEMMA DenseIs ==
  ASSUME NEW s, IsStore(s), NEW scope, IsScope(scope), NEW limit \in Nat
  PROVE  /\ DenseChunks(s, scope, limit) \in Hits(NearChunks(s, scope)) /\ Once(DenseChunks(s, scope, limit))
         /\ scope.sort = None => Falls(DenseChunks(s, scope, limit))
<1> DEFINE C == NearChunks(s, scope)
           best == Best(s.chunkNear, C)
           taken == Take(best, limit)
<1>1. C \in SUBSET Nat /\ IsFiniteSet(C) /\ \A x \in C : s.chunkNear[x] \in Int
  <2>1. C \subseteq DOMAIN s.chunkNear /\ Scores(s.chunkNear)
    BY StoreHas DEF NearChunks
  <2> HIDE DEF C
  <2> QED BY <2>1, FS_Subset DEF Scores
<1>2. C \in SUBSET ChunkIds(s)
  BY DEF NearChunks, ChunkIds
<1>3. DenseChunks(s, scope, limit) = ChunksByTime(s, taken, scope)
  BY DEF DenseChunks
<1> HIDE DEF C
<1>4. best \in Hits(C) /\ Once(best) /\ Falls(best)
  BY <1>1, BestIs
<1> HIDE DEF best
<1>5. /\ taken \in Hits(C)
      /\ DOMAIN taken \subseteq DOMAIN best /\ \A i \in DOMAIN taken : taken[i] = best[i]
  BY <1>4, TakeIs DEF Hits
<1>6. Once(taken) /\ Falls(taken)
  BY <1>4, <1>5 DEF Once, Falls
<1> HIDE DEF taken
<1>7. /\ DenseChunks(s, scope, limit) \in Hits(C) /\ Reordered(DenseChunks(s, scope, limit), taken)
      /\ scope.sort = None => DenseChunks(s, scope, limit) = taken
  BY <1>2, <1>3, <1>5, ChunksByTimeIs
<1> QED BY <1>5, <1>6, <1>7, ReorderedKeeps DEF C

LEMMA KeywordIs ==
  ASSUME NEW s, IsStore(s), NEW scope
  PROVE  LET found == WordedChunks(s, scope)
             titled == TitledDocuments(s, scope)
         IN  /\ KeywordChunks(s, scope) \in Hits(found \cup ChunksOf(s, titled)) /\ Once(KeywordChunks(s, scope))
             /\ Falls(KeywordChunks(s, scope))
<1> DEFINE found == WordedChunks(s, scope)
           titled == TitledDocuments(s, scope)
           D == found \cup ChunksOf(s, titled)
           score == KeywordScores(s, found, titled)
           updated(c) == s.time[Document(c)]
           Ahead(c, b) == \/ score[c] > score[b]
                          \/ score[c] = score[b] /\ updated(c) > updated(b)
                          \/ score[c] = score[b] /\ updated(c) = updated(b) /\ Index(c) < Index(b)
                          \/ score[c] = score[b] /\ updated(c) = updated(b) /\ Index(c) = Index(b) /\ c < b
           R == {p \in (DOMAIN score) \X (DOMAIN score) : Ahead(p[1], p[2])}
           order == Arranged(DOMAIN score, R)
           ranked == [n \in DOMAIN order |-> [of |-> order[n], score |-> score[order[n]]]]
<1>1. KeywordChunks(s, scope) = ranked
  BY DEF KeywordChunks, KeywordRanking
<1>2. D \subseteq DOMAIN s.worded /\ Scores(s.worded) /\ titled \subseteq DOMAIN s.titled /\ Scores(s.titled)
  BY StoreHas DEF WordedChunks, ChunksOf, TitledDocuments
<1>3. DOMAIN score = D
  BY DEF KeywordScores
<1>4. ASSUME NEW c \in D
      PROVE  score[c] \in Int /\ updated(c) \in Int /\ Index(c) \in Int /\ c \in Int
  <2>1. c \in ChunkIds(s) /\ c \in Nat
    BY <1>2 DEF ChunkIds, Scores
  <2>2. updated(c) \in Int
    BY <2>1, StoreHas
  <2>3. Index(c) \in Int
    BY <2>1 DEF Index
  <2>4. (IF c \in found THEN s.worded[c] ELSE 0) \in Int
    BY <1>2 DEF Scores
  <2>5. (IF Document(c) \in titled THEN s.titled[Document(c)] ELSE 0) \in Int
    BY <1>2 DEF Scores
  <2>6. score[c] = (IF c \in found THEN s.worded[c] ELSE 0)
                   + (IF Document(c) \in titled THEN s.titled[Document(c)] ELSE 0)
    BY DEF KeywordScores
  <2> QED BY <2>1, <2>2, <2>3, <2>4, <2>5, <2>6
<1>5. IsFiniteSet(D)
  BY <1>2, FS_Subset DEF Scores
<1>6. \A c, b \in D : <<c, b>> \in R <=> Ahead(c, b)
  BY <1>3
<1> HIDE DEF R, D, score, updated
<1>7. Orders(R, D)
  <2>1. ASSUME NEW c \in D PROVE <<c, c>> \notin R
    BY <1>4, <1>6
  <2>2. ASSUME NEW c \in D, NEW b \in D, NEW a \in D, <<c, b>> \in R, <<b, a>> \in R PROVE <<c, a>> \in R
    <3>1. Ahead(c, b) /\ Ahead(b, a)
      BY <1>6, <2>2
    <3>2. /\ score[c] \in Int /\ updated(c) \in Int /\ Index(c) \in Int /\ c \in Int
          /\ score[b] \in Int /\ updated(b) \in Int /\ Index(b) \in Int /\ b \in Int
          /\ score[a] \in Int /\ updated(a) \in Int /\ Index(a) \in Int /\ a \in Int
      BY <1>4
    <3>3. Ahead(c, a)
      BY <3>1, <3>2
    <3> QED BY <1>6, <3>3
  <2>3. ASSUME NEW c \in D, NEW b \in D PROVE c = b \/ <<c, b>> \in R \/ <<b, c>> \in R
    <3>1. /\ score[c] \in Int /\ updated(c) \in Int /\ Index(c) \in Int /\ c \in Int
          /\ score[b] \in Int /\ updated(b) \in Int /\ Index(b) \in Int /\ b \in Int
      BY <1>4
    <3>2. c = b \/ Ahead(c, b) \/ Ahead(b, c)
      BY <3>1
    <3> QED BY <1>6, <3>2
  <2> QED BY <2>1, <2>2, <2>3 DEF Orders
<1>8. /\ Cardinality(D) \in Nat
      /\ order \in [1 .. Cardinality(D) -> D]
      /\ \A m, n \in 1 .. Cardinality(D) : m < n => <<order[m], order[n]>> \in R
  BY <1>3, <1>5, <1>7, ArrangedIs
<1> HIDE DEF order
<1>9. \A m, n \in 1 .. Cardinality(D) : order[m] = order[n] => m = n
  <2> SUFFICES ASSUME NEW m \in 1 .. Cardinality(D), NEW n \in 1 .. Cardinality(D), order[m] = order[n], m # n
               PROVE  FALSE
    OBVIOUS
  <2>1. m < n \/ n < m
    BY <1>8
  <2>2. order[m] \in D /\ <<order[m], order[m]>> \in R
    BY <1>8, <2>1
  <2> QED BY <1>7, <2>2 DEF Orders
<1> DEFINE H == [of : D, score : Int]
<1>10. \A n \in 1 .. Cardinality(D) : [of |-> order[n], score |-> score[order[n]]] \in H
  BY <1>4, <1>8
<1> HIDE DEF H
<1>11. ranked \in Seq(H)
  BY <1>8, <1>10
<1>12. Once(ranked)
  BY <1>8, <1>9 DEF Once
<1>13. Falls(ranked)
  <2> SUFFICES ASSUME NEW m \in 1 .. Cardinality(D), NEW n \in 1 .. Cardinality(D), m < n
               PROVE  score[order[m]] >= score[order[n]]
    BY <1>8 DEF Falls
  <2>1. order[m] \in D /\ order[n] \in D /\ <<order[m], order[n]>> \in R
    BY <1>8
  <2>2. Ahead(order[m], order[n]) /\ score[order[m]] \in Int /\ score[order[n]] \in Int
    BY <1>4, <1>6, <2>1
  <2> QED BY <2>2
<1> QED BY <1>1, <1>11, <1>12, <1>13 DEF Hits, H, D

\* Reciprocal ranks are integers, and so are their sums.
Reciprocals(items, x) == {1000000 \div (60 + n) : n \in {k \in DOMAIN items : items[k].of = x}}

LEMMA ReciprocalsAre ==
  ASSUME NEW C, NEW items \in Hits(C), NEW x
  PROVE  /\ SumSet(Reciprocals(items, x)) \in Int
         /\ (\A k \in DOMAIN items : items[k].of # x) => SumSet(Reciprocals(items, x)) = 0
         /\ Once(items) => \A k \in DOMAIN items :
              items[k].of = x => SumSet(Reciprocals(items, x)) = 1000000 \div (60 + k)
<1> DEFINE K == {k \in DOMAIN items : items[k].of = x}
           f == [n \in K |-> 1000000 \div (60 + n)]
           Q == Reciprocals(items, x)
<1>1. K \subseteq 1 .. Len(items) /\ Len(items) \in Nat /\ DOMAIN items = 1 .. Len(items)
  BY HitsAre
<1>2. IsFiniteSet(K)
  <2>1. IsFiniteSet(1 .. Len(items))
    BY <1>1, FS_Interval
  <2> HIDE DEF K
  <2> QED BY <1>1, <2>1, FS_Subset
<1>3. \A n \in K : 1000000 \div (60 + n) \in Int
  BY <1>1
<1>4. Q = {1000000 \div (60 + n) : n \in K}
  BY DEF Reciprocals
<1>5. Q \in SUBSET Int
  BY <1>3, <1>4
<1>6. IsFiniteSet(Q)
  <2> HIDE DEF K, Q
  <2>1. f \in [K -> Q] /\ \A q \in Q : \E n \in K : f[n] = q
    BY <1>4
  <2> HIDE DEF f
  <2>2. f \in Surjection(K, Q)
    BY <2>1 DEF Surjection
  <2> QED BY <1>2, <2>2, FS_Surjection
<1> HIDE DEF Q
<1>7. SumSet(Q) \in Int /\ (Q = {} => SumSet(Q) = 0) /\ \A y : Q = {y} => SumSet(Q) = y
  BY <1>5, <1>6, SumIs
<1>8. (\A k \in DOMAIN items : items[k].of # x) => Q = {}
  <2>1. (\A k \in DOMAIN items : items[k].of # x) => K = {}
    OBVIOUS
  <2> HIDE DEF K
  <2> QED BY <1>4, <2>1
<1>9. ASSUME Once(items), NEW k \in DOMAIN items, items[k].of = x PROVE Q = {1000000 \div (60 + k)}
  <2>1. K = {k}
    BY <1>9 DEF Once
  <2> HIDE DEF K
  <2> QED BY <1>4, <2>1
<1> QED BY <1>7, <1>8, <1>9 DEF Q

\* The score of a hit of both lists.
LEMMA RankScoreIs ==
  ASSUME NEW first, NEW second, NEW x
  PROVE  RankScore(first, second, x) = SumSet(Reciprocals(first, x)) + SumSet(Reciprocals(second, x))
  BY DEF RankScore, Reciprocals

LEMMA JoinedHits ==
  ASSUME NEW C, NEW a \in Hits(C), NEW b \in Hits(C)
  PROVE  a \o b \in Hits(C)
<1> DEFINE H == [of : C, score : Int]
<1>1. a \in Seq(H) /\ b \in Seq(H)
  BY DEF Hits
<1> HIDE DEF H
<1>2. a \o b \in Seq(H)
  BY <1>1
<1> QED BY <1>2 DEF Hits, H

\* The hits of two lists, each once, before they are ranked.
Both(a, b) == FirstOf(a \o b, [n \in DOMAIN (a \o b) |-> (a \o b)[n].of])

\* The first element of each key, in their order: at what place of the items each is.
FirstPlaces(place, firsts, items, keys) ==
  /\ place \in [DOMAIN firsts -> DOMAIN items]
  /\ \A n \in DOMAIN firsts : firsts[n] = items[place[n]]
  /\ \A m, n \in DOMAIN firsts : m < n => place[m] < place[n]
  /\ \A n \in DOMAIN firsts : \A j \in 1 .. place[n] - 1 : keys[j] # keys[place[n]]
  /\ \A i \in DOMAIN items : \E n \in DOMAIN firsts : keys[place[n]] = keys[i]

LEMMA FirstOfIs ==
  ASSUME NEW X, NEW items \in Seq(X), NEW keys
  PROVE  /\ FirstOf(items, keys) \in Seq(X)
         /\ \E place : FirstPlaces(place, FirstOf(items, keys), items, keys)
<1> DEFINE S == {i \in DOMAIN items : \A j \in 1 .. i - 1 : keys[j] # keys[i]}
           firsts == Only(items, S)
           place == [n \in DOMAIN firsts |-> Place(S, n)]
<1>1. FirstOf(items, keys) = firsts
  BY DEF FirstOf
<1>2. \A i : i \in S <=> i \in DOMAIN items /\ \A j \in 1 .. i - 1 : keys[j] # keys[i]
  OBVIOUS
<1> HIDE DEF S
<1>3. /\ firsts \in Seq(X)
      /\ \A n \in DOMAIN firsts : Place(S, n) \in S /\ firsts[n] = items[Place(S, n)]
      /\ \A m, n \in DOMAIN firsts : m < n => Place(S, m) < Place(S, n)
      /\ \A i \in DOMAIN items : \E n \in DOMAIN firsts : keys[Place(S, n)] = keys[i]
  BY <1>2, FirstsAre
<1>4. \A i \in S : i \in DOMAIN items /\ \A j \in 1 .. i - 1 : keys[j] # keys[i]
  BY <1>2
<1> HIDE DEF firsts
<1>5. place \in [DOMAIN firsts -> DOMAIN items]
  BY <1>3, <1>4
<1>6. \A n \in DOMAIN firsts : place[n] = Place(S, n)
  OBVIOUS
<1> HIDE DEF place
<1>7. \A n \in DOMAIN firsts : firsts[n] = items[place[n]]
  BY <1>3, <1>6
<1>8. \A m, n \in DOMAIN firsts : m < n => place[m] < place[n]
  BY <1>3, <1>6
<1>9. ASSUME NEW n \in DOMAIN firsts PROVE \A j \in 1 .. place[n] - 1 : keys[j] # keys[place[n]]
  <2>1. place[n] \in S
    BY <1>3, <1>6
  <2> QED BY <1>4, <2>1
<1>10. \A i \in DOMAIN items : \E n \in DOMAIN firsts : keys[place[n]] = keys[i]
  BY <1>3, <1>6
<1>11. FirstPlaces(place, firsts, items, keys)
  BY <1>5, <1>7, <1>8, <1>9, <1>10 DEF FirstPlaces
<1> QED BY <1>1, <1>3, <1>11

LEMMA BothAre ==
  ASSUME NEW C, NEW a \in Hits(C), NEW b \in Hits(C)
  PROVE  /\ Both(a, b) \in Hits(C) /\ Once(Both(a, b))
         /\ \A i \in DOMAIN (a \o b) : \E n \in DOMAIN Both(a, b) : Both(a, b)[n].of = (a \o b)[i].of
         /\ \E place : FirstPlaces(place, Both(a, b), a \o b, [n \in DOMAIN (a \o b) |-> (a \o b)[n].of])
<1> DEFINE H == [of : C, score : Int]
           all == a \o b
           keys == [n \in DOMAIN all |-> all[n].of]
           firsts == FirstOf(all, keys)
<1>1. all \in Hits(C) /\ DOMAIN all = 1 .. Len(all) /\ Len(all) \in Nat
  BY JoinedHits, HitsAre
<1>2. Both(a, b) = firsts
  BY DEF Both
<1>3. \A i \in DOMAIN all : keys[i] = all[i].of
  OBVIOUS
<1>4. all \in Seq(H)
  BY <1>1 DEF Hits
<1> HIDE DEF all, keys, H
<1>5. firsts \in Seq(H) /\ \E place : FirstPlaces(place, firsts, all, keys)
  BY <1>4, FirstOfIs
<1> HIDE DEF firsts
<1>6. PICK place : FirstPlaces(place, firsts, all, keys)
  BY <1>5
<1>7. firsts \in Hits(C)
  BY <1>5 DEF Hits, H
<1>8. \A n \in DOMAIN firsts : place[n] \in DOMAIN all /\ keys[place[n]] = firsts[n].of
  BY <1>3, <1>6 DEF FirstPlaces
<1>9. Once(firsts)
  <2>1. DOMAIN firsts \in SUBSET Nat
    BY <1>7, HitsAre
  <2>2. ASSUME NEW m \in DOMAIN firsts, NEW n \in DOMAIN firsts, firsts[m].of = firsts[n].of, m < n PROVE FALSE
    <3>1. place[m] < place[n] /\ place[m] \in DOMAIN all /\ place[n] \in DOMAIN all
      BY <1>6, <1>8, <2>2 DEF FirstPlaces
    <3>2. place[m] \in 1 .. place[n] - 1
      BY <1>1, <3>1
    <3>3. keys[place[m]] # keys[place[n]]
      BY <1>6, <3>2 DEF FirstPlaces
    <3> QED BY <1>8, <2>2, <3>3
  <2>3. \A m, n \in DOMAIN firsts : m = n \/ m < n \/ n < m
    BY <2>1
  <2> QED BY <2>2, <2>3 DEF Once
<1>10. \A i \in DOMAIN all : \E n \in DOMAIN firsts : firsts[n].of = all[i].of
  BY <1>3, <1>6, <1>8 DEF FirstPlaces
<1>11. /\ Both(a, b) \in Hits(C) /\ Once(Both(a, b))
       /\ \A i \in DOMAIN all : \E n \in DOMAIN Both(a, b) : Both(a, b)[n].of = all[i].of
       /\ \E p : FirstPlaces(p, Both(a, b), all, keys)
  BY <1>2, <1>6, <1>7, <1>9, <1>10
<1> QED BY <1>11 DEF all, keys

\* Both lists in one, each hit once.
Millionths(items) == [n \in DOMAIN items |-> [items[n] EXCEPT !.score = @ * 10000]]

LEMMA RescoredAre ==
  ASSUME NEW C, NEW items \in Hits(C), NEW new, DOMAIN new = DOMAIN items, new = [n \in DOMAIN new |-> new[n]],
         \A n \in DOMAIN items : new[n] = [items[n] EXCEPT !.score = new[n].score] /\ new[n].score \in Int
  PROVE  new \in Hits(C) /\ (\A n \in DOMAIN items : new[n].of = items[n].of) /\ (Once(items) => Once(new))
<1>1. /\ DOMAIN items = 1 .. Len(items) /\ Len(items) \in Nat
      /\ \A n \in DOMAIN items : /\ items[n].of \in C /\ items[n].score \in Int
                                 /\ items[n] = [of |-> items[n].of, score |-> items[n].score]
  BY HitsAre
<1>2. \A n \in DOMAIN items : new[n] \in [of : C, score : Int] /\ new[n].of = items[n].of
  <2> SUFFICES ASSUME NEW n \in DOMAIN items
               PROVE  new[n] \in [of : C, score : Int] /\ new[n].of = items[n].of
    OBVIOUS
  <2> DEFINE r == [of |-> items[n].of, score |-> items[n].score]
  <2>1. items[n] = r /\ items[n].of \in C
    BY <1>1
  <2>2. new[n] = [of |-> items[n].of, score |-> new[n].score] /\ new[n].score \in Int
    <3>1. [r EXCEPT !.score = new[n].score] = [of |-> items[n].of, score |-> new[n].score]
      OBVIOUS
    <3> HIDE DEF r
    <3> QED BY <2>1, <3>1
  <2> QED BY <2>1, <2>2
<1>3. new \in Hits(C)
  <2> DEFINE N == Len(items)
  <2>1. N \in Nat /\ DOMAIN new = 1 .. N
    BY <1>1
  <2> HIDE DEF N
  <2>2. new = [n \in 1 .. N |-> new[n]] /\ \A n \in 1 .. N : new[n] \in [of : C, score : Int]
    BY <2>1, <1>2
  <2> QED BY <2>1, <2>2, HitsIf
<1>4. ASSUME Once(items) PROVE Once(new)
  <2> SUFFICES ASSUME NEW m \in DOMAIN items, NEW n \in DOMAIN items, new[m].of = new[n].of
               PROVE  m = n
    BY DEF Once
  <2>1. items[m].of = items[n].of
    BY <1>2
  <2> QED BY <1>4, <2>1 DEF Once
<1> QED BY <1>2, <1>3, <1>4

\* The hits of two lists with the score of both.
Scored(dense, keyword) ==
  LET all == Both(dense, keyword)
  IN  [n \in DOMAIN all |-> [all[n] EXCEPT !.score = RankScore(dense, keyword, all[n].of)]]

LEMMA RankedHybrid ==
  ASSUME NEW dense, NEW keyword, keyword # <<>>, dense # <<>>
  PROVE  Hybrid(dense, keyword) = Descending(Scored(dense, keyword))
<1> DEFINE both == dense \o keyword
           keys == [n \in DOMAIN both |-> both[n].of]
           first == FirstOf(both, keys)
           scored == [n \in DOMAIN first |-> [first[n] EXCEPT !.score = RankScore(dense, keyword, first[n].of)]]
<1>1. Hybrid(dense, keyword) = CASE keyword = <<>> -> Millionths(dense)
                                 [] keyword # <<>> /\ dense = <<>> -> Millionths(keyword)
                                 [] OTHER -> Descending(scored)
  BY DEF Hybrid, Millionths
<1>2. Scored(dense, keyword) = scored
  BY Zenon DEF Scored, Both
<1> HIDE DEF scored
<1> QED BY <1>1, <1>2

LEMMA ScoredAre ==
  ASSUME NEW C, NEW dense \in Hits(C), NEW keyword \in Hits(C)
  PROVE  /\ DOMAIN Scored(dense, keyword) = DOMAIN Both(dense, keyword)
         /\ Scored(dense, keyword) \in Hits(C)
         /\ \A n \in DOMAIN Both(dense, keyword) :
              /\ Scored(dense, keyword)[n].of = Both(dense, keyword)[n].of
              /\ Scored(dense, keyword)[n].score = RankScore(dense, keyword, Both(dense, keyword)[n].of)
<1> DEFINE all == Both(dense, keyword)
           scored == [n \in DOMAIN all |-> [all[n] EXCEPT !.score = RankScore(dense, keyword, all[n].of)]]
<1>1. all \in Hits(C)
  BY BothAre
<1>2. Scored(dense, keyword) = scored
  BY DEF Scored
<1> HIDE DEF all
<1>3. DOMAIN scored = DOMAIN all /\ scored = [n \in DOMAIN scored |-> scored[n]]
  OBVIOUS
<1>4. ASSUME NEW n \in DOMAIN all
      PROVE  scored[n] = [all[n] EXCEPT !.score = scored[n].score] /\ scored[n].score \in Int
  <2> DEFINE q == RankScore(dense, keyword, all[n].of)
  <2>1. all[n] = [of |-> all[n].of, score |-> all[n].score]
    BY <1>1, HitsAre
  <2>2. q \in Int
    BY ReciprocalsAre, RankScoreIs
  <2>3. scored[n] = [all[n] EXCEPT !.score = q]
    OBVIOUS
  <2> HIDE DEF q, scored
  <2>4. scored[n].score = q
    BY <2>1, <2>3
  <2> QED BY <2>2, <2>3, <2>4
<1>5. ASSUME NEW n \in DOMAIN all
      PROVE  scored[n].of = all[n].of /\ scored[n].score = RankScore(dense, keyword, all[n].of)
  <2> DEFINE q == RankScore(dense, keyword, all[n].of)
  <2>1. all[n] = [of |-> all[n].of, score |-> all[n].score]
    BY <1>1, HitsAre
  <2>2. scored[n] = [all[n] EXCEPT !.score = q]
    OBVIOUS
  <2> HIDE DEF q, scored
  <2>3. scored[n].score = q /\ scored[n].of = all[n].of
    BY <2>1, <2>2
  <2> QED BY <2>3 DEF q
<1> HIDE DEF scored
<1>6. scored \in Hits(C)
  BY <1>1, <1>3, <1>4, RescoredAre
<1> QED BY <1>2, <1>3, <1>5, <1>6 DEF all

LEMMA HybridIs ==
  ASSUME NEW C, NEW dense \in Hits(C), NEW keyword \in Hits(C), Once(dense), Once(keyword)
  PROVE  /\ Hybrid(dense, keyword) \in Hits(C) /\ Once(Hybrid(dense, keyword))
<1> DEFINE scored == Scored(dense, keyword)
<1>1. Hybrid(dense, keyword) \in {Millionths(dense), Millionths(keyword), Descending(scored)}
  <2>1. CASE keyword = <<>>
    <3>1. Hybrid(dense, keyword) = [n \in DOMAIN dense |-> [dense[n] EXCEPT !.score = @ * 10000]]
      BY <2>1 DEF Hybrid
    <3> QED BY <3>1 DEF Millionths
  <2>2. CASE keyword # <<>> /\ dense = <<>>
    <3>1. Hybrid(dense, keyword) = [n \in DOMAIN keyword |-> [keyword[n] EXCEPT !.score = @ * 10000]]
      BY <2>2 DEF Hybrid
    <3> QED BY <3>1 DEF Millionths
  <2>3. CASE keyword # <<>> /\ dense # <<>>
    BY <2>3, RankedHybrid
  <2> QED BY <2>1, <2>2, <2>3
<1> HIDE DEF scored
<1>2. ASSUME NEW items \in Hits(C), Once(items) PROVE Millionths(items) \in Hits(C) /\ Once(Millionths(items))
  <2> DEFINE new == Millionths(items)
  <2>1. DOMAIN new = DOMAIN items /\ new = [n \in DOMAIN new |-> new[n]]
    BY DEF Millionths
  <2>2. ASSUME NEW n \in DOMAIN items
        PROVE  new[n] = [items[n] EXCEPT !.score = new[n].score] /\ new[n].score \in Int
    <3>1. items[n].score \in Int /\ items[n] = [of |-> items[n].of, score |-> items[n].score]
      BY HitsAre
    <3>2. new[n] = [items[n] EXCEPT !.score = items[n].score * 10000]
      BY DEF Millionths
    <3>3. new[n].score = items[n].score * 10000 /\ items[n].score * 10000 \in Int
      BY <3>1, <3>2
    <3> QED BY <3>2, <3>3
  <2> HIDE DEF new
  <2> QED BY <1>2, <2>1, <2>2, RescoredAre DEF new
<1>3. Once(Both(dense, keyword))
  BY BothAre
<1>4. scored \in Hits(C) /\ Once(scored)
  BY <1>3, ScoredAre DEF Once, scored
<1>5. Descending(scored) \in Hits(C) /\ Once(Descending(scored))
  <2>1. \A n \in DOMAIN scored : scored[n].score \in Int
    BY <1>4, HitsAre
  <2>2. Descending(scored) \in Hits(C) /\ Reordered(Descending(scored), scored)
    BY <1>4, <2>1, DescendingIs DEF Hits
  <2> QED BY <1>4, <2>2, ReorderedKeeps
<1> QED BY <1>1, <1>2, <1>5

LEMMA HitsGrow ==
  ASSUME NEW C, NEW D, C \subseteq D, NEW items \in Hits(C)
  PROVE  items \in Hits(D)
<1> DEFINE H == [of : C, score : Int]
           G == [of : D, score : Int]
<1>1. H \subseteq G /\ items \in Seq(H)
  BY DEF Hits
<1> HIDE DEF H, G
<1>2. items \in Seq(G)
  BY <1>1
<1> QED BY <1>2 DEF Hits, G

\* The hits with the score of a chunk's document on top of its own.
Raised(items, candidates) ==
  [n \in DOMAIN items |-> [items[n] EXCEPT !.score = @ + 100 * Score(candidates, Document(items[n].of))]]

LEMMA RaisedAre ==
  ASSUME NEW C, NEW items \in Hits(C),
         NEW candidates, \A d \in DOMAIN candidates : candidates[d] \in Int
  PROVE  /\ DOMAIN Raised(items, candidates) = DOMAIN items
         /\ Raised(items, candidates) \in Hits(C) /\ (Once(items) => Once(Raised(items, candidates)))
         /\ \A d : Score(candidates, d) \in Int
         /\ \A n \in DOMAIN items :
              /\ Raised(items, candidates)[n].of = items[n].of
              /\ Raised(items, candidates)[n].score
                   = items[n].score + 100 * Score(candidates, Document(items[n].of))
<1> DEFINE new == Raised(items, candidates)
<1>1. \A d : Score(candidates, d) \in Int
  BY DEF Score
<1>2. DOMAIN new = DOMAIN items /\ new = [n \in DOMAIN new |-> new[n]]
  BY DEF Raised
<1>3. ASSUME NEW n \in DOMAIN items
      PROVE  /\ new[n] = [items[n] EXCEPT !.score = new[n].score] /\ new[n].score \in Int
             /\ new[n].of = items[n].of
             /\ new[n].score = items[n].score + 100 * Score(candidates, Document(items[n].of))
  <2> DEFINE q == items[n].score + 100 * Score(candidates, Document(items[n].of))
  <2>1. items[n] = [of |-> items[n].of, score |-> items[n].score] /\ items[n].score \in Int
    BY HitsAre
  <2>2. q \in Int
    BY <1>1, <2>1
  <2>3. new[n] = [items[n] EXCEPT !.score = q]
    BY DEF Raised
  <2> HIDE DEF q, new
  <2>4. new[n].score = q /\ new[n].of = items[n].of
    BY <2>1, <2>3
  <2> QED BY <2>2, <2>3, <2>4 DEF q
<1> HIDE DEF new
<1>4. new \in Hits(C) /\ (Once(items) => Once(new))
  BY <1>2, <1>3, RescoredAre
<1> QED BY <1>1, <1>2, <1>3, <1>4 DEF new

LEMMA BoostedIs ==
  ASSUME NEW C, NEW items \in Hits(C), Once(items),
         NEW candidates, \A d \in DOMAIN candidates : candidates[d] \in Int
  PROVE  /\ Boosted(items, candidates) \in {items, Descending(Raised(items, candidates))}
         /\ Boosted(items, candidates) \in Hits(C) /\ Once(Boosted(items, candidates))
         /\ \A n \in DOMAIN Boosted(items, candidates) :
              \E m \in DOMAIN items : items[m].of = Boosted(items, candidates)[n].of
<1> DEFINE raised == Raised(items, candidates)
           new == Descending(raised)
<1>1. Boosted(items, candidates) \in {items, new}
  BY DEF Boosted, Raised
<1>2. raised \in Hits(C) /\ Once(raised) /\ DOMAIN raised = DOMAIN items
      /\ \A n \in DOMAIN items : raised[n].of = items[n].of
  BY RaisedAre
<1> HIDE DEF raised
<1>3. \A n \in DOMAIN raised : raised[n].score \in Int
  BY <1>2, HitsAre
<1>4. new \in Hits(C) /\ Reordered(new, raised)
  BY <1>2, <1>3, DescendingIs DEF Hits
<1>5. Once(new)
  BY <1>2, <1>4, ReorderedKeeps
<1> HIDE DEF new
<1>6. \A n \in DOMAIN new : \E m \in DOMAIN items : items[m].of = new[n].of
  BY <1>2, <1>4 DEF Reordered
<1> QED BY <1>1, <1>4, <1>5, <1>6 DEF new, raised

LEMMA AnsweredIs ==
  ASSUME NEW C, NEW results \in Hits(C), NEW comprehensive
  PROVE  Answered(results, comprehensive) \in Hits(C)
<1> DEFINE H == [of : C, score : Int]
           keys == [n \in DOMAIN results |-> Chunked(results[n])]
<1>1. results \in Seq(H) /\ TopK \in Nat
  BY TopKAssumption DEF Hits
<1>2. Answered(results, comprehensive) \in {FirstOf(results, keys), Take(results, TopK)}
  BY DEF Answered
<1> HIDE DEF H, keys
<1>3. FirstOf(results, keys) \in Seq(H) /\ Take(results, TopK) \in Seq(H)
  BY <1>1, FirstOfIs, TakeIs
<1> QED BY <1>2, <1>3 DEF Hits, H

LEMMA PairMax ==
  ASSUME NEW a \in Int, NEW b \in Int
  PROVE  Max({a, b}) \in Int
<1>1. IsFiniteSet({a, b})
  <2>1. {a, b} = {a} \cup {b}
    OBVIOUS
  <2>2. IsFiniteSet({a}) /\ IsFiniteSet({b})
    BY FS_Singleton
  <2>3. IsFiniteSet({a} \cup {b})
    BY <2>2, FS_Union
  <2> QED BY <2>1, <2>3
<1>2. {a, b} \in SUBSET Int /\ {a, b} # {}
  OBVIOUS
<1> QED BY <1>1, <1>2, MaxIs

LEMMA CandidatesAre ==
  ASSUME NEW s, IsStore(s), NEW scope
  PROVE  \A d \in DOMAIN Candidates(s, scope) : Candidates(s, scope)[d] \in Int
<1> DEFINE near == VectorDocuments(s, scope)
           linked == GraphDocuments(s, scope)
<1> SUFFICES ASSUME NEW d \in near \cup linked PROVE Candidates(s, scope)[d] \in Int
  BY DEF Candidates
<1>1. \A x \in near : s.near[x] \in Int
  BY StoreHas DEF VectorDocuments, Scores
<1>2. \A x \in linked : s.linked[x] \in Int
  BY StoreHas DEF GraphDocuments, Scores
<1> DEFINE m == Max({s.near[d], s.linked[d]})
<1>3. Candidates(s, scope)[d] = CASE d \notin linked -> s.near[d]
                                  [] d \notin near -> s.linked[d]
                                  [] OTHER -> m + Bonus
  BY DEF Candidates
<1>4. d \in near /\ d \in linked => m \in Int
  BY <1>1, <1>2, PairMax
<1> HIDE DEF m, near, linked
<1> QED BY <1>1, <1>2, <1>3, <1>4 DEF Bonus

LEMMA ScopeOfCandidates ==
  ASSUME NEW scope, IsScope(scope), NEW candidates
  PROVE  IsScope(CandidateScope(scope, candidates)) /\ CandidateScope(scope, candidates).sort = scope.sort
<1>1. CandidateScope(scope, candidates) \in {scope, [scope EXCEPT !.documents = DOMAIN candidates]}
  BY DEF CandidateScope
<1> DEFINE new == [scope EXCEPT !.documents = DOMAIN candidates]
<1>2. IsScope(new) /\ new.sort = scope.sort
  <2>1. scope = [documents |-> scope.documents, folders |-> scope.folders, at |-> scope.at, sort |-> scope.sort]
    BY DEF IsScope
  <2>2. new = [documents |-> DOMAIN candidates, folders |-> scope.folders, at |-> scope.at, sort |-> scope.sort]
    BY <2>1
  <2> HIDE DEF new
  <2>3. new.sort = scope.sort /\ new.at = scope.at /\ new.folders = scope.folders /\ new.documents = DOMAIN candidates
    BY <2>2
  <2> QED BY <2>2, <2>3 DEF IsScope
<1> QED BY <1>1, <1>2

LEMMA SearchChunksIs ==
  ASSUME NEW s, IsStore(s), NEW scope, IsScope(scope), NEW candidates,
         \A d \in DOMAIN candidates : candidates[d] \in Int, NEW comprehensive
  PROVE  SearchChunks(s, scope, candidates, comprehensive)
           \in Hits(Findable(s, CandidateScope(scope, candidates)))
<1> DEFINE inside == CandidateScope(scope, candidates)
           C == Findable(s, inside)
           dense == DenseChunks(s, inside, IF comprehensive THEN 100 ELSE TopK)
           keyword == KeywordChunks(s, inside)
           hybrid == Hybrid(dense, keyword)
           boosted == Boosted(hybrid, candidates)
           sorted == ChunksByTime(s, boosted, scope)
<1>1. SearchChunks(s, scope, candidates, comprehensive) = Answered(sorted, comprehensive)
  BY DEF SearchChunks, ChunkLists
<1>2. IsScope(inside) /\ C \subseteq ChunkIds(s)
  BY ScopeOfCandidates, FindableIs
<1>3. NearChunks(s, inside) \subseteq C
      /\ WordedChunks(s, inside) \cup ChunksOf(s, TitledDocuments(s, inside)) \subseteq C
  BY DEF Findable
<1> HIDE DEF inside, C
<1>4. dense \in Hits(C) /\ Once(dense)
  <2>1. (IF comprehensive THEN 100 ELSE TopK) \in Nat
    BY TopKAssumption
  <2>2. dense \in Hits(NearChunks(s, inside)) /\ Once(dense)
    BY <1>2, <2>1, DenseIs
  <2> HIDE DEF dense
  <2> QED BY <1>3, <2>2, HitsGrow
<1>5. keyword \in Hits(C) /\ Once(keyword)
  <2> DEFINE D == WordedChunks(s, inside) \cup ChunksOf(s, TitledDocuments(s, inside))
  <2>1. keyword \in Hits(D) /\ Once(keyword)
    BY KeywordIs
  <2> HIDE DEF keyword
  <2>2. D \subseteq C
    BY <1>3
  <2> HIDE DEF D
  <2> QED BY <2>1, <2>2, HitsGrow
<1> HIDE DEF dense, keyword
<1>6. hybrid \in Hits(C) /\ Once(hybrid)
  BY <1>4, <1>5, HybridIs
<1> HIDE DEF hybrid
<1>7. boosted \in Hits(C)
  BY <1>6, BoostedIs
<1> HIDE DEF boosted
<1>8. sorted \in Hits(C)
  BY <1>2, <1>7, ChunksByTimeIs
<1> HIDE DEF sorted
<1> QED BY <1>1, <1>8, AnsweredIs DEF C, inside

\* What a search of documents finds is in its scope, that of its candidates or its own.
SearchedScope(s, scope) ==
  LET inside == DocumentSearchScope(s, scope) IN CandidateScope(inside, Candidates(s, inside))

LEMMA DocumentSearchIs ==
  ASSUME NEW s, IsStore(s), NEW scope, IsScope(scope), NEW comprehensive
  PROVE  LET found == DocumentSearch(s, scope, comprehensive)
         IN  /\ found \in Hits(ChunkIds(s))
             /\ DocumentSearchScope(s, scope) # None => /\ IsScope(DocumentSearchScope(s, scope))
                                                        /\ DocumentSearchScope(s, scope).sort = scope.sort
             /\ found = <<>> \/ /\ DocumentSearchScope(s, scope) # None
                                /\ IsScope(DocumentSearchScope(s, scope))
                                /\ found \in Hits(Findable(s, SearchedScope(s, scope)))
<1> DEFINE inside == DocumentSearchScope(s, scope)
           ids == ScopedDocuments(s, scope)
           found == DocumentSearch(s, scope, comprehensive)
           C == Findable(s, SearchedScope(s, scope))
<1>1. inside \in {None, scope, [scope EXCEPT !.documents = ids, !.folders = {}]}
  BY DEF DocumentSearchScope
<1> DEFINE new == [scope EXCEPT !.documents = ids, !.folders = {}]
<1>2. IsScope(new) /\ new.sort = scope.sort
  <2> DEFINE r == [documents |-> scope.documents, folders |-> scope.folders, at |-> scope.at, sort |-> scope.sort]
  <2>1. scope = r
    BY DEF IsScope
  <2> HIDE DEF ids
  <2>2. new = [documents |-> ids, folders |-> {}, at |-> scope.at, sort |-> scope.sort]
    <3> DEFINE o == [documents |-> ids, folders |-> scope.folders, at |-> scope.at, sort |-> scope.sort]
    <3>1. [r EXCEPT !.documents = ids] = o
      OBVIOUS
    <3>2. [o EXCEPT !.folders = {}] = [documents |-> ids, folders |-> {}, at |-> scope.at, sort |-> scope.sort]
      OBVIOUS
    <3> HIDE DEF r, o
    <3>3. [scope EXCEPT !.documents = ids, !.folders = {}] = [[scope EXCEPT !.documents = ids] EXCEPT !.folders = {}]
      OBVIOUS
    <3> QED BY <2>1, <3>1, <3>2, <3>3
  <2> HIDE DEF new
  <2>3. new.sort = scope.sort /\ new.at = scope.at /\ new.folders = {} /\ new.documents = ids
    BY <2>2
  <2> QED BY <2>2, <2>3 DEF IsScope
<1>3. CASE inside = None
  <2>1. found = <<>>
    BY <1>3 DEF DocumentSearch, SearchIn
  <2>2. <<>> \in Hits(ChunkIds(s))
    BY DEF Hits
  <2> QED BY <1>3, <2>1, <2>2
<1>4. CASE inside # None
  <2>1. IsScope(inside) /\ inside.sort = scope.sort
    BY <1>1, <1>2, <1>4
  <2>2. found = SearchChunks(s, inside, Candidates(s, inside), comprehensive)
    BY <1>4 DEF DocumentSearch, SearchIn
  <2>3. found \in Hits(C)
    <3> HIDE DEF inside, found
    <3>1. \A d \in DOMAIN Candidates(s, inside) : Candidates(s, inside)[d] \in Int
      BY CandidatesAre
    <3>2. found \in Hits(Findable(s, CandidateScope(inside, Candidates(s, inside))))
      BY <2>1, <2>2, <3>1, SearchChunksIs
    <3> QED BY <3>2 DEF SearchedScope, inside
  <2> HIDE DEF found
  <2>4. C \subseteq ChunkIds(s)
    BY FindableIs
  <2> HIDE DEF C
  <2>5. found \in Hits(ChunkIds(s))
    BY <2>3, <2>4, HitsGrow
  <2> QED BY <1>4, <2>1, <2>3, <2>5 DEF C, found
<1> QED BY <1>3, <1>4

\* What is found in a scope of documents is of one of them.
LEMMA FindableInDocuments ==
  ASSUME NEW s, NEW scope, scope.documents # {}, NEW c \in Findable(s, scope)
  PROVE  Document(c) \in scope.documents
<1>1. \A d : Within(s, d, scope) => d \in scope.documents
  BY DEF Within, DocumentInScope
<1>2. ~Unrestricted(scope)
  BY DEF Unrestricted
<1>3. \A d \in CurrentDocuments(s, scope) : d \in scope.documents
  BY <1>1 DEF CurrentDocuments
<1>4. CASE c \in NearChunks(s, scope)
  BY <1>1, <1>4 DEF NearChunks
<1>5. CASE c \in WordedChunks(s, scope)
  BY <1>2, <1>3, <1>5 DEF WordedChunks
<1>6. CASE c \in ChunksOf(s, TitledDocuments(s, scope))
  BY <1>3, <1>6 DEF ChunksOf, TitledDocuments
<1> QED BY <1>4, <1>5, <1>6 DEF Findable

LEMMA FoundInScope ==
  ASSUME NEW s, IsStore(s), NEW scope, IsScope(scope), NEW comprehensive,
         NEW n \in DOMAIN DocumentSearch(s, scope, comprehensive)
  PROVE  LET d == Chunked(DocumentSearch(s, scope, comprehensive)[n]) IN
         /\ \A x : scope.documents = {x} /\ scope.folders = {} => d = x
         /\ \A f : scope.documents = {} /\ scope.folders = {f} => <<d, f>> \in s.inFolder /\ f \notin s.deleted
<1> DEFINE found == DocumentSearch(s, scope, comprehensive)
           inside == DocumentSearchScope(s, scope)
           ids == ScopedDocuments(s, scope)
           c == found[n].of
<1>1. /\ inside # None /\ IsScope(inside)
      /\ found \in Hits(Findable(s, SearchedScope(s, scope)))
  <2>1. found # <<>>
    OBVIOUS
  <2> QED BY <2>1, DocumentSearchIs
<1>2. c \in Findable(s, SearchedScope(s, scope))
  <2> DEFINE C == Findable(s, SearchedScope(s, scope))
  <2>1. found \in Hits(C)
    BY <1>1
  <2> HIDE DEF found, C
  <2>2. n \in DOMAIN found
    BY DEF found
  <2> QED BY <2>1, <2>2, HitsAre DEF C
<1>3. inside.documents # {} => SearchedScope(s, scope) = inside
  BY DEF SearchedScope, CandidateScope
<1> HIDE DEF found
<1>4. inside.documents # {} => Document(c) \in inside.documents
  BY <1>2, <1>3, FindableInDocuments
<1>5. scope.folders = {} => inside = scope
  BY DEF DocumentSearchScope
<1>6. scope.folders # {} => inside.documents = ids /\ ids # {}
  <2> SUFFICES ASSUME scope.folders # {} PROVE inside.documents = ids /\ ids # {}
    OBVIOUS
  <2>1. ids # {} /\ inside = [scope EXCEPT !.documents = ids, !.folders = {}]
    BY <1>1 DEF DocumentSearchScope
  <2> DEFINE r == [documents |-> scope.documents, folders |-> scope.folders, at |-> scope.at, sort |-> scope.sort]
  <2>2. scope = r
    BY DEF IsScope
  <2> HIDE DEF ids
  <2>3. [r EXCEPT !.documents = ids, !.folders = {}].documents = ids
    OBVIOUS
  <2> HIDE DEF r, inside
  <2> QED BY <2>1, <2>2, <2>3
<1>7. ASSUME NEW x, scope.documents = {x}, scope.folders = {} PROVE Document(c) = x
  <2> HIDE DEF inside, ids
  <2> QED BY <1>4, <1>5, <1>7
<1>8. ASSUME NEW f, scope.documents = {}, scope.folders = {f}
      PROVE  <<Document(c), f>> \in s.inFolder /\ f \notin s.deleted
  <2>1. Document(c) \in ids
    <3> HIDE DEF inside, ids
    <3> QED BY <1>4, <1>6, <1>8
  <2>2. Document(c) \in Members(s, scope.folders)
    <3>1. ~Unrestricted(scope)
      BY <1>8 DEF Unrestricted
    <3> HIDE DEF c
    <3> QED BY <1>8, <2>1, <3>1 DEF ScopedDocuments
  <2> HIDE DEF c
  <2> QED BY <1>8, <2>2 DEF Members
<1> QED BY <1>7, <1>8 DEF found, Chunked

-----------------------------------------------------------------------------
(* Searches for folders.                                                   *)

LEMMA ImageIsFinite ==
  ASSUME NEW K, IsFiniteSet(K), NEW f
  PROVE  IsFiniteSet({f[x] : x \in K})
<1> DEFINE Q == {f[x] : x \in K}
           g == [x \in K |-> f[x]]
<1>1. g \in [K -> Q] /\ \A q \in Q : \E x \in K : g[x] = q
  OBVIOUS
<1> HIDE DEF g, Q
<1>2. g \in Surjection(K, Q)
  BY <1>1 DEF Surjection
<1>3. IsFiniteSet(Q)
  BY <1>2, FS_Surjection
<1> QED BY <1>3 DEF Q

\* The best score of each document that vectors or graph find.
LEMMA DocumentSignalsAre ==
  ASSUME NEW s, IsStore(s), NEW scope, NEW inside
  PROVE  LET signals == DocumentSignals(s, scope, inside) IN
         IsFiniteSet(DOMAIN signals) /\ \A d \in DOMAIN signals : signals[d] \in Int
<1> DEFINE near == IF inside = None THEN {} ELSE VectorDocuments(s, inside)
           chunks == IF inside = None THEN {} ELSE NearChunks(s, inside)
           linked == IF inside = None THEN {} ELSE GraphDocuments(s, scope)
           documents == {Document(c) : c \in chunks}
           all == near \cup documents \cup linked
           signals == DocumentSignals(s, scope, inside)
           of(d) == {s.near[x] : x \in {d} \cap near} \cup {s.linked[x] : x \in {d} \cap linked}
                    \cup {s.chunkNear[c] : c \in {b \in chunks : Document(b) = d}}
<1>1. signals = [d \in all |-> Max(of(d))]
  BY DEF DocumentSignals
<1>2. near \subseteq DOMAIN s.near /\ chunks \subseteq DOMAIN s.chunkNear /\ linked \subseteq DOMAIN s.linked
  BY DEF VectorDocuments, NearChunks, GraphDocuments
<1> HIDE DEF near, chunks, linked, signals
<1>3. /\ IsFiniteSet(near) /\ IsFiniteSet(chunks) /\ IsFiniteSet(linked)
      /\ \A x \in near : s.near[x] \in Int
      /\ \A x \in linked : s.linked[x] \in Int
      /\ \A x \in chunks : s.chunkNear[x] \in Int
  BY <1>2, StoreHas, FS_Subset DEF Scores
<1>4. IsFiniteSet(documents)
  <2> DEFINE f == [c \in chunks |-> Document(c)]
  <2>1. documents = {f[c] : c \in chunks}
    OBVIOUS
  <2> HIDE DEF documents, f
  <2> QED BY <1>3, <2>1, ImageIsFinite
<1>5. IsFiniteSet(all)
  <2> HIDE DEF documents
  <2>1. IsFiniteSet(near \cup documents)
    BY <1>3, <1>4, FS_Union
  <2> QED BY <1>3, <2>1, FS_Union
<1>6. ASSUME NEW d \in all PROVE Max(of(d)) \in Int
  <2> DEFINE N == {s.near[x] : x \in {d} \cap near}
             L == {s.linked[x] : x \in {d} \cap linked}
             O == {b \in chunks : Document(b) = d}
             C == {s.chunkNear[c] : c \in O}
             S == of(d)
  <2>1. N \in SUBSET Int /\ L \in SUBSET Int /\ C \in SUBSET Int
    BY <1>3
  <2>2. N # {} \/ L # {} \/ C # {}
    <3>1. CASE d \in near
      <4>1. s.near[d] \in N
        BY <3>1
      <4> QED BY <4>1
    <3>2. CASE d \in linked
      <4>1. s.linked[d] \in L
        BY <3>2
      <4> QED BY <4>1
    <3>3. CASE d \in documents
      <4>1. PICK c \in chunks : d = Document(c)
        BY <3>3
      <4>2. s.chunkNear[c] \in C
        BY <4>1
      <4> QED BY <4>2
    <3> QED BY <3>1, <3>2, <3>3
  <2>3. IsFiniteSet(N) /\ IsFiniteSet(L) /\ IsFiniteSet(C)
    <3>1. IsFiniteSet({d} \cap near) /\ IsFiniteSet({d} \cap linked) /\ IsFiniteSet(O)
      BY <1>3, FS_Subset
    <3> HIDE DEF O
    <3> QED BY <3>1, ImageIsFinite
  <2>4. S = (N \cup L) \cup C
    OBVIOUS
  <2> HIDE DEF N, L, C, S
  <2>5. IsFiniteSet(N \cup L)
    BY <2>3, FS_Union
  <2>6. IsFiniteSet(S) /\ S \in SUBSET Int /\ S # {}
    BY <2>1, <2>2, <2>3, <2>4, <2>5, FS_Union
  <2>7. Max(S) \in Int
    BY <2>6, MaxIs
  <2> QED BY <2>7 DEF S
<1> HIDE DEF all, of
<1>7. IsFiniteSet(DOMAIN signals) /\ \A d \in DOMAIN signals : signals[d] \in Int
  BY <1>1, <1>5, <1>6
<1> QED BY <1>7 DEF signals

ScoredFolders(s) == DOMAIN s.folderNear \cup DOMAIN s.folderNamed \cup s.known

LEMMA FolderScoresAre ==
  ASSUME NEW s, IsStore(s), NEW scope, NEW signals, IsFiniteSet(DOMAIN signals),
         \A d \in DOMAIN signals : signals[d] \in Int
  PROVE  LET score == FolderScores(s, scope, signals) IN
         DOMAIN score \subseteq ScoredFolders(s) /\ \A f \in DOMAIN score : score[f] \in Int
<1> DEFINE near == NearFolders(s, scope)
           named == NamedFolders(s, scope)
           ofDocuments == UNION {FoldersOf(s, d) : d \in DOMAIN signals}
           score == FolderScores(s, scope, signals)
           D(f) == {d \in DOMAIN signals : f \in FoldersOf(s, d)}
           sum(f) == Total(signals, D(f))
           a(f) == IF f \in near THEN s.folderNear[f] ELSE 0
           b(f) == IF f \in named THEN s.folderNamed[f] ELSE 0
<1>1. score = [f \in near \cup named \cup ofDocuments |-> sum(f) + a(f) + b(f)]
  BY DEF FolderScores
<1>2. near \subseteq DOMAIN s.folderNear /\ named \subseteq DOMAIN s.folderNamed /\ ofDocuments \subseteq s.known
  BY DEF NearFolders, NamedFolders, FoldersOf
<1>3. ASSUME NEW f PROVE sum(f) \in Int
  <2> DEFINE E == D(f)
  <2>1. IsFiniteSet(E) /\ \A d \in E : signals[d] \in Int
    BY FS_Subset
  <2> HIDE DEF E
  <2>2. Total(signals, E) \in Int
    BY <2>1, TotalIs
  <2> QED BY <2>2 DEF E
<1>4. ASSUME NEW f PROVE a(f) \in Int /\ b(f) \in Int
  BY <1>2, StoreHas DEF Scores
<1> HIDE DEF near, named, ofDocuments, score, sum, a, b
<1>5. DOMAIN score \subseteq ScoredFolders(s)
  BY <1>1, <1>2 DEF ScoredFolders
<1>6. \A f \in DOMAIN score : score[f] \in Int
  BY <1>1, <1>3, <1>4
<1> QED BY <1>5, <1>6 DEF score

LEMMA FolderIdsAre ==
  ASSUME NEW s, IsStore(s)
  PROVE  /\ ScoredFolders(s) \in SUBSET Nat /\ IsFiniteSet(ScoredFolders(s))
         /\ \A f \in ScoredFolders(s) : s.time[f] \in Int /\ f # None
<1>1. ScoredFolders(s) \subseteq Timed(s)
  BY DEF ScoredFolders, Timed
<1>2. /\ DOMAIN s.folderNear \in SUBSET Nat /\ IsFiniteSet(DOMAIN s.folderNear)
      /\ DOMAIN s.folderNamed \in SUBSET Nat /\ IsFiniteSet(DOMAIN s.folderNamed)
      /\ s.known \in SUBSET Nat /\ IsFiniteSet(s.known)
  <2>1. Scores(s.folderNear) /\ Scores(s.folderNamed)
    BY StoreHas
  <2> QED BY <2>1 DEF IsStore, Scores
<1>3. IsFiniteSet(DOMAIN s.folderNear \cup DOMAIN s.folderNamed)
  BY <1>2, FS_Union
<1>4. IsFiniteSet(ScoredFolders(s))
  BY <1>2, <1>3, FS_Union DEF ScoredFolders
<1>5. ScoredFolders(s) \in SUBSET Nat
  BY <1>2 DEF ScoredFolders
<1> QED BY <1>1, <1>4, <1>5 DEF IsStore

\* A search of folders finds folders, none of those that are left out.
LEMMA FolderSearchIs ==
  ASSUME NEW s, IsStore(s), NEW scope, IsScope(scope), NEW excluded
  PROVE  FolderSearch(s, scope, excluded) \in Hits(ScoredFolders(s) \ excluded)
<1> DEFINE inside == DocumentSearchScope(s, scope)
           signals == DocumentSignals(s, scope, inside)
           score == FolderScores(s, scope, signals)
           S == DOMAIN score \ excluded
           best == Best(score, S)
           taken == Take(best, TopK)
           F == ScoredFolders(s) \ excluded
           H == [of : S, score : Int]
<1>1. FolderSearch(s, scope, excluded) \in {<<>>, FoldersByTime(s, taken, scope)}
  BY DEF FolderSearch, FoldersIn, RankedFolders
<1>2. IsFiniteSet(DOMAIN signals) /\ \A d \in DOMAIN signals : signals[d] \in Int
  BY DocumentSignalsAre
<1> HIDE DEF signals, inside
<1>3. DOMAIN score \subseteq ScoredFolders(s) /\ \A f \in DOMAIN score : score[f] \in Int
  BY <1>2, FolderScoresAre
<1> HIDE DEF score
<1>4. S \in SUBSET Nat /\ IsFiniteSet(S) /\ \A x \in S : score[x] \in Int
  BY <1>3, FolderIdsAre, FS_Subset
<1>5. S \subseteq F
  BY <1>3
<1> HIDE DEF S, F
<1>6. best \in Hits(S)
  BY <1>4, BestIs
<1> HIDE DEF best
<1>7. taken \in Seq(H)
  BY <1>6, TakeIs, TopKAssumption DEF Hits
<1> DEFINE times == [n \in DOMAIN taken |-> s.time[taken[n].of]]
<1>8. times \in [DOMAIN taken -> Int]
  <2> HIDE DEF taken, H
  <2>1. taken \in Hits(S)
    BY <1>7 DEF Hits, H
  <2>2. \A n \in DOMAIN taken : taken[n].of \in ScoredFolders(s)
    BY <1>5, <2>1, HitsAre DEF F
  <2> QED BY <2>2, FolderIdsAre
<1>9. FoldersByTime(s, taken, scope) = ByTime(taken, times, scope)
  BY DEF FoldersByTime
<1> HIDE DEF taken, times, H
<1>10. ByTime(taken, times, scope) \in Seq(H)
  BY <1>7, <1>8, ByTimeIs DEF IsScope
<1>11. FoldersByTime(s, taken, scope) \in Hits(F)
  <2>1. FoldersByTime(s, taken, scope) \in Hits(S)
    BY <1>9, <1>10 DEF Hits, H
  <2> QED BY <1>5, <2>1, HitsGrow
<1>12. <<>> \in Hits(F)
  BY DEF Hits
<1> QED BY <1>1, <1>11, <1>12 DEF F

\* What a recommendation leaves out is what RecommendsElsewhere asks for.
LEMMA ExcludedAre ==
  ASSUME NEW s, IsStore(s), NEW step, NEW c, c.document # None,
         NEW f \in ScoredFolders(s) \ ExcludedFolders(s, step, c)
  PROVE  /\ f # c.folder /\ f \notin FoldersOf(s, SourceDocument(step, c))
         /\ FoldersOf(s, SourceDocument(step, c)) = {} => <<c.document, f>> \notin s.relations
<1> DEFINE d == SourceDocument(step, c)
           ofGraph == IF d = None THEN {} ELSE FoldersOf(s, d)
           ofTables == {r[2] : r \in {p \in s.relations : p[1] = c.document}}
           given == IF ExplicitText(step) \/ c.document = None THEN Opt(step.options, "folder_ids", {}) ELSE {}
           base == CASE ofGraph # {} -> ofGraph
                     [] ofGraph = {} /\ ofTables # {} -> ofTables
                     [] OTHER -> given
<1>1. ExcludedFolders(s, step, c) = base \cup ({c.folder} \ {None})
  BY DEF ExcludedFolders
<1>2. ofGraph = FoldersOf(s, d)
  <2>1. FoldersOf(s, None) = {}
    <3>1. \A p \in s.inFolder : p[1] # None
      BY DEF IsStore
    <3>2. \A g : <<None, g>> \notin s.inFolder
      BY <3>1
    <3> QED BY <3>2 DEF FoldersOf
  <2> QED BY <2>1
<1>3. <<c.document, f>> \in s.relations => f \in ofTables
  <2> SUFFICES ASSUME <<c.document, f>> \in s.relations PROVE f \in ofTables
    OBVIOUS
  <2> DEFINE r == <<c.document, f>>
  <2>1. r[1] = c.document /\ r[2] = f
    OBVIOUS
  <2>2. r \in s.relations
    OBVIOUS
  <2> HIDE DEF r
  <2> QED BY <2>1, <2>2
<1> HIDE DEF d, ofGraph, ofTables, given
<1>4. ofGraph # {} => base = ofGraph
  OBVIOUS
<1>5. ofGraph = {} /\ ofTables # {} => base = ofTables
  OBVIOUS
<1> HIDE DEF base
<1>6. f # None
  BY FolderIdsAre
<1>7. f \notin base /\ f # c.folder
  BY <1>1, <1>6
<1>8. f \notin FoldersOf(s, d)
  BY <1>2, <1>4, <1>7
<1>9. FoldersOf(s, d) = {} => <<c.document, f>> \notin s.relations
  BY <1>2, <1>3, <1>5, <1>7
<1> QED BY <1>7, <1>8, <1>9 DEF d

-----------------------------------------------------------------------------
(* Compiled plans.                                                         *)

\* The steps of a plan are its actions, and perhaps one that presents what was found.
LEMMA WithOutputIs ==
  ASSUME NEW X, NEW actions \in Seq(X)
  PROVE  /\ DOMAIN WithOutput(actions) \in {1 .. Len(actions), 1 .. Len(actions) + 1}
         /\ \A i \in DOMAIN actions : WithOutput(actions)[i] = actions[i]
         /\ \A i \in DOMAIN WithOutput(actions) \ DOMAIN actions :
              WithOutput(actions)[i].type \in {"present_signals", "present_documents"}
         /\ DOMAIN actions = 1 .. Len(actions) /\ Len(actions) \in Nat
<1>1. DOMAIN actions = 1 .. Len(actions) /\ Len(actions) \in Nat
  OBVIOUS
<1>2. ASSUME NEW p
      PROVE  /\ DOMAIN Append(actions, p) = 1 .. Len(actions) + 1
             /\ \A i \in DOMAIN actions : Append(actions, p)[i] = actions[i]
             /\ Append(actions, p)[Len(actions) + 1] = p
  <2>1. actions \in Seq(X \cup {p})
    OBVIOUS
  <2> QED BY <2>1
<1> QED BY <1>1, <1>2 DEF WithOutput, Presentation

\* The plan's own steps come first, with the options of their actions.
OfActions(plan_, steps_) ==
  /\ DOMAIN plan_.actions \subseteq DOMAIN steps_
  /\ \A i \in DOMAIN plan_.actions : /\ steps_[i].type = plan_.actions[i].type
                                     /\ steps_[i].options = StepOptions(plan_, plan_.actions[i])
  /\ \A i \in DOMAIN steps_ \ DOMAIN plan_.actions :
       steps_[i].type \in {"present_signals", "present_documents"}

LEMMA CompiledIs ==
  ASSUME NEW p \in Plans, PlanAccepted(p), NEW c
  PROVE  LET s == Compiled(p, c) IN
         /\ DOMAIN s = 1 .. Len(s) /\ Len(s) \in Nat \ {0}
         /\ \/ DOMAIN s = {1} /\ s[1].type = "request_clarification"
            \/ OfActions(p, s) /\ DOMAIN s = DOMAIN WithOutput(p.actions)
                /\ \A i \in DOMAIN s : s[i].type = WithOutput(p.actions)[i].type
<1> DEFINE A == WithOutput(p.actions)
           s == Compiled(p, c)
           X == {s[i] : i \in DOMAIN s}
<1>1. p.actions \in Seq({p.actions[i] : i \in DOMAIN p.actions}) /\ p.actions # <<>>
  BY PlansAssumption DEF PlanAccepted
<1>2. /\ DOMAIN A \in {1 .. Len(p.actions), 1 .. Len(p.actions) + 1}
      /\ \A i \in DOMAIN p.actions : A[i] = p.actions[i]
      /\ \A i \in DOMAIN A \ DOMAIN p.actions : A[i].type \in {"present_signals", "present_documents"}
      /\ DOMAIN p.actions = 1 .. Len(p.actions) /\ Len(p.actions) \in Nat \ {0}
  <2>1. Len(p.actions) # 0
    BY <1>1
  <2> QED BY <1>1, <2>1, WithOutputIs
<1> HIDE DEF A
<1>3. CASE SourceScope(p.scope, c) = None
  <2>1. s = <<[type |-> "request_clarification", scope |-> Everything, options |-> NoOptions]>>
    BY <1>3 DEF Compiled
  <2> QED BY <2>1
<1>4. CASE SourceScope(p.scope, c) # None
  <2>1. /\ DOMAIN s = DOMAIN A
        /\ \A i \in DOMAIN A : s[i].type = A[i].type /\ s[i].options = StepOptions(p, A[i])
    BY <1>4 DEF Compiled, A
  <2>2. s = [i \in DOMAIN s |-> s[i]]
    BY <1>4 DEF Compiled, A
  <2> HIDE DEF s
  <2>3. \E n \in Nat \ {0} : DOMAIN s = 1 .. n
    BY <1>2, <2>1
  <2>4. s \in Seq(X)
    BY <2>2, <2>3
  <2>5. DOMAIN s = 1 .. Len(s) /\ Len(s) \in Nat \ {0}
    BY <2>3, <2>4
  <2>6. OfActions(p, s)
    BY <1>2, <2>1 DEF OfActions
  <2> QED BY <2>1, <2>5, <2>6 DEF A, s
<1> QED BY <1>3, <1>4

-----------------------------------------------------------------------------
(* The host's actions.                                                     *)

ActionFields == {"id", "status", "attempts", "waitsFor", "policy", "input"}

AreActions(actions) ==
  /\ actions \in Seq({actions[i] : i \in DOMAIN actions})
  /\ \A i \in DOMAIN actions : DOMAIN actions[i] = ActionFields

\* What an action waits for is before it.
InOrder(actions) ==
  \A i \in DOMAIN actions : actions[i].waitsFor # None =>
    \E j \in 1 .. i - 1 : actions[j].id = actions[i].waitsFor

\* The host has to confirm each action, and has not.
Proposed(actions) ==
  \A i \in DOMAIN actions : actions[i].status = "proposed" /\ actions[i].policy.confirm = TRUE

\* The fields of the work of a task.
IsWork(w) ==
  /\ DOMAIN w = {"artifacts", "result", "round", "task", "pending"}
  /\ DOMAIN w.task = {"actions"}
  /\ AreActions(w.task.actions)

\* A sequence is one of its own elements.
LEMMA OwnElements ==
  ASSUME NEW X, NEW s \in Seq(X)
  PROVE  s \in Seq({s[i] : i \in DOMAIN s})
<1> DEFINE Y == {s[i] : i \in DOMAIN s}
<1>1. \E n \in Nat : DOMAIN s = 1 .. n
  OBVIOUS
<1>2. s = [i \in DOMAIN s |-> s[i]]
  OBVIOUS
<1>3. s \in [DOMAIN s -> Y]
  BY <1>2
<1> HIDE DEF Y
<1> QED BY <1>1, <1>3 DEF Y

\* What an action waits for is there.
MayFollow(a, actions) ==
  /\ DOMAIN a = ActionFields
  /\ a.waitsFor # None => \E j \in DOMAIN actions : actions[j].id = a.waitsFor

IsProposed(a) == a.status = "proposed" /\ a.policy.confirm = TRUE

HasAction(actions, a) == \E i \in DOMAIN actions : actions[i] = a

\* A sequence of actions goes on with an action that may follow it, or ends.
LEMMA Grown ==
  ASSUME NEW s, AreActions(s), InOrder(s), NEW a, MayFollow(a, s), NEW t, t \in {<<>>, <<a>>}
  PROVE  /\ AreActions(s \o t) /\ InOrder(s \o t)
         /\ \A b : HasAction(s, b) => HasAction(s \o t, b)
         /\ t = <<a>> => HasAction(s \o t, a)
         /\ Proposed(s) /\ IsProposed(a) => Proposed(s \o t)
<1> DEFINE X == {s[i] : i \in DOMAIN s} \cup {a}
           u == s \o t
           n == Len(s)
<1>1. s \in Seq(X) /\ t \in Seq(X) /\ n \in Nat /\ DOMAIN s = 1 .. n
  <2> DEFINE Y == {s[i] : i \in DOMAIN s}
  <2>1. s \in Seq(Y) /\ Y \subseteq X /\ a \in X
    BY DEF AreActions
  <2> HIDE DEF X, Y
  <2>2. s \in Seq(X)
    BY <2>1
  <2>3. t \in Seq(X)
    <3>1. <<>> \in Seq(X) /\ <<a>> \in Seq(X)
      BY <2>1
    <3> QED BY <3>1
  <2> QED BY <2>1, <2>2, <2>3
<1>2. CASE t = <<>>
  <2>1. u = s
    BY <1>1, <1>2
  <2> QED BY <1>2, <2>1
<1>3. CASE t = <<a>>
  <2>1. u \in Seq(X) /\ DOMAIN u = 1 .. n + 1 /\ u[n + 1] = a /\ \A j \in 1 .. n : u[j] = s[j]
    BY <1>1, <1>3
  <2> HIDE DEF u
  <2>2. u \in Seq({u[i] : i \in DOMAIN u})
    BY <1>1, <2>1
  <2>3. \A i \in DOMAIN u : i \in 1 .. n \/ i = n + 1
    BY <1>1, <2>1
  <2>4. n + 1 \in DOMAIN u /\ \A j \in 1 .. n : j \in DOMAIN u
    BY <1>1, <2>1
  <2>5. AreActions(u)
    BY <1>1, <2>1, <2>2, <2>3 DEF AreActions, MayFollow
  <2>6. InOrder(u)
    <3>1. ASSUME NEW i \in DOMAIN u, u[i].waitsFor # None
          PROVE  \E j \in 1 .. i - 1 : u[j].id = u[i].waitsFor
      <4>1. CASE i = n + 1
        <5>1. PICK j \in 1 .. n : s[j].id = a.waitsFor
          BY <1>1, <2>1, <3>1, <4>1 DEF MayFollow
        <5> QED BY <1>1, <2>1, <4>1, <5>1
      <4>2. CASE i \in 1 .. n
        <5>1. PICK j \in 1 .. i - 1 : s[j].id = s[i].waitsFor
          BY <1>1, <2>1, <3>1, <4>2 DEF InOrder
        <5>2. j \in 1 .. n
          BY <1>1, <4>2, <5>1
        <5> QED BY <2>1, <4>2, <5>1, <5>2
      <4> QED BY <2>3, <4>1, <4>2
    <3> QED BY <3>1 DEF InOrder
  <2>7. Proposed(s) /\ IsProposed(a) => Proposed(u)
    BY <1>1, <2>1, <2>3 DEF Proposed, IsProposed
  <2>8. HasAction(u, a) /\ \A b : HasAction(s, b) => HasAction(u, b)
    BY <1>1, <2>1, <2>4 DEF HasAction
  <2> QED BY <2>5, <2>6, <2>7, <2>8 DEF u
<1> QED BY <1>2, <1>3

\* The actions a step asks for; if its options say so, each has to be confirmed.
LEMMA HostActionsForAre ==
  ASSUME NEW w, NEW o
  PROVE  LET actions == HostActionsFor(w, o) IN
         /\ AreActions(actions) /\ InOrder(actions)
         /\ Opt(o, "requires_confirmation", TRUE) = TRUE => Proposed(actions)
<1> DEFINE d == Opt(o, "document_id", None)
           folder == RequestedId(w, o, "create_folder")
           created == RequestedId(w, o, "create_document")
           a1 == Action(w, o, "create_folder", None, <<>>)
           a2 == Action(w, o, "create_document", folder, IF folder = None THEN <<RecommendedFolder(w)>> ELSE <<>>)
           a3 == Action(w, o, "move_document", None, <<d, RecommendedFolder(w)>>)
           a4 == Action(w, o, "update_document", None, <<d>>)
           a5 == Action(w, o, "link_documents", IF d = None THEN created ELSE None, <<d, LinkTarget(w, o)>>)
           Has(type) == type \in Requested(o) /\ HasInput(w, o, type)
           t1 == IF Has("create_folder") THEN <<a1>> ELSE <<>>
           t2 == IF Has("create_document") THEN <<a2>> ELSE <<>>
           t3 == IF Has("move_document") THEN <<a3>> ELSE <<>>
           t4 == IF Has("update_document") THEN <<a4>> ELSE <<>>
           t5 == IF Has("link_documents") THEN <<a5>> ELSE <<>>
           s2 == t1 \o t2
           s3 == s2 \o t3
           s4 == s3 \o t4
           s5 == s4 \o t5
           C == Opt(o, "requires_confirmation", TRUE) = TRUE
<1>1. HostActionsFor(w, o) = s5
  BY DEF HostActionsFor
<1>2. /\ folder # None => folder = ActionId(w, "create_folder") /\ Has("create_folder")
      /\ created # None => created = ActionId(w, "create_document") /\ Has("create_document")
  BY DEF RequestedId, HasInput
<1>3. /\ DOMAIN a1 = ActionFields /\ a1.waitsFor = None /\ a1.id = ActionId(w, "create_folder")
      /\ DOMAIN a2 = ActionFields /\ a2.waitsFor = folder /\ a2.id = ActionId(w, "create_document")
      /\ DOMAIN a3 = ActionFields /\ a3.waitsFor = None
      /\ DOMAIN a4 = ActionFields /\ a4.waitsFor = None
      /\ DOMAIN a5 = ActionFields /\ a5.waitsFor \in {created, None}
  BY DEF Action, ActionFields
<1>4. C => IsProposed(a1) /\ IsProposed(a2) /\ IsProposed(a3) /\ IsProposed(a4) /\ IsProposed(a5)
  <2>1. C => Policy(o).confirm = TRUE
    BY DEF Policy
  <2> QED BY <2>1 DEF Action, IsProposed
<1>5. /\ t1 \in {<<>>, <<a1>>} /\ t2 \in {<<>>, <<a2>>} /\ t3 \in {<<>>, <<a3>>}
      /\ t4 \in {<<>>, <<a4>>} /\ t5 \in {<<>>, <<a5>>}
      /\ Has("create_folder") => t1 = <<a1>>
      /\ Has("create_document") => t2 = <<a2>>
  OBVIOUS
<1> HIDE DEF d, folder, created, a1, a2, a3, a4, a5, Has, t1, t2, t3, t4, t5, C
<1>6. AreActions(<<>>) /\ InOrder(<<>>) /\ Proposed(<<>>)
  BY DEF AreActions, InOrder, Proposed
<1>7. /\ AreActions(t1) /\ InOrder(t1) /\ (C => Proposed(t1))
      /\ Has("create_folder") => HasAction(t1, a1)
  <2>1. MayFollow(a1, <<>>)
    BY <1>3 DEF MayFollow
  <2>2. <<>> \o t1 = t1
    <3>1. <<>> \o <<a1>> = <<a1>> /\ <<>> \o <<>> = <<>>
      OBVIOUS
    <3> QED BY <1>5, <3>1
  <2> DEFINE s1 == <<>> \o t1
  <2>3. /\ AreActions(s1) /\ InOrder(s1) /\ (C => Proposed(s1))
        /\ Has("create_folder") => HasAction(s1, a1)
    BY <1>4, <1>5, <1>6, <2>1, Grown
  <2> QED BY <2>2, <2>3
<1>8. /\ AreActions(s2) /\ InOrder(s2) /\ (C => Proposed(s2))
      /\ Has("create_document") => HasAction(s2, a2)
  <2>1. MayFollow(a2, t1)
    BY <1>2, <1>3, <1>7 DEF MayFollow, HasAction
  <2> QED BY <1>4, <1>5, <1>7, <2>1, Grown
<1> HIDE DEF s2
<1>9. /\ AreActions(s3) /\ InOrder(s3) /\ (C => Proposed(s3))
      /\ Has("create_document") => HasAction(s3, a2)
  <2>1. MayFollow(a3, s2)
    BY <1>3 DEF MayFollow
  <2> QED BY <1>4, <1>5, <1>8, <2>1, Grown
<1> HIDE DEF s3
<1>10. /\ AreActions(s4) /\ InOrder(s4) /\ (C => Proposed(s4))
       /\ Has("create_document") => HasAction(s4, a2)
  <2>1. MayFollow(a4, s3)
    BY <1>3 DEF MayFollow
  <2> QED BY <1>4, <1>5, <1>9, <2>1, Grown
<1> HIDE DEF s4
<1>11. AreActions(s5) /\ InOrder(s5) /\ (C => Proposed(s5))
  <2>1. MayFollow(a5, s4)
    BY <1>2, <1>3, <1>10 DEF MayFollow, HasAction
  <2> QED BY <1>4, <1>5, <1>10, <2>1, Grown
<1> QED BY <1>1, <1>11 DEF C

\* The same actions, but that one which needs no confirmation may have become ready.
SameButReady(old, new) ==
  /\ DOMAIN new = DOMAIN old
  /\ \A i \in DOMAIN old :
       /\ DOMAIN new[i] = DOMAIN old[i]
       /\ \A field \in ActionFields \ {"status"} : new[i][field] = old[i][field]
       /\ new[i].status = old[i].status \/ ~old[i].policy.confirm

\* The places Host!ScheduleNext and Host!MergeActions pick.
LEMMA HostPicks ==
  ASSUME NEW X, NEW actions \in Seq(X)
  PROVE  /\ \A S : S \subseteq DOMAIN actions /\ S # {} => Host!Least(S) \in S
         /\ \A S \in SUBSET DOMAIN actions :
              LET only == Host!Only(actions, S) IN
              /\ only \in Seq(X)
              /\ \A k \in DOMAIN only : Host!Place(S, k) \in S /\ only[k] = actions[Host!Place(S, k)]
              /\ \A j \in S : \E k \in DOMAIN only : Host!Place(S, k) = j
              /\ \A k, l \in DOMAIN only : Host!Place(S, k) < Host!Place(S, l) => k < l
<1>1. \A S : Host!Least(S) = Least(S)
  BY DEF Host!Least, Least
<1>2. \A S, k : Host!Place(S, k) = Place(S, k)
  BY DEF Host!Place, Place, Host!Cardinality, Cardinality
<1>3. \A S : Host!Only(actions, S) = Only(actions, S)
  BY <1>2 DEF Host!Only, Only, Host!Cardinality, Cardinality
<1>4. \A S : S \subseteq DOMAIN actions /\ S # {} => Host!Least(S) \in S
  BY <1>1, AllPlaces
<1>5. ASSUME NEW S \in SUBSET DOMAIN actions
      PROVE  LET only == Host!Only(actions, S) IN
             /\ only \in Seq(X)
             /\ \A k \in DOMAIN only : Host!Place(S, k) \in S /\ only[k] = actions[Host!Place(S, k)]
             /\ \A j \in S : \E k \in DOMAIN only : Host!Place(S, k) = j
             /\ \A k, l \in DOMAIN only : Host!Place(S, k) < Host!Place(S, l) => k < l
  BY <1>2, <1>3, OnlyKeeps, OnlyInOrder
<1> QED BY <1>4, <1>5

LEMMA ScheduledIs ==
  ASSUME NEW w, IsWork(w)
  PROVE  LET v == Host!ScheduleNext(w) IN
         /\ IsWork(v) /\ v.artifacts = w.artifacts /\ v.result = w.result
         /\ SameButReady(w.task.actions, v.task.actions)
<1> DEFINE old == w.task.actions
           open == Host!WithStatus(old, {"proposed", "ready"})
           v == Host!ScheduleNext(w)
           new == v.task.actions
           X == {old[i] : i \in DOMAIN old}
<1>1. /\ old \in Seq(X) /\ \A i \in DOMAIN old : DOMAIN old[i] = ActionFields
      /\ open \subseteq DOMAIN old
  BY DEF IsWork, AreActions, Host!WithStatus
<1>2. CASE open = {}
  <2>1. v = [w EXCEPT !.pending = {}]
    BY <1>2 DEF Host!ScheduleNext
  <2>2. IsWork(v) /\ v.artifacts = w.artifacts /\ v.result = w.result /\ new = old
    BY <2>1 DEF IsWork
  <2> QED BY <2>2 DEF SameButReady
<1>3. CASE open # {}
  <2> DEFINE i == Host!Least(open)
             status == IF i \in Host!Unconfirmed(old) THEN "ready" ELSE old[i].status
             a == [old[i] EXCEPT !.status = status]
  <2>1. i \in DOMAIN old
    BY <1>1, <1>3, HostPicks
  <2>2. v = [w EXCEPT !.pending = {old[i].id}, !.task.actions[i].status = status]
    BY <1>3 DEF Host!ScheduleNext
  <2>3. status = old[i].status \/ ~old[i].policy.confirm
    BY DEF Host!Unconfirmed
  <2> HIDE DEF i, status, open, v
  <2>4. /\ DOMAIN v = DOMAIN w /\ v.artifacts = w.artifacts /\ v.result = w.result
        /\ DOMAIN v.task = {"actions"} /\ new = [old EXCEPT ![i].status = status]
    BY <2>2 DEF IsWork
  <2>5. DOMAIN a = ActionFields /\ a.status = status
        /\ \A field \in ActionFields \ {"status"} : a[field] = old[i][field]
    BY <1>1, <2>1 DEF ActionFields
  <2>6. DOMAIN new = DOMAIN old /\ new[i] = a /\ \A j \in DOMAIN old : j # i => new[j] = old[j]
    BY <2>1, <2>4
  <2> HIDE DEF a, new, X
  <2>7. SameButReady(old, new)
    BY <1>1, <2>1, <2>3, <2>5, <2>6 DEF SameButReady
  <2>8. new \in Seq({new[j] : j \in DOMAIN new})
    <3>1. \E n \in Nat : DOMAIN new = 1 .. n
      BY <1>1, <2>6
    <3>2. new = [j \in DOMAIN new |-> new[j]]
      BY <2>4
    <3> QED BY <3>1, <3>2
  <2>9. AreActions(new)
    BY <1>1, <2>5, <2>6, <2>8 DEF AreActions
  <2> QED BY <2>4, <2>7, <2>9 DEF IsWork, new, v
<1> QED BY <1>2, <1>3

LEMMA SameButReadyKeeps ==
  ASSUME NEW old, NEW new, AreActions(old), SameButReady(old, new)
  PROVE  /\ InOrder(old) => InOrder(new)
         /\ Proposed(old) => Proposed(new)
<1>1. /\ DOMAIN new = DOMAIN old /\ DOMAIN old \in SUBSET Nat
      /\ \E n \in Nat : DOMAIN old = 1 .. n
      /\ \A i \in DOMAIN old : /\ new[i].id = old[i].id /\ new[i].waitsFor = old[i].waitsFor
                               /\ new[i].policy = old[i].policy
                               /\ new[i].status = old[i].status \/ ~old[i].policy.confirm
  <2>1. \E n \in Nat : DOMAIN old = 1 .. n
    BY DEF AreActions
  <2> QED BY <2>1 DEF SameButReady, ActionFields
<1>2. ASSUME InOrder(old), NEW i \in DOMAIN new, new[i].waitsFor # None
      PROVE  \E j \in 1 .. i - 1 : new[j].id = new[i].waitsFor
  <2>1. PICK j \in 1 .. i - 1 : old[j].id = old[i].waitsFor
    BY <1>1, <1>2 DEF InOrder
  <2>2. j \in DOMAIN old
    BY <1>1
  <2> QED BY <1>1, <2>1, <2>2
<1>3. InOrder(old) => InOrder(new)
  BY <1>2 DEF InOrder
<1>4. Proposed(old) => Proposed(new)
  BY <1>1 DEF Proposed
<1> QED BY <1>3, <1>4

\* The actions of a task, and those of a step that are not among them.
LEMMA JoinedAre ==
  ASSUME NEW old, AreActions(old), InOrder(old), NEW actions, AreActions(actions), InOrder(actions)
  PROVE  LET known == {old[i].id : i \in DOMAIN old}
             S == {i \in DOMAIN actions : actions[i].id \notin known}
             new == old \o Host!Only(actions, S)
         IN  /\ AreActions(new) /\ InOrder(new)
             /\ Proposed(old) /\ Proposed(actions) => Proposed(new)
<1> DEFINE known == {old[i].id : i \in DOMAIN old}
           S == {i \in DOMAIN actions : actions[i].id \notin known}
           only == Host!Only(actions, S)
           new == old \o only
           X == {old[i] : i \in DOMAIN old}
           Y == {actions[i] : i \in DOMAIN actions}
           n == Len(old)
           m == Len(only)
           At(k) == Host!Place(S, k)
<1>1. /\ old \in Seq(X) /\ actions \in Seq(Y)
      /\ \A i \in DOMAIN old : DOMAIN old[i] = ActionFields
      /\ \A i \in DOMAIN actions : DOMAIN actions[i] = ActionFields
  BY DEF AreActions
<1>2. DOMAIN actions \in SUBSET Nat /\ \E l \in Nat : DOMAIN actions = 1 .. l
  BY <1>1
<1>3. /\ only \in Seq(Y)
      /\ \A k \in DOMAIN only : At(k) \in S /\ only[k] = actions[At(k)]
      /\ \A j \in S : \E k \in DOMAIN only : At(k) = j
      /\ \A k, l \in DOMAIN only : At(k) < At(l) => k < l
  <2>1. S \in SUBSET DOMAIN actions
    OBVIOUS
  <2> HIDE DEF S, Y
  <2> QED BY <1>1, <2>1, HostPicks
<1>4. \A i \in DOMAIN actions : i \in S \/ \E j \in DOMAIN old : old[j].id = actions[i].id
  OBVIOUS
<1>5. S \subseteq DOMAIN actions
  OBVIOUS
<1> HIDE DEF X, Y, S, known, only, At
<1>6. /\ DOMAIN old = 1 .. n /\ n \in Nat /\ DOMAIN only = 1 .. m /\ m \in Nat
      /\ DOMAIN new = 1 .. n + m
      /\ \A i \in 1 .. n : new[i] = old[i]
      /\ \A k \in 1 .. m : new[n + k] = only[k]
      /\ new \in Seq(X \cup Y)
  <2>1. old \in Seq(X \cup Y) /\ only \in Seq(X \cup Y)
    BY <1>1, <1>3
  <2> QED BY <2>1
<1>7. ASSUME NEW i \in DOMAIN new, i \notin 1 .. n
      PROVE  i - n \in 1 .. m /\ new[i] = actions[At(i - n)] /\ At(i - n) \in S
  <2>1. i - n \in 1 .. m /\ n + (i - n) = i
    BY <1>6, <1>7
  <2> QED BY <1>3, <1>6, <2>1
<1> HIDE DEF new, n, m
<1>8. AreActions(new)
  <2>1. new \in Seq({new[i] : i \in DOMAIN new})
    BY <1>6, OwnElements
  <2>2. ASSUME NEW i \in DOMAIN new PROVE DOMAIN new[i] = ActionFields
    <3>1. CASE i \in 1 .. n
      BY <1>1, <1>6, <3>1
    <3>2. CASE i \notin 1 .. n
      <4>1. new[i] = actions[At(i - n)] /\ At(i - n) \in DOMAIN actions
        BY <1>5, <1>7, <3>2
      <4> QED BY <1>1, <4>1
    <3> QED BY <3>1, <3>2
  <2> QED BY <2>1, <2>2 DEF AreActions
<1>9. InOrder(new)
  <2>1. ASSUME NEW i \in DOMAIN new, new[i].waitsFor # None
        PROVE  \E j \in 1 .. i - 1 : new[j].id = new[i].waitsFor
    <3>1. CASE i \in 1 .. n
      <4>1. PICK j \in 1 .. i - 1 : old[j].id = old[i].waitsFor
        BY <1>6, <2>1, <3>1 DEF InOrder
      <4>2. j \in 1 .. n
        BY <1>6, <3>1
      <4> QED BY <1>6, <3>1, <4>1, <4>2
    <3>2. CASE i \notin 1 .. n
      <4> DEFINE k == i - n
      <4>1. k \in 1 .. m /\ new[i] = actions[At(k)] /\ At(k) \in DOMAIN actions /\ i = n + k
        BY <1>5, <1>6, <1>7, <3>2
      <4> HIDE DEF k
      <4>2. PICK j \in 1 .. At(k) - 1 : actions[j].id = new[i].waitsFor
        BY <2>1, <4>1 DEF InOrder
      <4>3. j \in DOMAIN actions /\ j < At(k)
        BY <1>2, <4>1, <4>2
      <4>4. CASE \E l \in DOMAIN old : old[l].id = actions[j].id
        <5>1. PICK l \in 1 .. n : old[l].id = actions[j].id
          BY <1>6, <4>4
        <5>2. l \in 1 .. i - 1
          BY <1>6, <4>1
        <5> QED BY <1>6, <4>2, <5>1, <5>2
      <4>5. CASE j \in S
        <5>1. PICK l \in 1 .. m : At(l) = j
          BY <1>3, <1>6, <4>5
        <5>2. l < k
          BY <1>3, <1>6, <4>1, <4>3, <5>1
        <5>3. n + l \in 1 .. i - 1
          BY <1>6, <4>1, <5>1, <5>2
        <5>4. new[n + l] = only[l] /\ only[l] = actions[j]
          BY <1>3, <1>6, <5>1
        <5> QED BY <4>2, <5>3, <5>4
      <4> QED BY <1>4, <4>3, <4>4, <4>5
    <3> QED BY <3>1, <3>2
  <2> QED BY <2>1 DEF InOrder
<1>10. Proposed(old) /\ Proposed(actions) => Proposed(new)
  BY <1>5, <1>6, <1>7 DEF Proposed
<1> QED BY <1>8, <1>9, <1>10 DEF new, only, S, known

LEMMA MergedIs ==
  ASSUME NEW w, IsWork(w), InOrder(w.task.actions), NEW actions, AreActions(actions), InOrder(actions)
  PROVE  LET v == Host!MergeActions(w, actions) IN
         /\ IsWork(v) /\ v.artifacts = w.artifacts /\ v.result = w.result
         /\ InOrder(v.task.actions)
         /\ Proposed(w.task.actions) /\ Proposed(actions) => Proposed(v.task.actions)
<1> DEFINE old == w.task.actions
           known == {old[i].id : i \in DOMAIN old}
           S == {i \in DOMAIN actions : actions[i].id \notin known}
           new == old \o Host!Only(actions, S)
           u == [w EXCEPT !.task.actions = new]
           v == Host!MergeActions(w, actions)
<1>1. v = Host!ScheduleNext(u)
  BY DEF Host!MergeActions
<1>2. AreActions(new) /\ InOrder(new) /\ (Proposed(old) /\ Proposed(actions) => Proposed(new))
  BY JoinedAre DEF IsWork
<1> HIDE DEF new, v
<1>3. IsWork(u) /\ u.artifacts = w.artifacts /\ u.result = w.result /\ u.task.actions = new
  BY <1>2 DEF IsWork
<1> HIDE DEF u
<1>4. /\ IsWork(v) /\ v.artifacts = u.artifacts /\ v.result = u.result
      /\ SameButReady(new, v.task.actions)
  BY <1>1, <1>3, ScheduledIs
<1>5. InOrder(v.task.actions) /\ (Proposed(new) => Proposed(v.task.actions))
  BY <1>2, <1>4, SameButReadyKeeps
<1> QED BY <1>2, <1>3, <1>4, <1>5 DEF v

-----------------------------------------------------------------------------
(* What a step leaves.                                                     *)

\* Steps of these types leave the task with a result.
Outputs == DocumentOutputs \cup {"present_signals", "synthesize_signals"}

LEMMA ResultIs ==
  ASSUME NEW name, NEW result
  PROVE  Result(name, result).output # {}
  BY DEF Result, Outcome

LEMMA OutcomeIs ==
  ASSUME NEW s, NEW w, NEW step, NEW c, NEW text
  PROVE  LET o == StepOutcome(s, w, step, c, text) IN
         /\ step.type = "find_documents" => "document_retrieval" \in DOMAIN o.artifacts
         /\ step.type \in Outputs => o.output # {}
<1> DEFINE o == StepOutcome(s, w, step, c, text)
<1>1. CASE step.type = "find_documents"
  <2>1. o = FindDocuments(s, step)
    BY <1>1 DEF StepOutcome, Generating
  <2>2. "document_retrieval" \in DOMAIN o.artifacts
    BY <2>1 DEF FindDocuments, Found, Outcome
  <2>3. step.type \notin Outputs
    BY <1>1 DEF Outputs, DocumentOutputs, Generating
  <2> QED BY <2>2, <2>3
<1>2. CASE step.type \in Outputs
  <2>1. step.type \in Generating \cup {"present_documents", "recommend_documents", "synthesize_report",
                                     "plan_host_actions", "present_signals", "synthesize_signals"}
    BY <1>2 DEF Outputs, DocumentOutputs
  <2>2. CASE step.type = "present_documents"
    <3>1. o = PresentDocuments(s, w, step)
      BY <2>2 DEF StepOutcome, Generating
    <3>2. o.output # {}
      BY <3>1, ResultIs DEF PresentDocuments
    <3> QED BY <2>2, <3>2
  <2>3. CASE step.type = "recommend_documents"
    <3>1. o = RecommendDocuments(s, w, step)
      BY <2>3 DEF StepOutcome, Generating
    <3>2. o.output # {}
      BY <3>1, ResultIs DEF RecommendDocuments
    <3> QED BY <2>3, <3>2
  <2>4. CASE step.type = "synthesize_report"
    <3>1. o = SynthesizeReport(w)
      BY <2>4 DEF StepOutcome, Generating
    <3>2. o.output # {}
      BY <3>1, ResultIs DEF SynthesizeReport
    <3> QED BY <2>4, <3>2
  <2>5. CASE step.type = "plan_host_actions"
    <3>1. o = Outcome([action_plan |-> "plan"], {"plan"})
      BY <2>5 DEF StepOutcome, Generating
    <3> QED BY <2>5, <3>1 DEF Outcome
  <2>6. CASE step.type = "present_signals"
    <3>1. o = PresentSignals(s, w, step)
      BY <2>6 DEF StepOutcome, Generating
    <3>2. o.output # {}
      BY <3>1, ResultIs DEF PresentSignals
    <3> QED BY <2>6, <3>2
  <2>7. CASE step.type = "synthesize_signals"
    <3>1. o = SynthesizeSignals(s, w, step, text)
      BY <2>7 DEF StepOutcome, Generating
    <3>2. o.output # {}
      BY <3>1, ResultIs DEF SynthesizeSignals
    <3> QED BY <2>7, <3>2
  <2>8. CASE step.type \in Generating
    <3>1. o = Generate(w, step, text)
      BY <2>8 DEF StepOutcome, Generating
    <3>2. o.output # {}
      BY <3>1, ResultIs DEF Generate
    <3>3. step.type # "find_documents"
      BY <2>8 DEF Generating
    <3> QED BY <3>2, <3>3
  <2> QED BY <2>1, <2>2, <2>3, <2>4, <2>5, <2>6, <2>7, <2>8
<1> QED BY <1>1, <1>2

LEMMA AfterStepIs ==
  ASSUME NEW s, NEW w, IsWork(w), InOrder(w.task.actions), NEW step, NEW c, NEW text
  PROVE  LET v == AfterStep(s, w, step, c, text) IN
         /\ IsWork(v) /\ InOrder(v.task.actions)
         /\ Written(w, "document_retrieval") \/ step.type = "find_documents"
              => Written(v, "document_retrieval")
         /\ w.result # {} \/ step.type \in Outputs => v.result # {}
         /\ Proposed(w.task.actions)
            /\ (step.type = "plan_host_actions" => Opt(step.options, "requires_confirmation", TRUE) = TRUE)
              => Proposed(v.task.actions)
<1> DEFINE host == step.type = "plan_host_actions"
           actions == HostActionsFor(w, step.options)
           u == IF host THEN Host!MergeActions(w, actions) ELSE w
           o == StepOutcome(s, w, step, c, text)
           v == RecordOutcome(u, step.type, o)
<1>1. AfterStep(s, w, step, c, text) = v
  BY DEF AfterStep
<1>2. /\ AreActions(actions) /\ InOrder(actions)
      /\ Opt(step.options, "requires_confirmation", TRUE) = TRUE => Proposed(actions)
  BY HostActionsForAre
<1>3. /\ step.type = "find_documents" => "document_retrieval" \in DOMAIN o.artifacts
      /\ step.type \in Outputs => o.output # {}
  BY OutcomeIs
<1> HIDE DEF actions, o
<1>4. /\ IsWork(u) /\ u.artifacts = w.artifacts /\ u.result = w.result /\ InOrder(u.task.actions)
      /\ Proposed(w.task.actions) /\ (host => Opt(step.options, "requires_confirmation", TRUE) = TRUE)
           => Proposed(u.task.actions)
  <2>1. CASE host
    <3>1. u = Host!MergeActions(w, actions)
      BY <2>1
    <3> DEFINE m == Host!MergeActions(w, actions)
    <3>2. /\ IsWork(m) /\ m.artifacts = w.artifacts /\ m.result = w.result /\ InOrder(m.task.actions)
          /\ Proposed(w.task.actions) /\ Proposed(actions) => Proposed(m.task.actions)
      BY <1>2, MergedIs
    <3> HIDE DEF u, m
    <3> QED BY <1>2, <2>1, <3>1, <3>2 DEF m
  <2>2. CASE ~host
    BY <2>2
  <2> QED BY <2>1, <2>2
<1> HIDE DEF u
<1>5. /\ IsWork(v) /\ v.task = u.task
      /\ v.artifacts = Overlaid(o.artifacts, u.artifacts)
      /\ v.result = IF o.output = {} THEN u.result
                    ELSE {[type |-> step.type, value |-> value] : value \in o.output}
  BY <1>4 DEF RecordOutcome, IsWork
<1>6. DOMAIN v.artifacts = DOMAIN o.artifacts \cup DOMAIN u.artifacts
  BY <1>5 DEF Overlaid
<1> HIDE DEF v
<1>7. o.output # {} => v.result # {}
  BY <1>5
<1>8. w.result # {} => v.result # {}
  BY <1>4, <1>5, <1>7
<1> QED BY <1>1, <1>3, <1>4, <1>5, <1>6, <1>7, <1>8 DEF Written

-----------------------------------------------------------------------------
(***************************************************************************)
(* The invariant: a task runs the compiled form of an accepted plan; the   *)
(* steps that are over have written what later ones rely on; the actions   *)
(* are in order and, if the plan says so, all still to be confirmed.       *)
(***************************************************************************)
Asks(p) ==
  \A i \in DOMAIN p.actions :
    p.actions[i].type = "plan_host_actions" => p.confirm \/ p.actions[i].confirm

Ran(n) ==
  \A i \in 1 .. n :
    /\ steps[i].type = "find_documents" => Written(work, "document_retrieval")
    /\ steps[i].type \in Outputs => work.result # {}

Compiles ==
  /\ plan \in Plans /\ PlanAccepted(plan) /\ PlanCompiles(plan, context) /\ steps = Compiled(plan, context)
  /\ next \in 1 .. Len(steps) + 1
  /\ IF phase = "running" THEN next # Len(steps) + 1 ELSE next = Len(steps) + 1
  /\ Ran(next - 1)

StepsInv ==
  /\ store \in Stores
  /\ IsWork(work) /\ InOrder(work.task.actions)
  /\ phase = "planning" \/ Asks(plan) => Proposed(work.task.actions)
  /\ phase = "planning" => next = 1
  /\ phase \in {"running", "completed"} => Compiles

LEMMA StepsInit == TaskInit => StepsInv
<1> SUFFICES ASSUME TaskInit PROVE StepsInv
  OBVIOUS
<1>1. IsWork(NoWork) /\ InOrder(NoWork.task.actions) /\ Proposed(NoWork.task.actions)
  <2>1. /\ DOMAIN NoWork = {"artifacts", "result", "round", "task", "pending"}
        /\ DOMAIN NoWork.task = {"actions"} /\ NoWork.task.actions = <<>>
    BY DEF NoWork
  <2>2. AreActions(<<>>) /\ InOrder(<<>>) /\ Proposed(<<>>)
    BY DEF AreActions, InOrder, Proposed
  <2> QED BY <2>1, <2>2 DEF IsWork
<1> QED BY <1>1 DEF TaskInit, StepsInv

LEMMA StepsNext == StepsInv /\ [TaskNext]_taskVars => StepsInv'
<1> SUFFICES ASSUME StepsInv, [TaskNext]_taskVars PROVE StepsInv'
  OBVIOUS
<1>1. ASSUME NEW answer \in Plans, Prepare(answer) PROVE StepsInv'
  <2>1. /\ phase = "planning" /\ plan' = answer /\ context' = context /\ next' = 1 /\ work' = work
        /\ \/ /\ PlanAccepted(answer) /\ PlanCompiles(answer, context)
              /\ phase' = "running" /\ steps' = Compiled(answer, context)
           \/ phase' = "failed"
    BY <1>1 DEF Prepare, StepsInv
  <2>2. store' \in Stores /\ IsWork(work') /\ InOrder(work'.task.actions) /\ Proposed(work'.task.actions)
    BY <1>1, <2>1 DEF StepsInv, Prepare
  <2>3. CASE phase' = "failed"
    BY <2>2, <2>3 DEF StepsInv
  <2>4. CASE PlanAccepted(answer) /\ PlanCompiles(answer, context) /\ phase' = "running"
             /\ steps' = Compiled(answer, context)
    <3>1. Len(steps') \in Nat \ {0}
      BY <2>4, CompiledIs
    <3>2. Compiles'
      BY <2>1, <2>4, <3>1 DEF Compiles, Ran
    <3> QED BY <2>2, <2>4, <3>2 DEF StepsInv
  <2> QED BY <2>1, <2>3, <2>4
<1>2. ASSUME NEW text, ExecuteStep(text) PROVE StepsInv'
  <2> DEFINE step == steps[next]
  <2>1. /\ phase = "running" /\ work' = AfterStep(store, work, step, context, text) /\ next' = next + 1
        /\ phase' = IF next = Len(steps) THEN "completed" ELSE "running"
        /\ context' = context /\ plan' = plan /\ steps' = steps /\ store' = store
    BY <1>2 DEF ExecuteStep
  <2>2. /\ plan \in Plans /\ PlanAccepted(plan) /\ PlanCompiles(plan, context) /\ steps = Compiled(plan, context)
        /\ next \in 1 .. Len(steps) + 1 /\ next # Len(steps) + 1 /\ Ran(next - 1)
    BY <2>1 DEF StepsInv, Compiles
  <2>3. /\ DOMAIN steps = 1 .. Len(steps) /\ Len(steps) \in Nat \ {0}
        /\ \/ DOMAIN steps = {1} /\ steps[1].type = "request_clarification"
           \/ OfActions(plan, steps)
    BY <2>2, CompiledIs
  <2>4. next \in DOMAIN steps /\ next \in 1 .. Len(steps) /\ Len(steps) \in Nat
    BY <2>2, <2>3
  <2>5. Asks(plan) /\ step.type = "plan_host_actions"
          => Opt(step.options, "requires_confirmation", TRUE) = TRUE
    <3> SUFFICES ASSUME Asks(plan), step.type = "plan_host_actions"
                 PROVE  Opt(step.options, "requires_confirmation", TRUE) = TRUE
      OBVIOUS
    <3>1. OfActions(plan, steps) /\ next \in DOMAIN plan.actions
      BY <2>3, <2>4 DEF OfActions
    <3>2. plan.actions[next].type = "plan_host_actions" /\ step.options = StepOptions(plan, plan.actions[next])
      BY <3>1 DEF OfActions
    <3>3. step.options = Overlaid([requires_confirmation |-> TRUE], plan.actions[next].options)
      BY <3>1, <3>2 DEF Asks, StepOptions
    <3> QED BY <3>3 DEF Overlaid, Opt
  <2>6. /\ IsWork(work') /\ InOrder(work'.task.actions)
        /\ Written(work, "document_retrieval") \/ step.type = "find_documents"
             => Written(work', "document_retrieval")
        /\ work.result # {} \/ step.type \in Outputs => work'.result # {}
        /\ Proposed(work.task.actions)
           /\ (step.type = "plan_host_actions" => Opt(step.options, "requires_confirmation", TRUE) = TRUE)
             => Proposed(work'.task.actions)
    BY <2>1, AfterStepIs DEF StepsInv
  <2>7. Asks(plan) => Proposed(work'.task.actions)
    BY <2>5, <2>6 DEF StepsInv
  <2>8. Ran(next - 1)'
    <3>1. ASSUME NEW i \in 1 .. next
          PROVE  /\ steps[i].type = "find_documents" => Written(work', "document_retrieval")
                 /\ steps[i].type \in Outputs => work'.result # {}
      <4>1. CASE i = next
        BY <2>6, <4>1
      <4>2. CASE i # next
        <5>1. i \in 1 .. next - 1
          BY <2>2, <2>3, <4>2
        <5> QED BY <2>2, <2>6, <5>1 DEF Ran
      <4> QED BY <4>1, <4>2
    <3>2. next' - 1 = next
      <4>1. next' = next + 1 /\ next \in 1 .. Len(steps)
        BY <2>1, <2>4
      <4> QED BY <4>1
    <3> QED BY <2>1, <3>1, <3>2 DEF Ran
  <2>9. Compiles'
    <3>1. /\ next' \in 1 .. Len(steps) + 1
          /\ IF phase' = "running" THEN next' # Len(steps) + 1 ELSE next' = Len(steps) + 1
      <4>1. /\ next' = next + 1 /\ next \in 1 .. Len(steps) /\ Len(steps) \in Nat
            /\ phase' = IF next = Len(steps) THEN "completed" ELSE "running"
        BY <2>1, <2>4
      <4> QED BY <4>1
    <3> QED BY <2>1, <2>2, <2>8, <3>1 DEF Compiles
  <2> QED BY <2>1, <2>6, <2>7, <2>9 DEF StepsInv
<1>3. CASE FailStep
  BY <1>3 DEF FailStep, StepsInv
<1>4. ASSUME NEW s \in Stores, ChangeStores(s) PROVE StepsInv'
  <2>1. UNCHANGED <<context, plan, steps, next, work, phase>> /\ store' \in Stores
    BY <1>4 DEF ChangeStores
  <2> QED BY <2>1 DEF StepsInv, Compiles, Ran
<1>5. CASE UNCHANGED taskVars
  BY <1>5 DEF taskVars, StepsInv, Compiles, Ran
<1> QED BY <1>1, <1>2, <1>3, <1>4, <1>5 DEF TaskNext

LEMMA StepsInvHolds == TaskSpec => []StepsInv
<1> QED BY StepsInit, StepsNext, PTL DEF TaskSpec

-----------------------------------------------------------------------------
(***************************************************************************)
(* An accepted plan has a search of documents ahead of every step that     *)
(* writes text from documents, and of every analysis of them (ahead of the *)
(* classification, which is ahead of the analysis); when a step runs, those*)
(* before it have run.                                                     *)
(***************************************************************************)
LEMMA StepsInvGrounds == StepsInv => GroundedInSearch
<1> SUFFICES ASSUME StepsInv, Runs(Generating \cup {"analyze_documents"})
             PROVE  Written(work, "document_retrieval")
  BY DEF GroundedInSearch
<1> DEFINE actions == plan.actions
<1>1. /\ plan \in Plans /\ PlanAccepted(plan) /\ steps = Compiled(plan, context)
      /\ next \in 1 .. Len(steps) + 1 /\ next # Len(steps) + 1 /\ Ran(next - 1)
      /\ steps[next].type \in Generating \cup {"analyze_documents"}
  BY DEF StepsInv, Compiles, Runs
<1>2. /\ DOMAIN steps = 1 .. Len(steps) /\ Len(steps) \in Nat \ {0}
      /\ \/ DOMAIN steps = {1} /\ steps[1].type = "request_clarification"
         \/ OfActions(plan, steps)
  BY <1>1, CompiledIs
<1>3. next \in DOMAIN steps
  BY <1>1, <1>2
<1>4. OfActions(plan, steps) /\ next \in DOMAIN actions /\ DOMAIN actions \subseteq DOMAIN steps
      /\ actions[next].type = steps[next].type
  BY <1>1, <1>2, <1>3 DEF OfActions, Generating
<1>5. \A i \in DOMAIN actions : HasPriors(actions, i)
  BY <1>1 DEF PlanAccepted
<1>6. \E n \in Nat : DOMAIN actions = 1 .. n
  <2>1. actions \in Seq({actions[i] : i \in DOMAIN actions})
    BY <1>1, PlansAssumption
  <2> QED BY <2>1
<1>7. \A i \in DOMAIN actions : actions[i].type \in Generating \cup {"classify_documents"}
        => \E j \in 1 .. i - 1 : actions[j].type = "find_documents"
  BY <1>5 DEF HasPriors, OfDocuments, Prior
<1>8. \E j \in 1 .. next - 1 : actions[j].type = "find_documents"
  <2>1. CASE actions[next].type \in Generating
    BY <1>4, <1>7, <2>1
  <2>2. CASE actions[next].type = "analyze_documents"
    <3>1. PICK k \in 1 .. next - 1 : actions[k].type = "classify_documents"
      BY <1>4, <1>5, <2>2 DEF HasPriors, Prior
    <3>2. k \in DOMAIN actions
      BY <1>4, <1>6
    <3>3. PICK j \in 1 .. k - 1 : actions[j].type = "find_documents"
      BY <1>7, <3>1, <3>2
    <3>4. j \in 1 .. next - 1
      BY <1>4, <1>6
    <3> QED BY <3>3, <3>4
  <2> QED BY <1>1, <1>4, <2>1, <2>2
<1>9. PICK j \in 1 .. next - 1 : actions[j].type = "find_documents"
  BY <1>8
<1>10. j \in DOMAIN actions /\ steps[j].type = "find_documents"
  <2>1. j \in DOMAIN actions
    BY <1>4, <1>6
  <2> QED BY <1>4, <1>9, <2>1 DEF OfActions
<1> QED BY <1>1, <1>10 DEF Ran

(***************************************************************************)
(* Whatever the model plans and writes and however the stores change, text *)
(* is generated, and documents are analyzed, only from the answer of a     *)
(* document search (the required prior actions of a plan, and the steps    *)
(* the compiler makes of it).                                              *)
(***************************************************************************)
THEOREM GroundedInSearchHolds == TaskSpec => []GroundedInSearch
<1> QED BY StepsInvHolds, StepsInvGrounds, PTL

\* The plan's own output, or the one the compiler adds.
LEMMA StepsInvEnds == StepsInv => FindsEndWithResult
<1> DEFINE types == {steps[i].type : i \in DOMAIN steps}
           A == WithOutput(plan.actions)
           typesOfPlan == {plan.actions[i].type : i \in DOMAIN plan.actions}
<1> SUFFICES ASSUME StepsInv, phase = "completed", types \cap {"find_documents", "find_signals"} # {},
                    ~(types \cap OfSignals = {"expand_signal_evidence"} /\ "find_documents" \notin types)
             PROVE  work.result # {}
  BY DEF FindsEndWithResult
<1>1. /\ plan \in Plans /\ PlanAccepted(plan) /\ steps = Compiled(plan, context)
      /\ next = Len(steps) + 1 /\ Ran(next - 1)
  BY DEF StepsInv, Compiles
<1>2. /\ DOMAIN steps = 1 .. Len(steps) /\ Len(steps) \in Nat \ {0}
      /\ \/ DOMAIN steps = {1} /\ steps[1].type = "request_clarification"
         \/ OfActions(plan, steps) /\ DOMAIN steps = DOMAIN A
             /\ \A i \in DOMAIN steps : steps[i].type = A[i].type
  BY <1>1, CompiledIs
<1>3. /\ OfActions(plan, steps) /\ DOMAIN steps = DOMAIN A
      /\ \A i \in DOMAIN steps : steps[i].type = A[i].type
  BY <1>2
<1>4. \A i \in DOMAIN steps : steps[i].type \in Outputs => work.result # {}
  <2>1. next - 1 = Len(steps)
    BY <1>1, <1>2
  <2> QED BY <1>1, <1>2, <2>1 DEF Ran
<1>5. SUFFICES ASSUME types \cap Outputs = {} PROVE FALSE
  BY <1>4
<1>6. typesOfPlan \subseteq types
  BY <1>3 DEF OfActions
<1>7. /\ DOMAIN plan.actions = 1 .. Len(plan.actions) /\ Len(plan.actions) \in Nat
      /\ plan.actions \in Seq({plan.actions[i] : i \in DOMAIN plan.actions})
  <2>1. plan.actions \in Seq({plan.actions[i] : i \in DOMAIN plan.actions})
    BY <1>1, PlansAssumption
  <2> QED BY <2>1
<1>8. ASSUME NEW type, A = Append(plan.actions, Presentation(type)) PROVE type \in types
  <2> DEFINE X == {plan.actions[i] : i \in DOMAIN plan.actions} \cup {Presentation(type)}
             B == Append(plan.actions, Presentation(type))
             n == Len(plan.actions) + 1
  <2>1. n \in DOMAIN B /\ B[n] = Presentation(type)
    BY <1>7
  <2>2. Presentation(type).type = type
    BY DEF Presentation
  <2> HIDE DEF A, B, n
  <2>3. n \in DOMAIN A /\ A[n].type = type
    BY <1>8, <2>1, <2>2 DEF B
  <2> QED BY <1>3, <2>3
<1>9. "present_signals" \in Outputs /\ "present_documents" \in Outputs
      /\ DocumentOutputs \subseteq Outputs /\ "synthesize_signals" \in Outputs
  BY DEF Outputs, DocumentOutputs
<1>10. A = plan.actions
  BY <1>5, <1>8, <1>9 DEF WithOutput
<1>11. types = typesOfPlan
  BY <1>3, <1>10
<1>12. ~("find_signals" \in types /\ types \cap OfSignals = {})
  BY <1>5, <1>8, <1>9, <1>11 DEF WithOutput
<1>13. "find_documents" \notin types
  BY <1>5, <1>8, <1>9, <1>11, <1>12 DEF WithOutput
<1>14. types \cap OfSignals \subseteq {"expand_signal_evidence"}
  BY <1>5, <1>9 DEF OfSignals
<1>15. types \cap OfSignals = {"expand_signal_evidence"}
  BY <1>12, <1>13, <1>14
<1> QED BY <1>13, <1>15

(***************************************************************************)
(* A task that searched ends with a result: of a step of the plan, or of   *)
(* the one the compiler adds (_ensure_document_search_output), whatever    *)
(* the model planned and whatever the later steps did.                     *)
(***************************************************************************)
THEOREM FindsEndWithResultHolds == TaskSpec => []FindsEndWithResult
<1> QED BY StepsInvHolds, StepsInvEnds, PTL

(***************************************************************************)
(* What a host action waits for is an action of the task ahead of it, for  *)
(* all requests: the builder names an action only if it builds it, and     *)
(* first, and merging keeps those that are there and the order of the rest.*)
(***************************************************************************)
THEOREM HostActionReferencesHold == TaskSpec => []HostActionReferences
<1>1. StepsInv => HostActionReferences
  BY DEF StepsInv, InOrder, HostActionReferences
<1> QED BY <1>1, StepsInvHolds, PTL

(***************************************************************************)
(* If the plan or each of its steps for the host asks for a confirmation,  *)
(* no action of the host is ready, whatever the options of the steps say:  *)
(* the compiler overrides them, and only an action without confirmation is *)
(* made ready when it is scheduled.                                        *)
(***************************************************************************)
THEOREM ConfirmationKeptHolds == TaskSpec => []ConfirmationKept
<1>1. StepsInv => ConfirmationKept
  BY DEF StepsInv, Asks, Proposed, ConfirmationKept
<1> QED BY <1>1, StepsInvHolds, PTL

-----------------------------------------------------------------------------
(* The scope of a step.                                                    *)

LEMMA SourceScopeIs ==
  ASSUME NEW place, NEW c, SourceScope(place, c) # None
  PROVE  LET scope == SourceScope(place, c) IN
         /\ IsScope(scope)
         /\ place = "current_document" => scope.documents = {c.document} /\ scope.folders = {}
         /\ place = "current_folder" => scope.documents = {} /\ scope.folders = {c.folder}
<1> DEFINE documents == [Everything EXCEPT !.documents = {c.document}]
           folders == [Everything EXCEPT !.folders = {c.folder}]
<1>1. /\ documents = [documents |-> {c.document}, folders |-> {}, at |-> None, sort |-> None]
      /\ folders = [documents |-> {}, folders |-> {c.folder}, at |-> None, sort |-> None]
      /\ Everything = [documents |-> {}, folders |-> {}, at |-> None, sort |-> None]
  BY DEF Everything
<1> HIDE DEF documents, folders
<1>2. IsScope(documents) /\ documents.documents = {c.document} /\ documents.folders = {}
  BY <1>1 DEF IsScope
<1>3. IsScope(folders) /\ folders.documents = {} /\ folders.folders = {c.folder}
  BY <1>1 DEF IsScope
<1>4. IsScope(Everything)
  BY <1>1 DEF IsScope
<1>5. CASE place = "current_document"
  <2>1. SourceScope(place, c) = documents
    BY <1>5 DEF SourceScope, documents
  <2> QED BY <1>2, <1>5, <2>1
<1>6. CASE place = "current_folder"
  <2>1. SourceScope(place, c) = folders
    BY <1>6 DEF SourceScope, folders
  <2> QED BY <1>3, <1>6, <2>1
<1>7. CASE place \notin {"current_document", "current_folder"}
  <2>1. SourceScope(place, c) = Everything
    BY <1>7 DEF SourceScope
  <2> QED BY <1>4, <1>7, <2>1
<1> QED BY <1>5, <1>6, <1>7

\* The options of a step restrict its query in time as those of its action do.
LEMMA TemporalIs ==
  ASSUME NEW scope, IsScope(scope), NEW options, TemporalAccepted(options), NEW now
  PROVE  LET new == TemporalScope(scope, options, now) IN
         IsScope(new) /\ new.documents = scope.documents /\ new.folders = scope.folders
<1> DEFINE temporal == Opt(options, "temporal", None)
           at == IF temporal.timestamp # None THEN temporal.timestamp ELSE PeriodTimestamp(temporal.period, now)
           sort == IF temporal.sort = None THEN scope.sort ELSE temporal.sort
<1>1. CASE temporal = None
  BY <1>1 DEF TemporalScope
<1>2. CASE temporal # None
  <2>1. TemporalScope(scope, options, now) = [scope EXCEPT !.at = at, !.sort = sort]
    BY <1>2 DEF TemporalScope
  <2>2. sort \in {None, "asc", "desc"}
    BY <1>2 DEF TemporalAccepted, IsScope
  <2> DEFINE r == [documents |-> scope.documents, folders |-> scope.folders, at |-> scope.at, sort |-> scope.sort]
             o == [documents |-> scope.documents, folders |-> scope.folders, at |-> at, sort |-> scope.sort]
             new == TemporalScope(scope, options, now)
  <2> HIDE DEF at, sort, temporal
  <2>3. scope = r
    BY DEF IsScope
  <2>4. new = [documents |-> scope.documents, folders |-> scope.folders, at |-> at, sort |-> sort]
    <3>1. [r EXCEPT !.at = at] = o
      OBVIOUS
    <3>2. [o EXCEPT !.sort = sort]
          = [documents |-> scope.documents, folders |-> scope.folders, at |-> at, sort |-> sort]
      OBVIOUS
    <3> HIDE DEF r, o, new
    <3>3. new = [[scope EXCEPT !.at = at] EXCEPT !.sort = sort]
      BY <2>1 DEF new
    <3> QED BY <2>3, <3>1, <3>2, <3>3
  <2> HIDE DEF new
  <2>5. new.documents = scope.documents /\ new.folders = scope.folders /\ new.at = at /\ new.sort = sort
    BY <2>4
  <2> QED BY <2>2, <2>4, <2>5 DEF IsScope, new
<1> QED BY <1>1, <1>2

\* What a query of a step is about: the source the plan names, in a period or not.
StepScoped(p, c, step) ==
  LET base == SourceScope(p.scope, c)
  IN  /\ IsScope(step.scope)
      /\ \/ step.type = "request_clarification"
         \/ base # None /\ step.scope.documents = base.documents /\ step.scope.folders = base.folders

\* What the compiler adds.
LEMMA AddedIs ==
  ASSUME NEW X, NEW actions \in Seq(X), NEW i \in DOMAIN WithOutput(actions) \ DOMAIN actions
  PROVE  WithOutput(actions)[i] \in {Presentation("present_signals"), Presentation("present_documents")}
<1>1. DOMAIN actions = 1 .. Len(actions) /\ Len(actions) \in Nat
  OBVIOUS
<1>2. ASSUME NEW p, NEW j \in DOMAIN Append(actions, p) \ DOMAIN actions PROVE Append(actions, p)[j] = p
  <2>1. actions \in Seq(X \cup {p})
    OBVIOUS
  <2> QED BY <1>1, <2>1
<1> QED BY <1>2 DEF WithOutput

LEMMA StepsAre ==
  ASSUME NEW p \in Plans, PlanAccepted(p), NEW c, PlanCompiles(p, c), NEW i \in DOMAIN Compiled(p, c)
  PROVE  Compiled(p, c)[i].type \in ActionTypes /\ StepScoped(p, c, Compiled(p, c)[i])
<1> DEFINE A == WithOutput(p.actions)
           base == SourceScope(p.scope, c)
           steps_ == Compiled(p, c)
<1>1. CASE base = None
  <2> DEFINE step == [type |-> "request_clarification", scope |-> Everything, options |-> NoOptions]
  <2>1. steps_ = <<step>>
    BY <1>1 DEF Compiled
  <2>2. i = 1 /\ steps_[i] = step
    BY <2>1
  <2>3. step.type = "request_clarification" /\ step.scope = Everything
    OBVIOUS
  <2>4. IsScope(Everything)
    BY DEF IsScope, Everything
  <2> HIDE DEF step, steps_, base
  <2> QED BY <2>2, <2>3, <2>4 DEF StepScoped, ActionTypes, steps_
<1>2. CASE base # None
  <2> DEFINE options == StepOptions(p, A[i])
             step == [type |-> A[i].type, options |-> options, scope |-> TemporalScope(base, options, c.now)]
  <2>1. i \in DOMAIN A /\ steps_[i] = step
    BY <1>2 DEF Compiled
  <2>2. step.type = A[i].type /\ step.scope = TemporalScope(base, options, c.now)
    OBVIOUS
  <2>3. IsScope(base)
    BY <1>2, SourceScopeIs
  <2>4. p.actions \in Seq({p.actions[j] : j \in DOMAIN p.actions})
    BY PlansAssumption
  <2>5. A[i].type \in ActionTypes
    <3>1. CASE i \in DOMAIN p.actions
      <4>1. A[i] = p.actions[i] /\ ActionAccepted(p.actions[i])
        BY <2>4, <3>1, WithOutputIs DEF PlanAccepted
      <4> HIDE DEF A
      <4> QED BY <4>1 DEF ActionAccepted
    <3>2. CASE i \notin DOMAIN p.actions
      <4>1. A[i].type \in {"present_signals", "present_documents"}
        BY <2>1, <2>4, <3>2, WithOutputIs
      <4> HIDE DEF A
      <4> QED BY <4>1 DEF ActionTypes
    <3> QED BY <3>1, <3>2
  <2>6. TemporalAccepted(options)
    <3>1. CASE i \in DOMAIN p.actions
      <4>1. A[i] = p.actions[i] /\ TemporalAccepted(p.actions[i].options)
        BY <1>2, <2>4, <3>1, WithOutputIs DEF PlanCompiles
      <4> HIDE DEF A
      <4>2. Opt(options, "temporal", None) = Opt(p.actions[i].options, "temporal", None)
        BY <4>1 DEF StepOptions, Overlaid, Opt
      <4> QED BY <4>1, <4>2 DEF TemporalAccepted
    <3>2. CASE i \notin DOMAIN p.actions
      <4>1. A[i] \in {Presentation("present_signals"), Presentation("present_documents")}
        BY <2>1, <2>4, <3>2, AddedIs
      <4> HIDE DEF A
      <4>2. A[i].options = NoOptions /\ A[i].type # "plan_host_actions"
        BY <4>1 DEF Presentation
      <4>3. Opt(options, "temporal", None) = None
        BY <4>2 DEF StepOptions, NoOptions, Opt
      <4> QED BY <4>3 DEF TemporalAccepted
    <3> QED BY <3>1, <3>2
  <2> HIDE DEF options, base, step, steps_, A
  <2>7. IsScope(step.scope) /\ step.scope.documents = base.documents /\ step.scope.folders = base.folders
    BY <2>2, <2>3, <2>6, TemporalIs
  <2> QED BY <1>2, <2>1, <2>2, <2>5, <2>7 DEF StepScoped, steps_, base
<1> QED BY <1>1, <1>2

-----------------------------------------------------------------------------
(* What a search of a step records.                                        *)

\* The result is the output, if there is one.
Resulting(v, o, w) ==
  \A r \in v.result : (o.output = {} /\ r \in w.result) \/ \E value \in o.output : r.value = value

\* What a step writes is on top of what was there; its output is the result.
LEMMA StepWrites ==
  ASSUME NEW s, NEW w, IsWork(w), InOrder(w.task.actions), NEW step, NEW c, NEW text,
         NEW o, o = StepOutcome(s, w, step, c, text), NEW v, v = AfterStep(s, w, step, c, text)
  PROVE  /\ v.artifacts = Overlaid(o.artifacts, w.artifacts)
         /\ Resulting(v, o, w)
<1> DEFINE actions == HostActionsFor(w, step.options)
           u == IF step.type = "plan_host_actions" THEN Host!MergeActions(w, actions) ELSE w
<1>1. v = RecordOutcome(u, step.type, o)
  BY DEF AfterStep
<1>2. /\ DOMAIN u = {"artifacts", "result", "round", "task", "pending"}
      /\ u.artifacts = w.artifacts /\ u.result = w.result
  <2>1. CASE step.type = "plan_host_actions"
    <3>1. u = Host!MergeActions(w, actions)
      BY <2>1
    <3> DEFINE m == Host!MergeActions(w, actions)
    <3>2. AreActions(actions) /\ InOrder(actions)
      BY HostActionsForAre
    <3> HIDE DEF actions
    <3>3. IsWork(m) /\ m.artifacts = w.artifacts /\ m.result = w.result
      BY <3>2, MergedIs
    <3> HIDE DEF u, m
    <3> QED BY <3>1, <3>3 DEF m, IsWork
  <2>2. CASE step.type # "plan_host_actions"
    BY <2>2 DEF IsWork
  <2> QED BY <2>1, <2>2
<1> HIDE DEF u
<1>3. /\ v.artifacts = Overlaid(o.artifacts, u.artifacts)
      /\ v.result = IF o.output = {} THEN u.result
                    ELSE {[type |-> step.type, value |-> value] : value \in o.output}
  BY <1>1, <1>2 DEF RecordOutcome
<1> QED BY <1>2, <1>3 DEF Resulting

LEMMA SearchRecorded ==
  ASSUME NEW s, NEW w, IsWork(w), InOrder(w.task.actions), NEW step, step.type = "find_documents",
         NEW c, NEW text
  PROVE  /\ Written(AfterStep(s, w, step, c, text), "document_retrieval")
         /\ Read(AfterStep(s, w, step, c, text), "document_retrieval")
              = DocumentSearch(s, step.scope, Opt(step.options, "require_comprehensive_search", FALSE))
<1> DEFINE o == StepOutcome(s, w, step, c, text)
           v == AfterStep(s, w, step, c, text)
           found == DocumentSearch(s, step.scope, Opt(step.options, "require_comprehensive_search", FALSE))
<1>1. o = FindDocuments(s, step)
  BY DEF StepOutcome, Generating
<1>2. "document_retrieval" \in DOMAIN o.artifacts /\ o.artifacts["document_retrieval"] = found
  <2> DEFINE docs == Documents(found)
  <2>1. o.artifacts = [document_retrieval |-> found, candidate_documents |-> docs]
    BY <1>1 DEF FindDocuments, Found, Outcome
  <2> HIDE DEF o, found, docs
  <2> QED BY <2>1
<1>3. v.artifacts = Overlaid(o.artifacts, w.artifacts)
  BY StepWrites
<1> HIDE DEF o, v, found
<1>4. Written(v, "document_retrieval") /\ Read(v, "document_retrieval") = found
  BY <1>2, <1>3 DEF Overlaid, Written, Read, Opt
<1> QED BY <1>4 DEF v, found

\* A step that searches for documents, and what it records.
LEMMA SearchRun ==
  StepsInv /\ [TaskNext]_taskVars /\ Runs({"find_documents"}) /\ next' # next =>
    /\ IsStore(store) /\ StepScoped(plan, context, steps[next]) /\ steps[next].type = "find_documents"
    /\ Written(work', "document_retrieval")
    /\ Read(work', "document_retrieval")
         = DocumentSearch(store, steps[next].scope,
                          Opt(steps[next].options, "require_comprehensive_search", FALSE))
<1> DEFINE step == steps[next]
           v == work'
           found == DocumentSearch(store, step.scope, Opt(step.options, "require_comprehensive_search", FALSE))
<1> SUFFICES ASSUME StepsInv, [TaskNext]_taskVars, Runs({"find_documents"}), next' # next
             PROVE  /\ IsStore(store) /\ StepScoped(plan, context, step) /\ step.type = "find_documents"
                    /\ Written(v, "document_retrieval") /\ Read(v, "document_retrieval") = found
  OBVIOUS
<1>1. PICK text : ExecuteStep(text)
  BY DEF TaskNext, Prepare, FailStep, ChangeStores, taskVars
<1>2. v = AfterStep(store, work, step, context, text) /\ step.type = "find_documents"
  BY <1>1 DEF ExecuteStep, Runs
<1>3. /\ plan \in Plans /\ PlanAccepted(plan) /\ PlanCompiles(plan, context) /\ steps = Compiled(plan, context)
      /\ next \in 1 .. Len(steps) + 1 /\ next # Len(steps) + 1
  BY DEF StepsInv, Compiles, Runs
<1>4. DOMAIN steps = 1 .. Len(steps) /\ Len(steps) \in Nat
  BY <1>3, CompiledIs
<1>5. next \in DOMAIN steps
  BY <1>3, <1>4
<1>6. StepScoped(plan, context, step)
  BY <1>3, <1>5, StepsAre
<1>7. IsWork(work) /\ InOrder(work.task.actions) /\ IsStore(store)
  BY StoresAssumption DEF StepsInv
<1>8. found = DocumentSearch(store, step.scope, Opt(step.options, "require_comprehensive_search", FALSE))
  OBVIOUS
<1> DEFINE after == AfterStep(store, work, step, context, text)
<1> HIDE DEF v, step, found
<1>9. Written(after, "document_retrieval") /\ Read(after, "document_retrieval") = found
  BY <1>2, <1>7, <1>8, SearchRecorded
<1>10. v = after
  BY <1>2
<1> HIDE DEF after
<1> QED BY <1>2, <1>6, <1>7, <1>9, <1>10

(***************************************************************************)
(* A search in the scope of the current document or folder finds chunks of *)
(* that document, or of documents that Neo4j has in that folder, only: the *)
(* compiled steps keep the source of the plan, and neither candidates nor  *)
(* restrictions in time take it back (relationship_scope_resolver.py).     *)
(***************************************************************************)
THEOREM ScopeKeptHolds == TaskSpec => ScopeKept
<1> DEFINE Kept_ ==
      \A n \in DOMAIN ReadList(work', "document_retrieval") :
        LET d == Chunked(Read(work', "document_retrieval")[n])
        IN  Runs({"find_documents"}) /\ next' # next =>
              /\ plan.scope = "current_document" => d = context.document
              /\ plan.scope = "current_folder" =>
                   <<d, context.folder>> \in store.inFolder /\ context.folder \notin store.deleted
<1>1. StepsInv /\ [TaskNext]_taskVars => Kept_
  <2> SUFFICES ASSUME StepsInv, [TaskNext]_taskVars, Runs({"find_documents"}), next' # next,
                      NEW n \in DOMAIN ReadList(work', "document_retrieval")
               PROVE  LET d == Chunked(Read(work', "document_retrieval")[n])
                      IN  /\ plan.scope = "current_document" => d = context.document
                          /\ plan.scope = "current_folder" =>
                               <<d, context.folder>> \in store.inFolder /\ context.folder \notin store.deleted
    OBVIOUS
  <2> DEFINE step == steps[next]
             base == SourceScope(plan.scope, context)
             comprehensive == Opt(step.options, "require_comprehensive_search", FALSE)
             found == DocumentSearch(store, step.scope, comprehensive)
  <2>1. /\ IsStore(store) /\ StepScoped(plan, context, step) /\ step.type = "find_documents"
        /\ Written(work', "document_retrieval") /\ Read(work', "document_retrieval") = found
    BY SearchRun
  <2> HIDE DEF step
  <2>2. /\ IsScope(step.scope) /\ base # None
        /\ step.scope.documents = base.documents /\ step.scope.folders = base.folders
    BY <2>1 DEF StepScoped
  <2>3. /\ plan.scope = "current_document" => base.documents = {context.document} /\ base.folders = {}
        /\ plan.scope = "current_folder" => base.documents = {} /\ base.folders = {context.folder}
    BY <2>2, SourceScopeIs
  <2> HIDE DEF base
  <2>4. n \in DOMAIN found
    BY <2>1 DEF ReadList, Written, Read, Opt
  <2> DEFINE d == Chunked(found[n])
  <2>5. /\ \A x : step.scope.documents = {x} /\ step.scope.folders = {} => d = x
        /\ \A f : step.scope.documents = {} /\ step.scope.folders = {f}
             => <<d, f>> \in store.inFolder /\ f \notin store.deleted
    <3> HIDE DEF comprehensive
    <3> QED BY <2>1, <2>2, <2>4, FoundInScope
  <2>6. Chunked(Read(work', "document_retrieval")[n]) = d
    BY <2>1
  <2> HIDE DEF found, comprehensive, d
  <2>7. plan.scope = "current_document" => d = context.document
    BY <2>2, <2>3, <2>5
  <2>8. plan.scope = "current_folder" => <<d, context.folder>> \in store.inFolder /\ context.folder \notin store.deleted
    BY <2>2, <2>3, <2>5
  <2> QED BY <2>6, <2>7, <2>8
<1>2. StepsInv /\ [TaskNext]_taskVars => [Kept_]_taskVars
  BY <1>1
<1> QED BY <1>2, StepsInvHolds, PTL DEF ScopeKept, TaskSpec

(***************************************************************************)
(* No folder is recommended for a document that is already in it: those of *)
(* the graph, or else of the membership tables, and the current one are    *)
(* left out of the search (folder_recommendation_source_resolver.py), and a*)
(* search finds none that are left out.                                    *)
(***************************************************************************)
THEOREM RecommendsElsewhereHolds == TaskSpec => RecommendsElsewhere
<1> DEFINE Elsewhere ==
      Runs({"recommend_folder"}) /\ next' # next /\ context.document # None =>
        LET d == SourceDocument(steps[next], context)
            known == FoldersOf(store, d)
        IN  \A n \in DOMAIN Read(work', "folder_recommendation") :
              LET f == Read(work', "folder_recommendation")[n].of
              IN  /\ f # context.folder
                  /\ f \notin known
                  /\ known = {} => <<context.document, f>> \notin store.relations
<1>1. StepsInv /\ [TaskNext]_taskVars => Elsewhere
  <2> DEFINE step == steps[next]
             matches == FolderMatches(store, step, context)
             items == FolderItems(matches)
             excluded == ExcludedFolders(store, step, context)
             F == ScoredFolders(store) \ excluded
  <2> SUFFICES ASSUME StepsInv, [TaskNext]_taskVars, Runs({"recommend_folder"}), next' # next,
                      context.document # None, NEW n \in DOMAIN Read(work', "folder_recommendation")
               PROVE  LET f == Read(work', "folder_recommendation")[n].of
                      IN  /\ f # context.folder
                          /\ f \notin FoldersOf(store, SourceDocument(step, context))
                          /\ FoldersOf(store, SourceDocument(step, context)) = {}
                               => <<context.document, f>> \notin store.relations
    OBVIOUS
  <2>1. PICK text : ExecuteStep(text)
    BY DEF TaskNext, Prepare, FailStep, ChangeStores, taskVars
  <2>2. work' = AfterStep(store, work, step, context, text) /\ step.type = "recommend_folder"
    BY <2>1 DEF ExecuteStep, Runs
  <2>3. IsWork(work) /\ InOrder(work.task.actions) /\ IsStore(store)
    BY StoresAssumption DEF StepsInv
  <2> HIDE DEF step
  <2>4. Read(work', "folder_recommendation") = items
    <3> DEFINE o == StepOutcome(store, work, step, context, text)
               v == AfterStep(store, work, step, context, text)
    <3>1. o = Result("folder_recommendation", items)
      BY <2>2 DEF StepOutcome, Generating, RecommendFolder
    <3> HIDE DEF items
    <3>2. "folder_recommendation" \in DOMAIN o.artifacts /\ o.artifacts["folder_recommendation"] = items
      BY <3>1 DEF Result, Outcome
    <3>3. v.artifacts = Overlaid(o.artifacts, work.artifacts)
      BY <2>3, StepWrites
    <3> HIDE DEF o
    <3>4. work'.artifacts = Overlaid(o.artifacts, work.artifacts)
      BY <2>2, <3>3
    <3> QED BY <3>2, <3>4 DEF Overlaid, Read, Opt
  <2>5. matches \in Hits(F)
    <3>1. IsScope(Everything)
      BY DEF IsScope, Everything
    <3>2. matches \in {<<>>, FolderSearch(store, Everything, excluded)}
      BY DEF FolderMatches
    <3>3. <<>> \in Hits(F)
      BY DEF Hits
    <3> HIDE DEF excluded, matches
    <3>4. FolderSearch(store, Everything, excluded) \in Hits(F)
      BY <2>3, <3>1, FolderSearchIs
    <3> QED BY <3>2, <3>3, <3>4
  <2> DEFINE f == items[n].of
  <2>6. DOMAIN items = DOMAIN matches /\ \A m \in DOMAIN matches : items[m].of = matches[m].of
    BY DEF FolderItems
  <2> HIDE DEF matches, items, excluded
  <2>7. f \in F
    BY <2>4, <2>5, <2>6, HitsAre
  <2> HIDE DEF f
  <2>8. /\ f # context.folder /\ f \notin FoldersOf(store, SourceDocument(step, context))
        /\ FoldersOf(store, SourceDocument(step, context)) = {} => <<context.document, f>> \notin store.relations
    BY <2>3, <2>7, ExcludedAre DEF excluded
  <2> QED BY <2>4, <2>8 DEF f, step
<1>2. StepsInv /\ [TaskNext]_taskVars => [Elsewhere]_taskVars
  BY <1>1
<1> QED BY <1>2, StepsInvHolds, PTL DEF RecommendsElsewhere, TaskSpec

-----------------------------------------------------------------------------
(* The order of hits.                                                      *)

\* x is ahead of y, with a score that is not below its.
Leads(items, x, y) ==
  \E i, j \in DOMAIN items : i < j /\ items[i].of = x /\ items[j].of = y /\ items[i].score >= items[j].score

LEMMA DescendingKeeps ==
  ASSUME NEW C, NEW items \in Hits(C), NEW x, NEW y, Leads(items, x, y)
  PROVE  Leads(Descending(items), x, y)
<1> DEFINE keys == [n \in DOMAIN items |-> -items[n].score]
           new == Descending(items)
<1>1. /\ DOMAIN items = 1 .. Len(items) /\ Len(items) \in Nat
      /\ \A n \in DOMAIN items : items[n].score \in Int /\ keys[n] = -items[n].score
  BY HitsAre
<1>2. PICK order : /\ PutsByKey(order, DOMAIN items, keys)
                   /\ \A n \in DOMAIN items : new[n] = items[order[n]]
  BY <1>1, DescendingIs DEF Hits
<1>3. DOMAIN new = DOMAIN items
  BY <1>1, DescendingIs DEF Hits, Reordered
<1> HIDE DEF keys, new
<1>4. PICK i \in DOMAIN items, j \in DOMAIN items :
        i < j /\ items[i].of = x /\ items[j].of = y /\ items[i].score >= items[j].score
  BY DEF Leads
<1>5. PICK m \in DOMAIN items, n \in DOMAIN items : order[m] = i /\ order[n] = j
  BY <1>2 DEF PutsByKey
<1>6. m < n
  <2>1. /\ i \in Nat /\ j \in Nat /\ m \in Nat /\ n \in Nat
        /\ items[i].score \in Int /\ items[j].score \in Int /\ keys[i] <= keys[j] /\ keys[i] \in Int /\ keys[j] \in Int
    BY <1>1, <1>4
  <2>2. m # n
    BY <1>4, <1>5, <2>1
  <2>3. n < m => keys[j] < keys[i] \/ (keys[j] = keys[i] /\ j < i)
    BY <1>2, <1>5 DEF PutsByKey
  <2> QED BY <1>4, <2>1, <2>2, <2>3
<1>7. new[m] = items[i] /\ new[n] = items[j]
  BY <1>2, <1>5
<1> QED BY <1>3, <1>4, <1>6, <1>7 DEF Leads, new

\* A lower rank has no higher reciprocal.
LEMMA ReciprocalFalls ==
  ASSUME NEW m \in Nat, NEW n \in Nat, m <= n
  PROVE  1000000 \div (60 + m) >= 1000000 \div (60 + n)
<1> DEFINE a == 60 + m
           b == 60 + n
           p == 1000000 \div a
           q == 1000000 \div b
<1>1. a \in Nat /\ b \in Nat /\ 0 < a /\ a <= b
  OBVIOUS
<1> HIDE DEF a, b
<1>2. p \in Int /\ p * a <= 1000000 /\ 1000000 < (p + 1) * a
  BY <1>1
<1>3. q \in Int /\ q * b <= 1000000 /\ q >= 0
  BY <1>1
<1> HIDE DEF p, q
<1>4. q * a <= q * b
  BY <1>1, <1>3
<1>5. q * a < (p + 1) * a
  BY <1>1, <1>2, <1>3, <1>4
<1>6. q < p + 1
  BY <1>1, <1>2, <1>3, <1>5
<1> QED BY <1>2, <1>3, <1>6 DEF p, q, a, b

Ranked(items, x) == SumSet(Reciprocals(items, x))

\* Where y is, x is before it.
LEMMA NotBehind ==
  ASSUME NEW C, NEW items \in Hits(C), NEW x, NEW y, x # y, ~Precedes(items, y, x),
         NEW j \in DOMAIN items, items[j].of = y
  PROVE  \E i \in DOMAIN items : i < j /\ items[i].of = x
<1>1. DOMAIN items = 1 .. Len(items) /\ Len(items) \in Nat
  BY HitsAre
<1>2. PICK i \in 1 .. j : items[i].of = x
  BY DEF Precedes
<1>3. i \in DOMAIN items /\ i # j /\ i < j
  BY <1>1, <1>2
<1> QED BY <1>2, <1>3

LEMMA RankedFalls ==
  ASSUME NEW C, NEW items \in Hits(C), Once(items), NEW x, NEW y, x # y, ~Precedes(items, y, x)
  PROVE  Ranked(items, x) \in Int /\ Ranked(items, y) \in Int /\ Ranked(items, x) >= Ranked(items, y)
<1>1. DOMAIN items = 1 .. Len(items) /\ Len(items) \in Nat
  BY HitsAre
<1>2. ASSUME NEW z
      PROVE  /\ Ranked(items, z) \in Int
             /\ (\A k \in DOMAIN items : items[k].of # z) => Ranked(items, z) = 0
             /\ \A k \in DOMAIN items : items[k].of = z => Ranked(items, z) = 1000000 \div (60 + k)
  BY ReciprocalsAre DEF Ranked
<1>3. \A k \in Nat : 1000000 \div (60 + k) >= 0
  OBVIOUS
<1>4. Ranked(items, x) >= 0
  <2>1. CASE \A k \in DOMAIN items : items[k].of # x
    BY <1>2, <2>1
  <2>2. CASE \E k \in DOMAIN items : items[k].of = x
    <3>1. PICK k \in DOMAIN items : items[k].of = x
      BY <2>2
    <3>2. k \in Nat /\ Ranked(items, x) = 1000000 \div (60 + k)
      BY <1>1, <1>2, <3>1
    <3> QED BY <1>3, <3>2
  <2> QED BY <2>1, <2>2
<1>5. CASE \A k \in DOMAIN items : items[k].of # y
  BY <1>2, <1>4, <1>5
<1>6. CASE \E k \in DOMAIN items : items[k].of = y
  <2>1. PICK j \in DOMAIN items : items[j].of = y
    BY <1>6
  <2>2. PICK i \in DOMAIN items : i < j /\ items[i].of = x
    BY <2>1, NotBehind
  <2>3. i \in Nat /\ j \in Nat /\ i <= j
    BY <1>1, <2>1, <2>2
  <2>4. 1000000 \div (60 + i) >= 1000000 \div (60 + j)
    BY <2>3, ReciprocalFalls
  <2>5. Ranked(items, x) = 1000000 \div (60 + i) /\ Ranked(items, y) = 1000000 \div (60 + j)
    BY <1>2, <2>1, <2>2
  <2> QED BY <1>2, <2>4, <2>5
<1> QED BY <1>2, <1>5, <1>6

\* Of two lists joined, the first of x comes before the first of y.
LEMMA BothKeep ==
  ASSUME NEW C, NEW a \in Hits(C), NEW b \in Hits(C), NEW x, NEW y, x # y,
         ~Precedes(a, y, x), ~Precedes(b, y, x), NEW q \in DOMAIN Both(a, b), Both(a, b)[q].of = y
  PROVE  \E p \in DOMAIN Both(a, b) : p < q /\ Both(a, b)[p].of = x
<1> DEFINE both == a \o b
           keys == [n \in DOMAIN both |-> both[n].of]
           firsts == Both(a, b)
<1>1. /\ both \in Hits(C) /\ DOMAIN both = 1 .. Len(both) /\ Len(both) \in Nat
      /\ DOMAIN a = 1 .. Len(a) /\ Len(a) \in Nat /\ DOMAIN b = 1 .. Len(b) /\ Len(b) \in Nat
      /\ Len(both) = Len(a) + Len(b)
  <2>1. both \in Hits(C)
    BY JoinedHits
  <2>2. DOMAIN both = 1 .. Len(both) /\ Len(both) \in Nat
    BY <2>1, HitsAre
  <2>3. Len(both) = Len(a) + Len(b)
    BY DEF Hits
  <2> HIDE DEF both
  <2> QED BY <2>1, <2>2, <2>3, HitsAre
<1>2. /\ \A i \in DOMAIN a : both[i] = a[i]
      /\ \A i \in DOMAIN b : both[Len(a) + i] = b[i]
  BY <1>1 DEF Hits
<1>3. PICK place : FirstPlaces(place, firsts, both, keys)
  BY BothAre
<1>4. DOMAIN firsts = 1 .. Len(firsts) /\ Len(firsts) \in Nat
  BY BothAre, HitsAre
<1>5. \A n \in DOMAIN both : keys[n] = both[n].of
  OBVIOUS
<1> HIDE DEF both, keys, firsts
<1>6. \A n \in DOMAIN firsts : /\ place[n] \in DOMAIN both /\ place[n] \in Nat /\ firsts[n] = both[place[n]]
                               /\ \A j \in 1 .. place[n] - 1 : keys[j] # keys[place[n]]
  BY <1>1, <1>3 DEF FirstPlaces
<1>7. q \in DOMAIN firsts /\ place[q] \in DOMAIN both /\ both[place[q]].of = y
  BY <1>6 DEF firsts
<1>8. \E i \in DOMAIN both : i < place[q] /\ both[i].of = x
  <2>1. CASE place[q] \in DOMAIN a
    <3>1. a[place[q]].of = y
      BY <1>2, <1>7, <2>1
    <3>2. PICK i \in DOMAIN a : i < place[q] /\ a[i].of = x
      BY <2>1, <3>1, NotBehind
    <3>3. i \in DOMAIN both /\ both[i].of = x
      BY <1>1, <1>2, <3>2
    <3> QED BY <3>2, <3>3
  <2>2. CASE place[q] \notin DOMAIN a
    <3> DEFINE j == place[q] - Len(a)
    <3>1. j \in DOMAIN b /\ place[q] = Len(a) + j
      BY <1>1, <1>7, <2>2
    <3> HIDE DEF j
    <3>2. b[j].of = y
      BY <1>2, <1>7, <3>1
    <3>3. PICK i \in DOMAIN b : i < j /\ b[i].of = x
      BY <3>1, <3>2, NotBehind
    <3>4. Len(a) + i \in DOMAIN both /\ Len(a) + i < place[q]
      BY <1>1, <3>1, <3>3
    <3>5. both[Len(a) + i].of = x
      BY <1>2, <3>3
    <3> QED BY <3>4, <3>5
  <2> QED BY <2>1, <2>2
<1>9. PICK i \in DOMAIN both : i < place[q] /\ both[i].of = x
  BY <1>8
<1>10. PICK p \in DOMAIN firsts : keys[place[p]] = keys[i]
  BY <1>3 DEF FirstPlaces
<1>11. keys[place[p]] = x /\ firsts[p].of = x
  BY <1>5, <1>6, <1>9, <1>10
<1>12. place[p] <= i
  <2>1. place[p] \in Nat /\ i \in Nat /\ i >= 1
    BY <1>1, <1>6
  <2>2. i \notin 1 .. place[p] - 1
    BY <1>6, <1>10
  <2> QED BY <2>1, <2>2
<1>13. p < q
  <2>1. p \in Nat /\ q \in Nat /\ place[p] \in Nat /\ place[q] \in Nat /\ i \in Nat
    BY <1>1, <1>4, <1>6, <1>7
  <2>2. place[p] < place[q]
    BY <1>9, <1>12, <2>1
  <2>3. q < p => place[q] < place[p]
    BY <1>3, <1>7 DEF FirstPlaces
  <2>4. p # q
    BY <2>1, <2>2
  <2> QED BY <2>1, <2>2, <2>3, <2>4
<1> QED BY <1>11, <1>13 DEF firsts

LEMMA HybridLeads ==
  ASSUME NEW C, NEW dense \in Hits(C), NEW keyword \in Hits(C), Once(dense), Once(keyword),
         Falls(dense), Falls(keyword), NEW x, NEW y, x # y,
         ~Precedes(dense, y, x), ~Precedes(keyword, y, x),
         NEW h \in DOMAIN Hybrid(dense, keyword), Hybrid(dense, keyword)[h].of = y
  PROVE  Leads(Hybrid(dense, keyword), x, y)
<1> DEFINE hybrid == Hybrid(dense, keyword)
           all == Both(dense, keyword)
           scored == Scored(dense, keyword)
<1>1. ASSUME NEW items \in Hits(C), Falls(items), ~Precedes(items, y, x), hybrid = Millionths(items)
      PROVE  Leads(hybrid, x, y)
  <2>1. /\ DOMAIN items = 1 .. Len(items) /\ Len(items) \in Nat
        /\ \A k \in DOMAIN items : items[k].score \in Int /\ items[k] = [of |-> items[k].of, score |-> items[k].score]
    BY HitsAre
  <2>2. DOMAIN hybrid = DOMAIN items
    BY <1>1 DEF Millionths
  <2>3. ASSUME NEW k \in DOMAIN items
        PROVE  hybrid[k].of = items[k].of /\ hybrid[k].score = items[k].score * 10000
    <3>1. hybrid[k] = [items[k] EXCEPT !.score = items[k].score * 10000]
      BY <1>1 DEF Millionths
    <3> DEFINE r == [of |-> items[k].of, score |-> items[k].score]
               v == items[k].score * 10000
    <3>2. items[k] = r
      BY <2>1
    <3> HIDE DEF v
    <3>3. [r EXCEPT !.score = v].of = items[k].of /\ [r EXCEPT !.score = v].score = v
      OBVIOUS
    <3> HIDE DEF r, hybrid
    <3> QED BY <3>1, <3>2, <3>3 DEF v
  <2> HIDE DEF hybrid
  <2>4. h \in DOMAIN items /\ items[h].of = y
    BY <2>2, <2>3 DEF hybrid
  <2>5. PICK i \in DOMAIN items : i < h /\ items[i].of = x
    BY <1>1, <2>4, NotBehind
  <2>6. items[i].score >= items[h].score
    BY <1>1, <2>4, <2>5 DEF Falls
  <2>7. items[i].score * 10000 >= items[h].score * 10000
    BY <2>1, <2>4, <2>6
  <2>8. hybrid[i].of = x /\ hybrid[h].of = y /\ hybrid[i].score >= hybrid[h].score
    BY <2>3, <2>4, <2>5, <2>7
  <2> QED BY <2>2, <2>4, <2>5, <2>8 DEF Leads
<1>2. CASE keyword = <<>>
  <2>1. hybrid = Millionths(dense)
    BY <1>2 DEF Hybrid, Millionths
  <2> HIDE DEF hybrid
  <2> QED BY <1>1, <2>1 DEF hybrid
<1>3. CASE keyword # <<>> /\ dense = <<>>
  <2>1. hybrid = Millionths(keyword)
    BY <1>3 DEF Hybrid, Millionths
  <2> HIDE DEF hybrid
  <2> QED BY <1>1, <2>1 DEF hybrid
<1>4. CASE keyword # <<>> /\ dense # <<>>
  <2>1. hybrid = Descending(scored)
    BY <1>4, RankedHybrid
  <2>2. /\ DOMAIN scored = DOMAIN all /\ scored \in Hits(C)
        /\ \A k \in DOMAIN all : /\ scored[k].of = all[k].of
                                 /\ scored[k].score = RankScore(dense, keyword, all[k].of)
    BY ScoredAre
  <2> HIDE DEF all, hybrid, scored
  <2>3. \E q \in DOMAIN all : all[q].of = y
    <3>1. Reordered(hybrid, scored)
      <4>1. \A k \in DOMAIN scored : scored[k].score \in Int
        BY <2>2, HitsAre
      <4>2. Reordered(Descending(scored), scored)
        BY <2>2, <4>1, DescendingIs DEF Hits
      <4> QED BY <2>1, <4>2
    <3>2. h \in DOMAIN hybrid /\ hybrid[h].of = y
      BY DEF hybrid
    <3>3. \E q \in DOMAIN scored : hybrid[h] = scored[q]
      BY <3>1, <3>2 DEF Reordered
    <3> QED BY <2>2, <3>2, <3>3
  <2>4. PICK q \in DOMAIN all : all[q].of = y
    BY <2>3
  <2>5. PICK p \in DOMAIN all : p < q /\ all[p].of = x
    BY <2>4, BothKeep DEF all
  <2>6. scored[p].score >= scored[q].score
    <3>1. /\ Ranked(dense, x) \in Int /\ Ranked(dense, y) \in Int /\ Ranked(dense, x) >= Ranked(dense, y)
          /\ Ranked(keyword, x) \in Int /\ Ranked(keyword, y) \in Int /\ Ranked(keyword, x) >= Ranked(keyword, y)
      BY RankedFalls
    <3>2. /\ scored[p].score = Ranked(dense, x) + Ranked(keyword, x)
          /\ scored[q].score = Ranked(dense, y) + Ranked(keyword, y)
      BY <2>2, <2>4, <2>5, RankScoreIs DEF Ranked
    <3> QED BY <3>1, <3>2
  <2>7. Leads(scored, x, y)
    BY <2>2, <2>4, <2>5, <2>6 DEF Leads
  <2>8. Leads(Descending(scored), x, y)
    BY <2>2, <2>7, DescendingKeeps
  <2> QED BY <2>1, <2>8 DEF hybrid
<1> QED BY <1>2, <1>3, <1>4

LEMMA BoostedKeeps ==
  ASSUME NEW C, NEW items \in Hits(C), Once(items),
         NEW candidates, \A d \in DOMAIN candidates : candidates[d] \in Int,
         NEW x, NEW y, Document(x) = Document(y), Leads(items, x, y)
  PROVE  Leads(Boosted(items, candidates), x, y)
<1> DEFINE raised == Raised(items, candidates)
<1>1. Boosted(items, candidates) \in {items, Descending(raised)}
  BY BoostedIs
<1>2. /\ DOMAIN raised = DOMAIN items /\ raised \in Hits(C) /\ \A d : Score(candidates, d) \in Int
      /\ \A n \in DOMAIN items :
           /\ raised[n].of = items[n].of
           /\ raised[n].score = items[n].score + 100 * Score(candidates, Document(items[n].of))
  BY RaisedAre
<1> HIDE DEF raised
<1>3. PICK i \in DOMAIN items, j \in DOMAIN items :
        i < j /\ items[i].of = x /\ items[j].of = y /\ items[i].score >= items[j].score
  BY DEF Leads
<1>4. raised[i].score >= raised[j].score
  <2> DEFINE q == Score(candidates, Document(x))
  <2>1. q \in Int /\ items[i].score \in Int /\ items[j].score \in Int
    BY <1>2, HitsAre
  <2>2. raised[i].score = items[i].score + 100 * q /\ raised[j].score = items[j].score + 100 * q
    BY <1>2, <1>3
  <2> HIDE DEF q
  <2> QED BY <1>3, <2>1, <2>2
<1>5. Leads(raised, x, y)
  BY <1>2, <1>3, <1>4 DEF Leads
<1>6. Leads(Descending(raised), x, y)
  BY <1>2, <1>5, DescendingKeeps
<1> QED BY <1>1, <1>6

LEMMA TakenFrom ==
  ASSUME NEW C, NEW items \in Hits(C), NEW k \in Nat
  PROVE  /\ DOMAIN Take(items, k) = {i \in DOMAIN items : i <= k}
         /\ \A i \in DOMAIN Take(items, k) : Take(items, k)[i] = items[i]
<1> DEFINE H == [of : C, score : Int]
<1>1. items \in Seq(H)
  BY DEF Hits
<1> HIDE DEF H
<1> QED BY <1>1, TakeIs

\* What is ahead of something taken is taken with it.
LEMMA TakenLeads ==
  ASSUME NEW C, NEW items \in Hits(C), Once(items), NEW x, NEW y, x # y, Leads(items, x, y), NEW k \in Nat,
         NEW n \in DOMAIN Take(items, k), Take(items, k)[n].of = y
  PROVE  Precedes(Take(items, k), x, y)
<1> DEFINE taken == Take(items, k)
<1>1. /\ DOMAIN taken = {i \in DOMAIN items : i <= k}
      /\ \A i \in DOMAIN taken : taken[i] = items[i]
  BY TakenFrom
<1>2. n \in DOMAIN taken /\ taken[n].of = y
  OBVIOUS
<1> HIDE DEF taken
<1>3. DOMAIN items = 1 .. Len(items) /\ Len(items) \in Nat
  BY HitsAre
<1>4. PICK i \in DOMAIN items, j \in DOMAIN items : i < j /\ items[i].of = x /\ items[j].of = y
  BY DEF Leads
<1>5. j = n /\ j <= k
  BY <1>1, <1>2, <1>4 DEF Once
<1>6. i \in DOMAIN taken /\ taken[i].of = x
  BY <1>1, <1>3, <1>4, <1>5
<1>7. \A m \in 1 .. i : taken[m].of # y
  <2> SUFFICES ASSUME NEW m \in 1 .. i, taken[m].of = y PROVE FALSE
    OBVIOUS
  <2>1. m \in DOMAIN items /\ m <= k /\ m < j
    BY <1>3, <1>4, <1>5
  <2>2. items[m].of = y
    BY <1>1, <2>1
  <2> QED BY <1>3, <1>4, <2>1, <2>2 DEF Once
<1> QED BY <1>6, <1>7 DEF Precedes, taken

LEMMA AheadIs ==
  ASSUME NEW C, NEW items \in Hits(C), NEW x, NEW y, Precedes(items, x, y)
  PROVE  x # y /\ ~Precedes(items, y, x)
<1>1. DOMAIN items = 1 .. Len(items) /\ Len(items) \in Nat
  BY HitsAre
<1>2. PICK i \in DOMAIN items : items[i].of = x /\ \A j \in 1 .. i : items[j].of # y
  BY DEF Precedes
<1>3. i \in Nat /\ i \in 1 .. i
  BY <1>1
<1>4. x # y
  BY <1>2, <1>3
<1>5. ASSUME NEW k \in DOMAIN items, items[k].of = y, \A j \in 1 .. k : items[j].of # x
      PROVE  FALSE
  <2>1. k \in Nat /\ k >= 1 /\ i >= 1
    BY <1>1
  <2>2. k \in 1 .. i \/ i \in 1 .. k
    BY <1>3, <2>1
  <2> QED BY <1>2, <1>5, <2>2
<1> QED BY <1>4, <1>5 DEF Precedes

\* Of two chunks of a document, the better is the first in the answer.
LEMMA SearchKeepsOrder ==
  ASSUME NEW s, IsStore(s), NEW scope, IsScope(scope), scope.sort = None,
         NEW candidates, \A d \in DOMAIN candidates : candidates[d] \in Int,
         NEW lists, lists = ChunkLists(s, CandidateScope(scope, candidates), FALSE),
         NEW results, results = SearchChunks(s, scope, candidates, FALSE),
         NEW n \in DOMAIN results, NEW x, Document(x) = Chunked(results[n]),
         \/ Precedes(lists.dense, x, results[n].of) /\ ~Precedes(lists.keyword, results[n].of, x)
         \/ Precedes(lists.keyword, x, results[n].of) /\ ~Precedes(lists.dense, results[n].of, x)
  PROVE  Precedes(results, x, results[n].of)
<1> DEFINE inside == CandidateScope(scope, candidates)
           C == Findable(s, inside)
           dense == DenseChunks(s, inside, TopK)
           keyword == KeywordChunks(s, inside)
           hybrid == Hybrid(dense, keyword)
           boosted == Boosted(hybrid, candidates)
           sorted == ChunksByTime(s, boosted, scope)
           y == results[n].of
<1>1. lists.dense = dense /\ lists.keyword = keyword
  BY DEF ChunkLists
<1>2. results = Take(sorted, TopK)
  BY DEF SearchChunks, ChunkLists, Answered
<1>3. IsScope(inside) /\ C \subseteq ChunkIds(s) /\ inside.sort = None
  BY ScopeOfCandidates, FindableIs
<1>4. NearChunks(s, inside) \subseteq C
      /\ WordedChunks(s, inside) \cup ChunksOf(s, TitledDocuments(s, inside)) \subseteq C
  BY DEF Findable
<1> HIDE DEF inside, C
<1>5. dense \in Hits(C) /\ Once(dense) /\ Falls(dense)
  <2>1. dense \in Hits(NearChunks(s, inside)) /\ Once(dense) /\ Falls(dense)
    BY <1>3, TopKAssumption, DenseIs
  <2> HIDE DEF dense
  <2> QED BY <1>4, <2>1, HitsGrow
<1>6. keyword \in Hits(C) /\ Once(keyword) /\ Falls(keyword)
  <2> DEFINE D == WordedChunks(s, inside) \cup ChunksOf(s, TitledDocuments(s, inside))
  <2>1. keyword \in Hits(D) /\ Once(keyword) /\ Falls(keyword)
    BY KeywordIs
  <2> HIDE DEF keyword
  <2>2. D \subseteq C
    BY <1>4
  <2> HIDE DEF D
  <2> QED BY <2>1, <2>2, HitsGrow
<1> HIDE DEF dense, keyword
<1>7. hybrid \in Hits(C) /\ Once(hybrid)
  BY <1>5, <1>6, HybridIs
<1>8. /\ boosted \in Hits(C) /\ Once(boosted)
      /\ \A m \in DOMAIN boosted : \E h \in DOMAIN hybrid : hybrid[h].of = boosted[m].of
  <2> HIDE DEF hybrid
  <2> QED BY <1>7, BoostedIs
<1>9. sorted = boosted
  <2> HIDE DEF boosted
  <2> QED BY <1>3, <1>8, ChunksByTimeIs
<1> HIDE DEF sorted
<1>10. results = Take(boosted, TopK)
  BY <1>2, <1>9
<1>11. n \in DOMAIN boosted /\ boosted[n].of = y
  <2> DEFINE taken == Take(boosted, TopK)
  <2>1. TopK \in Nat
    BY TopKAssumption
  <2> HIDE DEF boosted
  <2>2. DOMAIN taken \subseteq DOMAIN boosted /\ \A i \in DOMAIN taken : taken[i] = boosted[i]
    BY <1>8, <2>1, TakenFrom
  <2> HIDE DEF taken
  <2>3. results = taken /\ n \in DOMAIN taken
    BY <1>10 DEF taken
  <2> QED BY <2>2, <2>3
<1>12. PICK h \in DOMAIN hybrid : hybrid[h].of = y
  BY <1>8, <1>11
<1> HIDE DEF y
<1>13. x # y /\ ~Precedes(dense, y, x) /\ ~Precedes(keyword, y, x)
  BY <1>1, <1>5, <1>6, AheadIs DEF y
<1>14. Document(x) = Document(y)
  BY DEF y, Chunked
<1>15. Leads(hybrid, x, y)
  BY <1>5, <1>6, <1>12, <1>13, HybridLeads
<1>16. Leads(boosted, x, y)
  <2> HIDE DEF hybrid
  <2> QED BY <1>7, <1>14, <1>15, BoostedKeeps
<1> HIDE DEF boosted
<1>17. Precedes(Take(boosted, TopK), x, y)
  BY <1>8, <1>10, <1>13, <1>16, TopKAssumption, TakenLeads DEF y
<1> QED BY <1>10, <1>17 DEF y

(***************************************************************************)
(* Of two chunks of a document that a search of a step could return, the   *)
(* one that is ahead in one list and not behind in the other is ahead in   *)
(* the answer: the reciprocal of a rank falls with the rank, the scores of *)
(* a single list are kept, the document's score raises both alike, and     *)
(* what is cut off is the end (retrieval_ranking.py).                      *)
(***************************************************************************)
THEOREM HybridKeepsOrderHolds == TaskSpec => HybridKeepsOrder
<1> DEFINE Kept_ ==
      Runs({"find_documents"}) /\ next' # next /\ steps[next].scope.sort = None =>
        LET scope == DocumentSearchScope(store, steps[next].scope)
            lists == ChunkLists(store, CandidateScope(scope, Candidates(store, scope)), FALSE)
            results == Read(work', "document_retrieval")
            Ahead(x, y) == \/ Precedes(lists.dense, x, y) /\ ~Precedes(lists.keyword, y, x)
                           \/ Precedes(lists.keyword, x, y) /\ ~Precedes(lists.dense, y, x)
        IN  scope # None /\ ~Opt(steps[next].options, "require_comprehensive_search", FALSE) =>
              \A n \in DOMAIN results : \A x \in DOMAIN store.worded :
                Document(x) = Chunked(results[n]) /\ Ahead(x, results[n].of)
                  => Precedes(results, x, results[n].of)
<1>1. StepsInv /\ [TaskNext]_taskVars => Kept_
  <2> DEFINE step == steps[next]
             inside == DocumentSearchScope(store, step.scope)
             candidates == Candidates(store, inside)
             lists == ChunkLists(store, CandidateScope(inside, candidates), FALSE)
             results == Read(work', "document_retrieval")
  <2> SUFFICES ASSUME StepsInv, [TaskNext]_taskVars, Runs({"find_documents"}), next' # next,
                      step.scope.sort = None, inside # None,
                      ~Opt(step.options, "require_comprehensive_search", FALSE),
                      NEW n \in DOMAIN results, NEW x, Document(x) = Chunked(results[n]),
                      \/ Precedes(lists.dense, x, results[n].of) /\ ~Precedes(lists.keyword, results[n].of, x)
                      \/ Precedes(lists.keyword, x, results[n].of) /\ ~Precedes(lists.dense, results[n].of, x)
               PROVE  Precedes(results, x, results[n].of)
    OBVIOUS
  <2>1. /\ IsStore(store) /\ StepScoped(plan, context, step) /\ step.type = "find_documents"
        /\ results = DocumentSearch(store, step.scope, Opt(step.options, "require_comprehensive_search", FALSE))
    BY SearchRun
  <2>2. IsStore(store) /\ IsScope(step.scope)
    BY <2>1 DEF StepScoped
  <2>3. IsScope(inside) /\ inside.sort = None
    <3> HIDE DEF step
    <3> QED BY <2>2, DocumentSearchIs
  <2>4. \A d \in DOMAIN candidates : candidates[d] \in Int
    <3> HIDE DEF step, inside
    <3> QED BY <2>2, CandidatesAre
  <2>5. results = SearchChunks(store, inside, candidates, FALSE)
    <3> DEFINE comprehensive == Opt(step.options, "require_comprehensive_search", FALSE)
    <3>1. results = DocumentSearch(store, step.scope, comprehensive)
      BY <2>1
    <3>2. results = SearchChunks(store, inside, candidates, comprehensive)
      <4> HIDE DEF comprehensive, results
      <4> QED BY <3>1 DEF DocumentSearch, SearchIn
    <3>3. SearchChunks(store, inside, candidates, comprehensive) = SearchChunks(store, inside, candidates, FALSE)
      <4> HIDE DEF candidates, inside
      <4> QED BY DEF SearchChunks, ChunkLists, Answered
    <3> QED BY <3>2, <3>3
  <2> HIDE DEF inside, candidates, results, step
  <2> QED BY <2>2, <2>3, <2>4, <2>5, SearchKeepsOrder
<1>2. StepsInv /\ [TaskNext]_taskVars => [Kept_]_taskVars
  BY <1>1
<1> QED BY <1>2, StepsInvHolds, PTL DEF HybridKeepsOrder, TaskSpec

-----------------------------------------------------------------------------
(* Signals and their evidence.                                             *)

\* Retrieved signals, each with its score.
IsMatch(r) ==
  r = [signal |-> r.signal, score |-> r.score] /\ r.score \in Int /\ r.signal.evidence \in Seq(Nat)
AreSignals(list) ==
  list \in Seq({list[i] : i \in DOMAIN list}) /\ \A i \in DOMAIN list : IsMatch(list[i])

LEMMA SignalsIf ==
  ASSUME NEW N \in Nat, NEW list, DOMAIN list = 1 .. N, list = [n \in 1 .. N |-> list[n]],
         \A n \in 1 .. N : IsMatch(list[n])
  PROVE  AreSignals(list)
<1> DEFINE X == {list[i] : i \in DOMAIN list}
<1>1. \A n \in 1 .. N : list[n] \in X
  OBVIOUS
<1> HIDE DEF X
<1>2. list \in Seq(X)
  BY <1>1
<1> QED BY <1>2 DEF AreSignals, X

LEMMA SignalsAre ==
  ASSUME NEW list, AreSignals(list)
  PROVE  /\ DOMAIN list = 1 .. Len(list) /\ Len(list) \in Nat
         /\ \A n \in DOMAIN list : IsMatch(list[n])
<1> DEFINE X == {list[i] : i \in DOMAIN list}
<1>1. list \in Seq(X)
  BY DEF AreSignals
<1> HIDE DEF X
<1>2. DOMAIN list = 1 .. Len(list) /\ Len(list) \in Nat
  BY <1>1
<1> QED BY <1>2 DEF AreSignals

LEMMA MatchIs ==
  ASSUME NEW g, NEW score \in Int, g.evidence \in Seq(Nat)
  PROVE  IsMatch([signal |-> g, score |-> score])
<1> DEFINE r == [signal |-> g, score |-> score]
<1>1. r.signal = g /\ r.score = score
  OBVIOUS
<1>2. r = [signal |-> r.signal, score |-> r.score]
  OBVIOUS
<1> HIDE DEF r
<1>3. IsMatch(r)
  BY <1>1, <1>2 DEF IsMatch
<1> QED BY <1>3 DEF r

LEMMA JoinedSignals ==
  ASSUME NEW a, AreSignals(a), NEW b, AreSignals(b)
  PROVE  AreSignals(a \o b)
<1> DEFINE X == {a[i] : i \in DOMAIN a}
           Y == {b[i] : i \in DOMAIN b}
           Z == X \cup Y
           all == a \o b
<1>1. a \in Seq(X) /\ b \in Seq(Y) /\ (\A r \in X : IsMatch(r)) /\ \A r \in Y : IsMatch(r)
  BY DEF AreSignals
<1> HIDE DEF X, Y
<1>2. \A r \in Z : IsMatch(r)
  BY <1>1
<1>3. X \subseteq Z /\ Y \subseteq Z
  OBVIOUS
<1> HIDE DEF Z
<1>4. a \in Seq(Z) /\ b \in Seq(Z)
  BY <1>1, <1>3
<1>5. all \in Seq(Z)
  BY <1>4
<1> HIDE DEF all
<1>6. all \in Seq({all[i] : i \in DOMAIN all})
  BY <1>5, OwnElements
<1>7. \A i \in DOMAIN all : all[i] \in Z
  BY <1>5
<1> QED BY <1>2, <1>6, <1>7 DEF AreSignals, all

LEMMA SignalSearchIs ==
  ASSUME NEW s, IsStore(s), NEW scope, NEW type
  PROVE  AreSignals(SignalSearch(s, scope, type))
<1> DEFINE found == {g \in s.signals : type \in {None, g.type} /\ SignalInScope(g, scope)}
           Ahead(a, b) == a.score > b.score \/ (a.score = b.score /\ a.id[2] < b.id[2])
           R == {p \in found \X found : Ahead(p[1], p[2])}
           order == Arranged(found, R)
           list == [n \in DOMAIN order |-> [signal |-> order[n], score |-> order[n].score]]
<1>1. SignalSearch(s, scope, type) = list
  BY DEF SignalSearch
<1>2. found \subseteq s.signals
  OBVIOUS
<1>3. \A a, b \in found : <<a, b>> \in R <=> Ahead(a, b)
  OBVIOUS
<1> HIDE DEF R, found
<1>4. /\ IsFiniteSet(found)
      /\ \A g \in found : g.score \in Int /\ g.id[2] \in Int /\ g.evidence \in Seq(Nat)
      /\ \A g, h \in found : g.id[2] = h.id[2] => g = h
  BY <1>2, FS_Subset DEF IsStore
<1>5. Orders(R, found)
  <2>1. ASSUME NEW a \in found PROVE <<a, a>> \notin R
    BY <1>3, <1>4
  <2>2. ASSUME NEW a \in found, NEW b \in found, NEW c \in found, <<a, b>> \in R, <<b, c>> \in R
        PROVE  <<a, c>> \in R
    <3>1. Ahead(a, b) /\ Ahead(b, c)
      BY <1>3, <2>2
    <3>2. /\ a.score \in Int /\ b.score \in Int /\ c.score \in Int
          /\ a.id[2] \in Int /\ b.id[2] \in Int /\ c.id[2] \in Int
      BY <1>4
    <3>3. Ahead(a, c)
      BY <3>1, <3>2
    <3> QED BY <1>3, <3>3
  <2>3. ASSUME NEW a \in found, NEW b \in found PROVE a = b \/ <<a, b>> \in R \/ <<b, a>> \in R
    <3>1. /\ a.score \in Int /\ b.score \in Int /\ a.id[2] \in Int /\ b.id[2] \in Int
          /\ (a.id[2] = b.id[2] => a = b)
      BY <1>4
    <3>2. a = b \/ Ahead(a, b) \/ Ahead(b, a)
      BY <3>1
    <3> QED BY <1>3, <3>2
  <2> QED BY <2>1, <2>2, <2>3 DEF Orders
<1> DEFINE N == Cardinality(found)
<1>6. N \in Nat /\ order \in [1 .. N -> found]
  BY <1>4, <1>5, ArrangedIs
<1> HIDE DEF order, N
<1>7. DOMAIN list = 1 .. N /\ list = [n \in 1 .. N |-> list[n]]
  BY <1>6
<1>8. ASSUME NEW n \in 1 .. N PROVE IsMatch(list[n])
  <2>1. order[n] \in found
    BY <1>6
  <2>2. list[n] = [signal |-> order[n], score |-> order[n].score]
    BY <1>7
  <2>3. order[n].score \in Int /\ order[n].evidence \in Seq(Nat)
    BY <1>4, <2>1
  <2> QED BY <2>2, <2>3, MatchIs
<1> HIDE DEF list
<1> QED BY <1>1, <1>6, <1>7, <1>8, SignalsIf

LEMMA OnDemandAre ==
  ASSUME NEW results \in Hits(Nat), NEW type
  PROVE  AreSignals(OnDemandSignals(results, type))
<1> DEFINE g(n) == [id |-> <<type, results[n].of>>, type |-> type, owner |-> "document",
                    source |-> Chunked(results[n]), evidence |-> <<results[n].of>>,
                    score |-> results[n].score]
           list == OnDemandSignals(results, type)
<1>1. /\ DOMAIN results = 1 .. Len(results) /\ Len(results) \in Nat
      /\ \A n \in DOMAIN results : results[n].of \in Nat /\ results[n].score \in Int
  BY HitsAre
<1>2. list = [n \in DOMAIN results |-> [score |-> results[n].score, signal |-> g(n)]]
  BY DEF OnDemandSignals
<1>3. \A n \in DOMAIN results : g(n).evidence = <<results[n].of>>
  OBVIOUS
<1> HIDE DEF list, g
<1>4. ASSUME NEW n \in DOMAIN results PROVE IsMatch(list[n])
  <2>1. list[n] = [signal |-> g(n), score |-> results[n].score]
    BY <1>2
  <2>2. <<results[n].of>> \in Seq(Nat)
    BY <1>1
  <2> DEFINE h == g(n)
  <2>3. h.evidence \in Seq(Nat) /\ results[n].score \in Int
    BY <1>1, <1>3, <2>2
  <2> HIDE DEF h
  <2>4. IsMatch([signal |-> h, score |-> results[n].score])
    BY <2>3, MatchIs
  <2> QED BY <2>1, <2>4 DEF h
<1>5. DOMAIN list = 1 .. Len(results) /\ list = [n \in 1 .. Len(results) |-> list[n]]
  BY <1>1, <1>2
<1>6. AreSignals(list)
  BY <1>1, <1>4, <1>5, SignalsIf
<1> QED BY <1>6 DEF list

\* The least of a finite set of numbers.
LEMMA MinIs ==
  ASSUME NEW S \in SUBSET Int, IsFiniteSet(S), S # {}
  PROVE  Min(S) \in S
<1> DEFINE f == [x \in S |-> -x]
           T == {f[x] : x \in S}
<1>1. \A x \in S : x \in Int /\ f[x] = -x
  OBVIOUS
<1> HIDE DEF f
<1>2. IsFiniteSet(T)
  BY ImageIsFinite
<1>3. \A y \in T : \E x \in S : y = -x
  BY <1>1
<1>4. (\A x \in S : -x \in T) /\ T \in SUBSET Int /\ T # {}
  <2>1. \A x \in S : f[x] \in T
    OBVIOUS
  <2> HIDE DEF T
  <2>2. \A x \in S : -x \in T
    BY <1>1, <2>1
  <2>3. \A y \in T : y \in Int
    BY <1>1, <1>3
  <2> QED BY <2>2, <2>3
<1> HIDE DEF T
<1>5. Max(T) \in T /\ \A y \in T : y <= Max(T)
  BY <1>4, <1>2, MaxIs
<1>6. PICK x \in S : Max(T) = -x
  BY <1>3, <1>5
<1>7. \A y \in S : -y <= -x
  BY <1>4, <1>5, <1>6
<1>8. \E z \in S : \A y \in S : z <= y
  BY <1>7
<1>9. Min(S) \in S /\ \A y \in S : Min(S) <= y
  BY <1>8 DEF Min
<1> QED BY <1>9

\* Of the same signal one is left, the best.
LEMMA MergedSignalsAre ==
  ASSUME NEW signals, AreSignals(signals)
  PROVE  AreSignals(MergedSignals(signals))
<1> DEFINE X == {signals[i] : i \in DOMAIN signals}
           ids == [k \in DOMAIN signals |-> signals[k].signal.id]
           firsts == FirstOf(signals, ids)
           K(n) == {k \in DOMAIN signals : ids[k] = firsts[n].signal.id}
           S(n) == {signals[k].score : k \in K(n)}
           B(n) == {k \in K(n) : signals[k].score = Max(S(n))}
           best(n) == Min(B(n))
           list == [n \in DOMAIN firsts |-> signals[best(n)]]
<1>1. MergedSignals(signals) = Descending(list)
  BY DEF MergedSignals
<1>2. signals \in Seq(X) /\ \A r \in X : IsMatch(r)
  BY DEF AreSignals
<1>3. DOMAIN signals = 1 .. Len(signals) /\ Len(signals) \in Nat
  BY SignalsAre
<1>4. \A k \in DOMAIN signals : ids[k] = signals[k].signal.id /\ signals[k] \in X
  OBVIOUS
<1> HIDE DEF X, ids
<1>5. firsts \in Seq(X) /\ \E place : FirstPlaces(place, firsts, signals, ids)
  BY <1>2, FirstOfIs
<1>6. DOMAIN firsts = 1 .. Len(firsts) /\ Len(firsts) \in Nat
  BY <1>5
<1> HIDE DEF firsts
<1>7. ASSUME NEW n \in DOMAIN firsts PROVE best(n) \in DOMAIN signals
  <2>1. PICK place : FirstPlaces(place, firsts, signals, ids)
    BY <1>5
  <2>2. place[n] \in K(n)
    BY <1>4, <2>1 DEF FirstPlaces
  <2>3. IsFiniteSet(1 .. Len(signals))
    <3>1. Len(signals) \in Nat
      BY <1>3
    <3> HIDE DEF best, B, S, K
    <3> QED BY <3>1, FS_Interval
  <2>4. IsFiniteSet(K(n))
    <3> DEFINE L == K(n)
    <3>1. L \subseteq 1 .. Len(signals)
      BY <1>3
    <3> HIDE DEF L
    <3>2. IsFiniteSet(L)
      BY <2>3, <3>1, FS_Subset
    <3> QED BY <3>2 DEF L
  <2>5. \A k \in K(n) : signals[k].score \in Int
    BY <1>2, <1>4 DEF IsMatch
  <2> DEFINE f == [k \in DOMAIN signals |-> signals[k].score]
  <2>6. S(n) = {f[k] : k \in K(n)}
    OBVIOUS
  <2> DEFINE L == K(n)
             T == S(n)
  <2>7. IsFiniteSet(L) /\ T = {f[k] : k \in L} /\ T \in SUBSET Int /\ T # {}
    BY <2>2, <2>4, <2>5, <2>6
  <2> HIDE DEF f, L, T
  <2>8. IsFiniteSet(T)
    BY <2>7, ImageIsFinite
  <2>9. Max(T) \in T
    BY <2>7, <2>8, MaxIs
  <2>10. \E k \in K(n) : signals[k].score = Max(S(n))
    BY <2>9 DEF T
  <2> DEFINE M == B(n)
  <2>11. M \subseteq L /\ M \subseteq DOMAIN signals /\ M # {}
    BY <2>10 DEF L
  <2>12. best(n) = Min(M)
    OBVIOUS
  <2> HIDE DEF M, best, B
  <2>13. IsFiniteSet(M) /\ M \in SUBSET Int
    BY <1>3, <2>7, <2>11, FS_Subset
  <2>14. Min(M) \in M
    BY <2>11, <2>13, MinIs
  <2> QED BY <2>11, <2>12, <2>14
<1> HIDE DEF best
<1>8. ASSUME NEW n \in DOMAIN firsts PROVE IsMatch(list[n]) /\ list[n].score \in Int
  <2>1. list[n] = signals[best(n)]
    OBVIOUS
  <2>2. list[n] \in X
    BY <1>4, <1>7, <2>1
  <2> QED BY <1>2, <2>2 DEF IsMatch
<1> DEFINE Y == {list[i] : i \in DOMAIN list}
<1>9. DOMAIN list = 1 .. Len(firsts) /\ list = [n \in 1 .. Len(firsts) |-> list[n]]
  BY <1>6
<1> HIDE DEF list
<1>10. AreSignals(list)
  BY <1>6, <1>8, <1>9, SignalsIf
<1>11. /\ list \in Seq(Y) /\ (\A r \in Y : IsMatch(r))
       /\ \A n \in DOMAIN list : list[n].score \in Int
  BY <1>6, <1>8, <1>9, <1>10 DEF AreSignals
<1> HIDE DEF Y
<1> DEFINE new == Descending(list)
<1>12. new \in Seq(Y)
  BY <1>11, DescendingIs
<1> HIDE DEF new
<1>13. new \in Seq({new[i] : i \in DOMAIN new})
  BY <1>12, OwnElements
<1>14. \A i \in DOMAIN new : new[i] \in Y
  BY <1>12
<1>15. AreSignals(new)
  BY <1>11, <1>13, <1>14 DEF AreSignals
<1> QED BY <1>1, <1>15 DEF new

\* Each citation is of one of the signals, and of its evidence or of nothing.
Cites(cs, signals) ==
  \A n \in DOMAIN cs : \E k \in DOMAIN signals :
    signals[k].signal.id = cs[n].signal /\ cs[n].of \in {None} \cup ToSet(signals[k].signal.evidence)

LEMMA EvidenceIs ==
  ASSUME NEW signals, AreSignals(signals)
  PROVE  Cites(Evidence(signals), signals)
<1> DEFINE cited(r) == IF r.signal.evidence = <<>> THEN <<None>> ELSE r.signal.evidence
           item(n, k) == [signal |-> signals[n].signal.id, of |-> cited(signals[n])[k],
                          score |-> signals[n].score]
           items(n) == [k \in DOMAIN cited(signals[n]) |-> item(n, k)]
           X == UNION {{item(n, k) : k \in DOMAIN cited(signals[n])} : n \in DOMAIN signals}
           lists == [n \in DOMAIN signals |-> items(n)]
           all == FlattenSeq(lists)
           keys == [k \in DOMAIN all |-> <<all[k].signal, all[k].of>>]
           found == FirstOf(all, keys)
<1>1. Evidence(signals) = found
  BY DEF Evidence
<1>2. /\ DOMAIN signals = 1 .. Len(signals) /\ Len(signals) \in Nat
      /\ \A n \in DOMAIN signals : signals[n].signal.evidence \in Seq(Nat)
  BY SignalsAre DEF IsMatch
<1>3. ASSUME NEW n \in DOMAIN signals, NEW k \in DOMAIN cited(signals[n])
      PROVE  /\ item(n, k).signal = signals[n].signal.id
             /\ item(n, k).of \in {None} \cup ToSet(signals[n].signal.evidence)
  <2>1. item(n, k).of = cited(signals[n])[k] /\ item(n, k).signal = signals[n].signal.id
    OBVIOUS
  <2>2. CASE signals[n].signal.evidence = <<>>
    <3>1. cited(signals[n]) = <<None>>
      BY <2>2
    <3>2. k = 1 /\ cited(signals[n])[k] = None
      BY <3>1
    <3> QED BY <2>1, <3>2
  <2>3. CASE signals[n].signal.evidence # <<>>
    <3>1. cited(signals[n]) = signals[n].signal.evidence
      BY <2>3
    <3> HIDE DEF cited
    <3>2. cited(signals[n])[k] \in ToSet(signals[n].signal.evidence)
      BY <3>1 DEF ToSet
    <3> QED BY <2>1, <3>2
  <2> QED BY <2>2, <2>3
<1>4. ASSUME NEW n \in DOMAIN signals PROVE \E m \in Nat : DOMAIN cited(signals[n]) = 1 .. m
  <2>1. CASE signals[n].signal.evidence = <<>>
    BY <2>1
  <2>2. CASE signals[n].signal.evidence # <<>>
    <3> DEFINE e == signals[n].signal.evidence
    <3>1. e \in Seq(Nat) /\ cited(signals[n]) = e
      BY <1>2, <2>2
    <3> HIDE DEF e, cited
    <3>2. DOMAIN e = 1 .. Len(e) /\ Len(e) \in Nat
      BY <3>1
    <3> QED BY <3>1, <3>2
  <2> QED BY <2>1, <2>2
<1> HIDE DEF item
<1>5. ASSUME NEW n \in DOMAIN signals PROVE items(n) \in Seq(X)
  <2>1. PICK m \in Nat : DOMAIN cited(signals[n]) = 1 .. m
    BY <1>4
  <2>2. \A k \in DOMAIN cited(signals[n]) : item(n, k) \in X
    OBVIOUS
  <2> HIDE DEF X, cited
  <2>3. items(n) \in [1 .. m -> X]
    BY <2>1, <2>2
  <2> HIDE DEF items
  <2> QED BY <2>1, <2>3
<1>6. \A c \in X : \E n \in DOMAIN signals : /\ signals[n].signal.id = c.signal
                                             /\ c.of \in {None} \cup ToSet(signals[n].signal.evidence)
  BY <1>3
<1> HIDE DEF X, items
<1>7. lists \in Seq(Seq(X))
  <2> DEFINE Y == Seq(X)
  <2>1. \A n \in 1 .. Len(signals) : items(n) \in Y
    BY <1>2, <1>5
  <2> HIDE DEF Y
  <2>2. lists \in [1 .. Len(signals) -> Y]
    BY <1>2, <2>1
  <2> HIDE DEF lists
  <2>3. lists \in Seq(Y)
    BY <1>2, <2>2
  <2> QED BY <2>3 DEF Y
<1> HIDE DEF lists
<1>8. all \in Seq(X)
  BY <1>7, FlattenIs
<1> HIDE DEF all, keys
<1>9. found \in Seq(X)
  BY <1>8, FirstOfIs
<1> HIDE DEF found
<1>10. \A n \in DOMAIN found : found[n] \in X
  BY <1>9
<1>11. Cites(found, signals)
  BY <1>6, <1>10 DEF Cites
<1> QED BY <1>1, <1>11

\* The steps that record what is known of signals and documents.
Recording == {"find_documents", "find_signals", "expand_signal_evidence", "extract_on_demand_signals"}

LEMMA ResultWrites ==
  ASSUME NEW name, NEW result, name \notin {"document_retrieval", "signal_retrieval", "signal_evidence"}
  PROVE  Result(name, result).artifacts = [x \in {name} |-> result]
  BY DEF Result, Outcome

\* The others leave that alone.
LEMMA OthersWrite ==
  ASSUME NEW s, NEW w, NEW step, step.type \in ActionTypes \ Recording, NEW c, NEW text,
         NEW o, o = StepOutcome(s, w, step, c, text)
  PROVE  DOMAIN o.artifacts \cap {"document_retrieval", "signal_retrieval", "signal_evidence"} = {}
<1> DEFINE Known == {"document_retrieval", "signal_retrieval", "signal_evidence"}
<1>1. ASSUME NEW name, name \notin Known, NEW a, NEW output, o = Outcome([x \in {name} |-> a], output)
      PROVE  DOMAIN o.artifacts \cap Known = {}
  <2>1. o.artifacts = [x \in {name} |-> a]
    BY <1>1 DEF Outcome
  <2> QED BY <1>1, <2>1
<1>2. ASSUME NEW name, name \notin Known, NEW a, o = Result(name, a)
      PROVE  DOMAIN o.artifacts \cap Known = {}
  BY <1>1, <1>2 DEF Result
<1>3. CASE step.type = "present_documents"
  <2>1. o = PresentDocuments(s, w, step)
    BY <1>3 DEF StepOutcome, Generating
  <2> QED BY <1>2, <2>1 DEF PresentDocuments
<1>4. CASE step.type = "present_signals"
  <2>1. o = PresentSignals(s, w, step)
    BY <1>4 DEF StepOutcome, Generating
  <2> QED BY <1>2, <2>1 DEF PresentSignals
<1>5. CASE step.type = "synthesize_signals"
  <2>1. o = SynthesizeSignals(s, w, step, text)
    BY <1>5 DEF StepOutcome, Generating
  <2> QED BY <1>2, <2>1 DEF SynthesizeSignals
<1>6. CASE step.type = "find_folders"
  <2>1. o = FindFolders(s, step)
    BY <1>6 DEF StepOutcome, Generating
  <2>2. DOMAIN o.artifacts = {"folder_retrieval"}
    BY <2>1 DEF FindFolders, Outcome
  <2> QED BY <2>2
<1>7. CASE step.type = "find_related"
  <2>1. o = FindRelated(s, w, step)
    BY <1>7 DEF StepOutcome, Generating
  <2>2. DOMAIN o.artifacts = {"related_retrieval"}
    BY <2>1 DEF FindRelated, Outcome
  <2> QED BY <2>2
<1>8. CASE step.type = "classify_documents"
  <2>1. o = ClassifyDocuments(w)
    BY <1>8 DEF StepOutcome, Generating
  <2>2. DOMAIN o.artifacts = {"relevant_documents"}
    BY <2>1 DEF ClassifyDocuments, Outcome
  <2> QED BY <2>2
<1>9. CASE step.type = "analyze_documents"
  <2>1. o = AnalyzeDocuments(w, text)
    BY <1>9 DEF StepOutcome, Generating
  <2>2. DOMAIN o.artifacts = {"document_summaries"}
    BY <2>1 DEF AnalyzeDocuments, Outcome
  <2> QED BY <2>2
<1>10. CASE step.type = "synthesize_report"
  <2>1. o = SynthesizeReport(w)
    BY <1>10 DEF StepOutcome, Generating
  <2> QED BY <1>2, <2>1 DEF SynthesizeReport
<1>11. CASE step.type = "recommend_documents"
  <2>1. o = RecommendDocuments(s, w, step)
    BY <1>11 DEF StepOutcome, Generating
  <2> QED BY <1>2, <2>1 DEF RecommendDocuments
<1>12. CASE step.type = "recommend_folder"
  <2>1. o = RecommendFolder(s, step, c)
    BY <1>12 DEF StepOutcome, Generating
  <2> QED BY <1>2, <2>1 DEF RecommendFolder
<1>13. CASE step.type = "recommend_related"
  <2>1. o = RecommendRelated(s, w, step)
    BY <1>13 DEF StepOutcome, Generating
  <2> QED BY <1>2, <2>1 DEF RecommendRelated
<1>14. CASE step.type \in Generating
  <2>1. o = Generate(w, step, text)
    BY <1>14 DEF StepOutcome, Generating
  <2> DEFINE name == CASE step.type = "answer_question" -> "answer"
                       [] step.type = "summarize_documents" -> "summary"
                       [] step.type = "generate_draft" -> "draft"
                       [] step.type = "explore_ideas" -> "ideas"
  <2>2. name \in {"answer", "summary", "draft", "ideas"}
    BY <1>14 DEF Generating
  <2>3. o = Result(name, Generated(text, ReadList(w, "document_retrieval")))
    BY <2>1 DEF Generate
  <2> HIDE DEF name
  <2> QED BY <1>2, <2>2, <2>3
<1>15. CASE step.type = "plan_host_actions"
  <2>1. o = Outcome([action_plan |-> "plan"], {"plan"})
    BY <1>15 DEF StepOutcome, Generating
  <2>2. DOMAIN o.artifacts = {"action_plan"}
    BY <2>1 DEF Outcome
  <2> QED BY <2>2
<1>16. CASE step.type = "request_clarification"
  <2>1. o = RequestClarification
    BY <1>16 DEF StepOutcome, Generating
  <2>2. DOMAIN o.artifacts = {"clarification"}
    BY <2>1 DEF RequestClarification, Outcome
  <2> QED BY <2>2
<1> QED BY <1>3, <1>4, <1>5, <1>6, <1>7, <1>8, <1>9, <1>10, <1>11, <1>12, <1>13, <1>14, <1>15, <1>16
        DEF ActionTypes, Recording, Generating

Retrieved == "document_retrieval"
Signalled == "signal_retrieval"
Evidenced == "signal_evidence"
Expanding == {"expand_signal_evidence", "extract_on_demand_signals"}

\* What the artifacts of a work hold.
Known(w) ==
  /\ Written(w, Retrieved) => Read(w, Retrieved) \in Hits(Nat)
  /\ AreSignals(ReadList(w, Signalled))

\* What a step adds to them.
Adds(w, type, a) ==
  /\ Retrieved \in DOMAIN a => a[Retrieved] \in Hits(Nat)
  /\ Signalled \in DOMAIN a => AreSignals(a[Signalled]) /\ type \in {"find_signals", "extract_on_demand_signals"}
  /\ Evidenced \in DOMAIN a <=> type \in Expanding
  /\ type = "extract_on_demand_signals" => Signalled \in DOMAIN a /\ Cites(a[Evidenced], a[Signalled])
  /\ type = "expand_signal_evidence" /\ ReadList(w, Signalled) # <<>>
       => Cites(a[Evidenced], ReadList(w, Signalled))

LEMMA SearchedIs ==
  ASSUME NEW s, IsStore(s), NEW scope, IsScope(scope), NEW comprehensive
  PROVE  DocumentSearch(s, scope, comprehensive) \in Hits(Nat)
<1>1. DocumentSearch(s, scope, comprehensive) \in Hits(ChunkIds(s))
  BY DocumentSearchIs
<1>2. ChunkIds(s) \subseteq Nat
  BY StoreHas
<1> DEFINE found == DocumentSearch(s, scope, comprehensive)
           C == ChunkIds(s)
<1> HIDE DEF found, C
<1>3. found \in Hits(Nat)
  BY <1>1, <1>2, HitsGrow DEF found, C
<1> QED BY <1>3 DEF found

LEMMA SignalsForStep ==
  ASSUME NEW s, IsStore(s), NEW w, Known(w), NEW step
  PROVE  /\ AreSignals(SignalsOrSearch(s, w, step))
         /\ ReadList(w, Signalled) # <<>> => SignalsOrSearch(s, w, step) = ReadList(w, Signalled)
<1>1. AreSignals(SignalSearch(s, step.scope, None))
  BY SignalSearchIs
<1>2. ReadList(w, Signalled) # <<>> => Read(w, Signalled) = ReadList(w, Signalled)
  BY DEF ReadList, Read, Opt
<1> QED BY <1>1, <1>2 DEF SignalsOrSearch, Known, Signalled

LEMMA ExtractedAre ==
  ASSUME NEW s, IsStore(s), NEW w, Known(w), NEW step, IsScope(step.scope), NEW type
  PROVE  AreSignals(MoreSignals(s, w, step, type))
<1> DEFINE kind == IF type = None THEN "claim" ELSE type
           a == ReadList(w, Signalled)
           b == SignalSearch(s, step.scope, type)
           found == DocumentsOrSearch(s, w, step)
           d == OnDemandSignals(found, kind)
<1>1. found \in Hits(Nat)
  BY SearchedIs DEF DocumentsOrSearch, Known, Retrieved
<1>2. MoreSignals(s, w, step, type) = MergedSignals(a \o b \o d)
  BY DEF MoreSignals, Signalled
<1>3. AreSignals(a)
  BY DEF Known
<1>4. AreSignals(b)
  BY SignalSearchIs
<1> HIDE DEF found, kind
<1>5. AreSignals(d)
  BY <1>1, OnDemandAre
<1> HIDE DEF a, b, d
<1>6. AreSignals(a \o b)
  BY <1>3, <1>4, JoinedSignals
<1> DEFINE e == a \o b
<1> HIDE DEF e
<1>7. AreSignals(e \o d)
  BY <1>5, <1>6, JoinedSignals DEF e
<1> DEFINE all == e \o d
<1> HIDE DEF all
<1>8. AreSignals(MergedSignals(all))
  BY <1>7, MergedSignalsAre DEF all
<1> QED BY <1>2, <1>8 DEF all, e

LEMMA OutcomeAdds ==
  ASSUME NEW s, IsStore(s), NEW w, Known(w), NEW step, step.type \in ActionTypes, IsScope(step.scope),
         NEW c, NEW text, NEW o, o = StepOutcome(s, w, step, c, text)
  PROVE  Adds(w, step.type, o.artifacts)
<1> DEFINE a == o.artifacts
<1>1. CASE step.type = "find_documents"
  <2> DEFINE found == DocumentSearch(s, step.scope, Opt(step.options, "require_comprehensive_search", FALSE))
             documents == Documents(found)
             r == [document_retrieval |-> found, candidate_documents |-> documents]
  <2>1. o = FindDocuments(s, step)
    BY <1>1 DEF StepOutcome, Generating
  <2>2. a = r
    BY <2>1 DEF FindDocuments, Found, Outcome
  <2>3. DOMAIN r = {"document_retrieval", "candidate_documents"} /\ r["document_retrieval"] = found
    OBVIOUS
  <2>4. found \in Hits(Nat)
    BY SearchedIs
  <2> HIDE DEF found, documents, r, a
  <2> QED BY <1>1, <2>2, <2>3, <2>4 DEF Adds, Retrieved, Signalled, Evidenced, Expanding, a
<1>2. CASE step.type = "find_signals"
  <2> DEFINE found == SignalSearch(s, step.scope, TextOption(step.options, "signal_type"))
             r == [signal_retrieval |-> found]
  <2>1. o = FindSignals(s, step)
    BY <1>2 DEF StepOutcome, Generating
  <2>2. a = r
    BY <2>1 DEF FindSignals, Outcome
  <2>3. DOMAIN r = {"signal_retrieval"} /\ r["signal_retrieval"] = found
    OBVIOUS
  <2>4. AreSignals(found)
    BY SignalSearchIs
  <2> HIDE DEF found, r, a
  <2> QED BY <1>2, <2>2, <2>3, <2>4 DEF Adds, Retrieved, Signalled, Evidenced, Expanding, a
<1>3. CASE step.type = "expand_signal_evidence"
  <2> DEFINE signals == SignalsOrSearch(s, w, step)
             e == Evidence(signals)
             r == [signal_evidence |-> e]
  <2>1. o = ExpandSignalEvidence(s, w, step)
    BY <1>3 DEF StepOutcome, Generating
  <2>2. a = r
    BY <2>1 DEF ExpandSignalEvidence, Outcome
  <2>3. DOMAIN r = {"signal_evidence"} /\ r["signal_evidence"] = e
    OBVIOUS
  <2>4. AreSignals(signals) /\ (ReadList(w, Signalled) # <<>> => signals = ReadList(w, Signalled))
    BY SignalsForStep
  <2> HIDE DEF signals
  <2>5. Cites(e, signals)
    BY <2>4, EvidenceIs
  <2> HIDE DEF e, r, a
  <2> QED BY <1>3, <2>2, <2>3, <2>4, <2>5 DEF Adds, Retrieved, Signalled, Evidenced, Expanding, a
<1>4. CASE step.type = "extract_on_demand_signals"
  <2> DEFINE type == TextOption(step.options, "signal_type")
             signals == IF Enough(w, step) THEN ReadList(w, Signalled) ELSE MoreSignals(s, w, step, type)
             e == Evidence(signals)
             r == [signal_retrieval |-> signals, signal_evidence |-> e]
  <2>1. o = ExtractOnDemandSignals(s, w, step)
    BY <1>4 DEF StepOutcome, Generating
  <2>2. a = r
    BY <2>1 DEF ExtractOnDemandSignals, Extracted, Outcome, Signalled
  <2>3. DOMAIN r = {"signal_retrieval", "signal_evidence"} /\ r["signal_evidence"] = e
        /\ r["signal_retrieval"] = signals
    OBVIOUS
  <2> HIDE DEF type
  <2>4. AreSignals(signals)
    <3>1. AreSignals(MoreSignals(s, w, step, type))
      BY ExtractedAre
    <3> QED BY <3>1 DEF Known
  <2> HIDE DEF signals
  <2>5. Cites(e, signals)
    BY <2>4, EvidenceIs
  <2> HIDE DEF e, r, a
  <2> QED BY <1>4, <2>2, <2>3, <2>4, <2>5 DEF Adds, Retrieved, Signalled, Evidenced, Expanding, a
<1>5. CASE step.type \notin Recording
  <2>1. DOMAIN a \cap {"document_retrieval", "signal_retrieval", "signal_evidence"} = {}
    BY <1>5, OthersWrite
  <2> HIDE DEF a
  <2> QED BY <1>5, <2>1 DEF Adds, Retrieved, Signalled, Evidenced, Expanding, Recording, a
<1> QED BY <1>1, <1>2, <1>3, <1>4, <1>5 DEF Recording

\* Signals are written about with their evidence.
LEMMA SignalTextIs ==
  ASSUME NEW s, IsStore(s), NEW w, Known(w), ReadList(w, Signalled) # <<>>,
         NEW step, step.type \in {"present_signals", "synthesize_signals"}, NEW c, NEW text,
         NEW o, o = StepOutcome(s, w, step, c, text)
  PROVE  /\ o.output # {}
         /\ \A value \in o.output :
              value.citations = IF Written(w, Evidenced) THEN Read(w, Evidenced)
                                ELSE Evidence(ReadList(w, Signalled))
<1> DEFINE signals == ReadList(w, Signalled)
           cs == IF Written(w, Evidenced) THEN Read(w, Evidenced) ELSE Evidence(signals)
<1>1. SignalsOrSearch(s, w, step) = signals /\ signals # <<>>
  BY SignalsForStep
<1>2. EvidenceOrExpand(w, signals) = cs
  BY DEF EvidenceOrExpand, Evidenced
<1> HIDE DEF signals, cs
<1>3. ASSUME NEW t PROVE SignalText(w, signals, t) = Generated(t, cs) /\ Generated(t, cs).citations = cs
  BY <1>1, <1>2 DEF SignalText, Generated
<1>4. \E name, t : o = Result(name, Generated(t, cs))
  <2>1. CASE step.type = "present_signals"
    <3>1. o = PresentSignals(s, w, step)
      BY <2>1 DEF StepOutcome, Generating
    <3> QED BY <1>1, <1>3, <3>1 DEF PresentSignals
  <2>2. CASE step.type = "synthesize_signals"
    <3>1. o = SynthesizeSignals(s, w, step, text)
      BY <2>2 DEF StepOutcome, Generating
    <3> QED BY <1>1, <1>3, <3>1 DEF SynthesizeSignals
  <2> QED BY <2>1, <2>2
<1>5. PICK name, t : o = Result(name, Generated(t, cs))
  BY <1>4
<1>6. o.output = {Generated(t, cs)}
  BY <1>5 DEF Result, Outcome
<1> QED BY <1>3, <1>6 DEF signals, cs

\* What the artifacts say after a step.
LEMMA ReadAfter ==
  ASSUME NEW a, NEW w, NEW v, v.artifacts = Overlaid(a, w.artifacts), NEW name
  PROVE  /\ name \in DOMAIN a => /\ Written(v, name) /\ Read(v, name) = a[name] /\ ReadList(v, name) = a[name]
         /\ name \notin DOMAIN a => /\ Written(v, name) = Written(w, name)
                                    /\ Read(v, name) = Read(w, name)
                                    /\ ReadList(v, name) = ReadList(w, name)
  BY DEF Overlaid, Written, Read, ReadList, Opt

\* The evidence last expanded is of the signals, if any.
Supported(w) ==
  Written(w, Evidenced)
  /\ (ReadList(w, Signalled) # <<>> => Cites(Read(w, Evidenced), ReadList(w, Signalled)))

LEMMA EvidenceAfter ==
  ASSUME NEW s, IsStore(s), NEW w, IsWork(w), InOrder(w.task.actions), Known(w),
         NEW step, step.type \in ActionTypes, IsScope(step.scope), NEW c, NEW text,
         NEW v, v = AfterStep(s, w, step, c, text)
  PROVE  /\ Known(v)
         /\ Written(v, Evidenced) => Written(w, Evidenced) \/ step.type \in Expanding
         /\ step.type \in Expanding \/ (Supported(w) /\ step.type # "find_signals") => Supported(v)
         /\ step.type \in {"present_signals", "synthesize_signals"} /\ ReadList(v, Signalled) # <<>>
            /\ (Written(w, Evidenced) => Supported(w))
              => \A r \in v.result : Cites(r.value.citations, ReadList(v, Signalled))
<1> DEFINE o == StepOutcome(s, w, step, c, text)
           a == o.artifacts
<1>1. /\ v.artifacts = Overlaid(o.artifacts, w.artifacts)
      /\ Resulting(v, o, w)
  BY StepWrites
<1>2. Adds(w, step.type, a)
  BY OutcomeAdds
<1>3. step.type \in {"present_signals", "synthesize_signals"} /\ ReadList(w, Signalled) # <<>>
        => /\ o.output # {}
           /\ \A value \in o.output :
                value.citations = IF Written(w, Evidenced) THEN Read(w, Evidenced)
                                  ELSE Evidence(ReadList(w, Signalled))
  BY SignalTextIs
<1> HIDE DEF o
<1>4. \A name : /\ name \in DOMAIN a => /\ Written(v, name) /\ Read(v, name) = a[name]
                                        /\ ReadList(v, name) = a[name]
                /\ name \notin DOMAIN a => /\ Written(v, name) = Written(w, name)
                                           /\ Read(v, name) = Read(w, name)
                                           /\ ReadList(v, name) = ReadList(w, name)
  BY <1>1, ReadAfter
<1> HIDE DEF a
<1>5. Known(v)
  BY <1>2, <1>4 DEF Known, Adds
<1>6. Written(v, Evidenced) => Written(w, Evidenced) \/ step.type \in Expanding
  BY <1>2, <1>4 DEF Adds
<1>7. ASSUME step.type \in Expanding PROVE Supported(v)
  <2>1. Written(v, Evidenced) /\ Read(v, Evidenced) = a[Evidenced]
    BY <1>2, <1>4, <1>7 DEF Adds
  <2>2. CASE step.type = "extract_on_demand_signals"
    <3>1. ReadList(v, Signalled) = a[Signalled] /\ Cites(a[Evidenced], a[Signalled])
      BY <1>2, <1>4, <2>2 DEF Adds
    <3> QED BY <2>1, <3>1 DEF Supported
  <2>3. CASE step.type = "expand_signal_evidence"
    <3>1. ReadList(v, Signalled) = ReadList(w, Signalled)
      BY <1>2, <1>4, <2>3 DEF Adds
    <3>2. ReadList(w, Signalled) # <<>> => Cites(a[Evidenced], ReadList(w, Signalled))
      BY <1>2, <2>3 DEF Adds
    <3> QED BY <2>1, <3>1, <3>2 DEF Supported
  <2> QED BY <1>7, <2>2, <2>3 DEF Expanding
<1>8. ASSUME Supported(w), step.type # "find_signals", step.type \notin Expanding PROVE Supported(v)
  <2>1. Signalled \notin DOMAIN a /\ Evidenced \notin DOMAIN a
    BY <1>2, <1>8 DEF Adds, Expanding
  <2> QED BY <1>4, <1>8, <2>1 DEF Supported
<1>9. ASSUME step.type \in {"present_signals", "synthesize_signals"}, ReadList(v, Signalled) # <<>>,
             Written(w, Evidenced) => Supported(w), NEW r \in v.result
      PROVE  Cites(r.value.citations, ReadList(v, Signalled))
  <2>1. Signalled \notin DOMAIN a
    BY <1>2, <1>9 DEF Adds
  <2>2. ReadList(v, Signalled) = ReadList(w, Signalled) /\ AreSignals(ReadList(w, Signalled))
    BY <1>4, <2>1 DEF Known
  <2>3. r.value.citations = IF Written(w, Evidenced) THEN Read(w, Evidenced)
                            ELSE Evidence(ReadList(w, Signalled))
    BY <1>1, <1>3, <1>9, <2>2 DEF Resulting
  <2>4. Cites(Evidence(ReadList(w, Signalled)), ReadList(w, Signalled))
    BY <2>2, EvidenceIs
  <2>5. Written(w, Evidenced) => Cites(Read(w, Evidenced), ReadList(w, Signalled))
    BY <1>9, <2>2 DEF Supported
  <2> QED BY <2>2, <2>3, <2>4, <2>5
<1> QED BY <1>5, <1>6, <1>7, <1>8, <1>9

\* Of the first n steps, one searched for signals after one expanded evidence.
SearchedAgain(n) ==
  \E i, j \in 1 .. n : i < j /\ steps[j].type = "find_signals" /\ steps[i].type \in Expanding

(***************************************************************************)
(* The invariant: evidence is written by a step that expands it only, and  *)
(* is of the signals the work has, if these were not searched for again.   *)
(***************************************************************************)
EvidenceInv ==
  /\ Known(work)
  /\ Written(work, Evidenced) => \E i \in 1 .. next - 1 : steps[i].type \in Expanding
  /\ Written(work, Evidenced) /\ ~SearchedAgain(next - 1) => Supported(work)
  /\ next > 1 /\ ReadList(work, Signalled) # <<>> /\ ~SearchedAgain(next - 1)
     /\ LastType \in {"present_signals", "synthesize_signals"}
       => \A r \in work.result : Cites(r.value.citations, ReadList(work, Signalled))

LEMMA NothingKnown == Known(NoWork) /\ ~Written(NoWork, Evidenced)
<1> DEFINE a == NoWork.artifacts
<1>1. DOMAIN a = {}
  BY DEF NoWork, NoOptions
<1> HIDE DEF a
<1>2. \A name : ~Written(NoWork, name) /\ ReadList(NoWork, name) = <<>>
  BY <1>1 DEF Written, ReadList, Opt, a
<1>3. AreSignals(<<>>)
  BY DEF AreSignals
<1> QED BY <1>2, <1>3 DEF Known

LEMMA EvidenceInit == TaskInit => EvidenceInv
  BY NothingKnown DEF TaskInit, EvidenceInv

LEMMA EvidenceNext == StepsInv /\ EvidenceInv /\ [TaskNext]_taskVars => EvidenceInv'
<1> SUFFICES ASSUME StepsInv, EvidenceInv, [TaskNext]_taskVars PROVE EvidenceInv'
  OBVIOUS
<1>1. ASSUME NEW answer \in Plans, Prepare(answer) PROVE EvidenceInv'
  <2>1. next = 1 /\ next' = 1 /\ work' = work
    BY <1>1 DEF Prepare, StepsInv
  <2>2. Known(work) /\ ~Written(work, Evidenced)
    BY <2>1 DEF EvidenceInv
  <2> QED BY <2>1, <2>2 DEF EvidenceInv
<1>2. ASSUME NEW text, ExecuteStep(text) PROVE EvidenceInv'
  <2> DEFINE step == steps[next]
  <2>1. /\ phase = "running" /\ work' = AfterStep(store, work, step, context, text)
        /\ next' = next + 1 /\ steps' = steps
    BY <1>2 DEF ExecuteStep
  <2>2. /\ plan \in Plans /\ PlanAccepted(plan) /\ PlanCompiles(plan, context) /\ steps = Compiled(plan, context)
        /\ next \in 1 .. Len(steps) + 1 /\ next # Len(steps) + 1
    BY <2>1 DEF StepsInv, Compiles
  <2>3. DOMAIN steps = 1 .. Len(steps) /\ Len(steps) \in Nat
    BY <2>2, CompiledIs
  <2>4. next \in DOMAIN steps /\ next \in Nat \ {0} /\ next' - 1 = next
    BY <2>1, <2>2, <2>3
  <2>5. step.type \in ActionTypes /\ IsScope(step.scope)
    BY <2>2, <2>4, StepsAre DEF StepScoped
  <2>6. IsStore(store)
    BY StoresAssumption DEF StepsInv
  <2>7. IsWork(work) /\ InOrder(work.task.actions) /\ Known(work)
    BY DEF StepsInv, EvidenceInv
  <2> HIDE DEF step
  <2>8. /\ Known(work')
        /\ Written(work', Evidenced) => Written(work, Evidenced) \/ step.type \in Expanding
        /\ step.type \in Expanding \/ (Supported(work) /\ step.type # "find_signals") => Supported(work')
        /\ step.type \in {"present_signals", "synthesize_signals"} /\ ReadList(work', Signalled) # <<>>
           /\ (Written(work, Evidenced) => Supported(work))
             => \A r \in work'.result : Cites(r.value.citations, ReadList(work', Signalled))
    BY <2>1, <2>5, <2>6, <2>7, EvidenceAfter
  <2>9. /\ 1 .. next - 1 \subseteq 1 .. next /\ next \in 1 .. next
        /\ \A i \in 1 .. next - 1 : i < next
    BY <2>4
  <2>10. SearchedAgain(next - 1) => SearchedAgain(next)
    BY <2>9 DEF SearchedAgain
  <2>11. SearchedAgain(next - 1)' <=> SearchedAgain(next)
    BY <2>1, <2>4 DEF SearchedAgain
  <2>12. Written(work', Evidenced) => \E i \in 1 .. next : steps[i].type \in Expanding
    BY <2>8, <2>9 DEF EvidenceInv, step
  <2>13. ASSUME Written(work', Evidenced), ~SearchedAgain(next) PROVE Supported(work')
    <3>1. CASE step.type \in Expanding
      BY <2>8, <3>1
    <3>2. CASE step.type \notin Expanding
      <4>1. Written(work, Evidenced) /\ Supported(work)
        BY <2>8, <2>10, <2>13, <3>2 DEF EvidenceInv
      <4>2. PICK i \in 1 .. next - 1 : steps[i].type \in Expanding
        BY <4>1 DEF EvidenceInv
      <4>3. step.type # "find_signals"
        BY <2>9, <2>13, <4>2 DEF SearchedAgain, step
      <4> QED BY <2>8, <4>1, <4>3
    <3> QED BY <3>1, <3>2
  <2>14. ASSUME ReadList(work', Signalled) # <<>>, ~SearchedAgain(next),
                step.type \in {"present_signals", "synthesize_signals"}
         PROVE  \A r \in work'.result : Cites(r.value.citations, ReadList(work', Signalled))
    <3>1. Written(work, Evidenced) => Supported(work)
      BY <2>10, <2>14 DEF EvidenceInv
    <3> QED BY <2>8, <2>14, <3>1
  <2>15. LastType' = step.type
    BY <2>1, <2>4 DEF LastType, step
  <2>16. (Written(work, Evidenced) => \E i \in 1 .. next - 1 : steps[i].type \in Expanding)'
    BY <2>1, <2>4, <2>12
  <2>17. (Written(work, Evidenced) /\ ~SearchedAgain(next - 1) => Supported(work))'
    BY <2>11, <2>13
  <2>18. (next > 1 /\ ReadList(work, Signalled) # <<>> /\ ~SearchedAgain(next - 1)
          /\ LastType \in {"present_signals", "synthesize_signals"}
            => \A r \in work.result : Cites(r.value.citations, ReadList(work, Signalled)))'
    BY <2>11, <2>14, <2>15
  <2> QED BY <2>8, <2>16, <2>17, <2>18 DEF EvidenceInv
<1>3. ASSUME UNCHANGED <<steps, next, work>> PROVE EvidenceInv'
  BY <1>3 DEF EvidenceInv, SearchedAgain, LastType
<1> QED BY <1>1, <1>2, <1>3 DEF TaskNext, FailStep, ChangeStores, taskVars

(***************************************************************************)
(* What is said about signals cites the evidence of these signals and of   *)
(* no others, however often they were searched for, merged or made on      *)
(* demand, as long as they were not searched for again after their evidence*)
(* was expanded (signal_evidence_or_expand takes what was expanded).       *)
(***************************************************************************)
THEOREM EvidenceOfSignalsHolds == TaskSpec => []EvidenceOfSignals
<1>1. EvidenceInv => EvidenceOfSignals
  BY DEF EvidenceInv, EvidenceOfSignals, SearchedAgain, Cites, Expanding, Signalled
<1>2. TaskSpec => []EvidenceInv
  BY StepsInvHolds, EvidenceInit, EvidenceNext, PTL DEF TaskSpec
<1> QED BY <1>1, <1>2, PTL
=============================================================================
