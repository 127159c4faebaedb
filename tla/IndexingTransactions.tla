------------------------ MODULE IndexingTransactions ------------------------
(***************************************************************************)
(* Requests of IndexingManifest as transactions of PostgreSQL, a statement *)
(* at a time, under READ COMMITTED (the engine asks for no other level): a *)
(* statement sees what was committed before it and what its transaction    *)
(* wrote, an UPDATE waits for the transaction that has written its row, and*)
(* of transactions that wait for each other one is rolled back.            *)
(*                                                                         *)
(* Kept is what transactions share: a document's two rows and its folders, *)
(* the parents of folders, the digests of their signal inputs.  The queries*)
(* behind a digest are one step, statements on rows that another row's lock*)
(* already covers are part of the step before.  Requests that index begin, *)
(* and those of folders write, with the row of their tenant.  All of them  *)
(* are of the same tenant, no row is of two.  Left out are deletions of    *)
(* folders, the versions of folders (each has one request, which may be    *)
(* repeated), rows of folder signals and the outbox, written last.         *)
(***************************************************************************)
EXTENDS Integers, Sequences, FiniteSets, FiniteSetsExt

CONSTANTS
  Unset,          \* an absent value
  Parents,        \* folder |-> parent, 0 for none; folders are numbered in the order of their ids
  Memberships,    \* document |-> its folders
  Requests,       \* "index" a document, "empty" one without text, "delete" one, or a "folder"
  MaxBegun,       \* bound: how many transactions there are
  MaxOpen         \* bound: how many of them at the same time

Kinds == {"index", "empty", "delete", "folder"}

ASSUME TransactionAssumption ==
  /\ Parents \in Seq(Nat)
  /\ \A r \in Requests : /\ r.kind \in Kinds
                         /\ IF r.kind = "folder" THEN r.folder \in DOMAIN Parents
                            ELSE r.document \in DOMAIN Memberships

VARIABLES
  tables,       \* what is committed: [source, index, member, parent, record]
  open,         \* transaction |-> [request, at, held, todo]: the statement it is at, the
                \* rows it has locked, the folders it has still to invalidate
  written,      \* transaction |-> what it has written to the tables
  seen,         \* transaction |-> what it has read: a folder's old parent, then digests
  begun,        \* transactions so far
  overlaps,     \* history: the pairs that were open at the same time
  changed,      \* history: <<transaction, document or folder>> it changed
  recordedBy    \* history: folder |-> the transaction whose digest it has

shared == <<tables, begun, overlaps, changed, recordedBy>>
transactionVars == <<shared, open, written, seen>>

-----------------------------------------------------------------------------
(* The ancestors of folders, themselves included, and what a digest is of. *)

\* WITH RECURSIVE: the least set that has the folders and the parents of its members.
Ancestors(v, folders) ==
  LET closed == {U \in SUBSET DOMAIN Parents :
                   /\ folders \cap DOMAIN Parents \subseteq U
                   /\ \A f \in U : v.parent[f] \in DOMAIN Parents => v.parent[f] \in U}
  IN  {a \in DOMAIN Parents : \A U \in closed : a \in U}

Subtree(v, f) == {g \in DOMAIN Parents : f \in Ancestors(v, {g})}

InputDigest(v, f) ==
  [folder |-> v.parent[f],
   documents |-> [d \in {x \in DOMAIN Memberships : /\ v.source[x].live
                                                    /\ v.member[x] \cap Subtree(v, f) # {}}
                    |-> <<v.source[d].version, v.index[d]>>]]

-----------------------------------------------------------------------------
Unwritten == [k \in {"source", "index", "member", "parent", "record"} |-> <<>>]

\* f over g, and f with another value at x.
Over(f, g) == [x \in DOMAIN f \cup DOMAIN g |-> IF x \in DOMAIN f THEN f[x] ELSE g[x]]
Put(f, x, value) == [y \in DOMAIN f \cup {x} |-> IF y = x THEN value ELSE f[y]]

\* What a statement of t sees.
View(t) == [k \in DOMAIN Unwritten |-> Over(written[t][k], tables[k])]

\* Mutant: the folders of the document first, then their ancestors.
DirectFirst(t) ==
  LET r == open[t].request
      direct == open[t].todo \cap IF r.kind = "folder" THEN {} ELSE View(t).member[r.document]
  IN  Min(IF direct = {} THEN open[t].todo ELSE direct)

\* FolderSignalInvalidationService.invalidate: sorted(set(folder_ids))
NextFolder(t) == Min(open[t].todo)

\* The row of upsert_tenant_scope, which requests that index lock before any other.
TenantScope == {<<"scope", 0>>}

\* The rows that the next statement of t writes, if it writes any.
Wanted(t) ==
  LET r == open[t].request
  IN  CASE open[t].at \in {"source", "source deleted"} -> {<<"source", r.document>>}
        [] open[t].at = "index" -> {<<"index", r.document>>}
        [] open[t].at = "folder" -> TenantScope \cup {<<"parent", r.folder>>}
        [] open[t].at = "own record" -> {<<"record", r.folder>>}
        [] open[t].at = "record" -> {<<"record", NextFolder(t)>>}
        [] OTHER -> {}

Waits(t, u) == t # u /\ Wanted(t) \cap open[u].held # {}

At(t, statement) == open[t].at = statement
Is(t, kinds) == open[t].request.kind \in kinds

\* t executes its statement, which locks what it writes, and is at another one.
Executes(t, statement, todo) ==
  /\ \A u \in DOMAIN open : ~Waits(t, u)
  /\ open' = [open EXCEPT ![t] = [request |-> open[t].request, at |-> statement,
                                  held |-> open[t].held \cup Wanted(t), todo |-> todo]]
  /\ UNCHANGED shared

Writes(t, table, x, value) == written' = [written EXCEPT ![t][table] = Put(@, x, value)]
Reads(t) == UNCHANGED <<written, seen>>

Without(t, f) == [u \in DOMAIN f \ {t} |-> f[u]]
Ends(t) == open' = Without(t, open) /\ written' = Without(t, written) /\ seen' = Without(t, seen)

\* The rows a request has locked once it is at its first statement here: while one that
\* indexes a document waits for its tenant's row, it has read and locked nothing, so it
\* has not begun.
FirstHeld(r) == IF r.kind \in {"index", "empty"} THEN TenantScope ELSE {}

Begin(r) ==
  /\ begun < MaxBegun /\ Cardinality(DOMAIN open) < MaxOpen
  /\ \A u \in DOMAIN open : FirstHeld(r) \cap open[u].held = {}
  /\ begun' = begun + 1
  /\ open' = [t \in DOMAIN open \cup {begun'} |->
               IF t # begun' THEN open[t]
               ELSE [request |-> r, held |-> FirstHeld(r), todo |-> {},
                     at |-> IF r.kind \in {"index", "empty"} THEN "source" ELSE "look"]]
  /\ written' = Put(written, begun', Unwritten)
  /\ seen' = Put(seen, begun', Unset)
  /\ overlaps' = overlaps \cup {<<begun', u>> : u \in DOMAIN open} \cup {<<u, begun'>> : u \in DOMAIN open}
  /\ UNCHANGED <<tables, changed, recordedBy>>

-----------------------------------------------------------------------------
(* DocumentIndexingService._replace_index, _delete_empty_document          *)

UpsertDocumentSource(t) ==
  LET r == open[t].request
  IN  /\ At(t, "source")
      /\ r.version >= tables.source[r.document].version
      /\ Executes(t, IF r.kind = "index" THEN "index" ELSE "look", {})
      /\ Writes(t, "source", r.document, [version |-> r.version, live |-> TRUE])
      /\ UNCHANGED seen

UpsertDocumentIndexRecord(t) ==
  LET r == open[t].request
  IN  /\ At(t, "index") /\ Is(t, {"index"})
      /\ Executes(t, "relations", {})
      /\ Writes(t, "index", r.document, r.version)
      /\ UNCHANGED seen

\* Mutant: the folders the document has left are forgotten.
CurrentFolders(previous, current) == current
BothFolders(previous, current) == previous \cup current

ReplaceFolderRelations(t) ==
  LET r == open[t].request
      previous == View(t).member[r.document]
      current == IF r.folders = Unset THEN previous ELSE r.folders
  IN  /\ At(t, "relations")
      /\ Executes(t, "invalidate", Ancestors(View(t), BothFolders(previous, current)))
      /\ Writes(t, "member", r.document, current)
      /\ UNCHANGED seen

-----------------------------------------------------------------------------
(* DocumentIndexingService._mark_deleted: nothing is locked by the look.   *)

LookAtDocument(t) ==
  LET d == open[t].request.document
  IN  /\ At(t, "look") /\ Is(t, {"empty", "delete"})
      /\ View(t).source[d].live
      /\ Executes(t, "index", Ancestors(View(t), View(t).member[d]))
      /\ Reads(t)

\* mark_document_projection_deleted, delete_for_document
MarkDocumentProjectionDeleted(t) ==
  LET d == open[t].request.document
  IN  /\ At(t, "index") /\ Is(t, {"empty", "delete"})
      /\ Executes(t, "source deleted", open[t].todo)
      /\ written' = [written EXCEPT ![t].index = Put(@, d, 0), ![t].member = Put(@, d, {})]
      /\ UNCHANGED seen

MarkDocumentSourceDeleted(t) ==
  LET d == open[t].request.document
  IN  /\ At(t, "source deleted")
      /\ Executes(t, "invalidate", open[t].todo)
      /\ Writes(t, "source", d, [View(t).source[d] EXCEPT !.live = FALSE])
      /\ UNCHANGED seen

\* A request of an older version, or of what is deleted, changes nothing.
Leave(t) ==
  LET r == open[t].request
  IN  /\ \/ At(t, "source") /\ r.version < tables.source[r.document].version
         \/ At(t, "look") /\ Is(t, {"empty", "delete"}) /\ ~View(t).source[r.document].live
      /\ \A u \in DOMAIN open : ~Waits(t, u)
      /\ Ends(t) /\ UNCHANGED shared

-----------------------------------------------------------------------------
(* FolderIndexingService._replace_index                                    *)

LookAtFolder(t) ==
  /\ At(t, "look") /\ Is(t, {"folder"})
  /\ Executes(t, "folder", {})
  /\ seen' = [seen EXCEPT ![t] = tables.parent[open[t].request.folder]]
  /\ UNCHANGED written

UpsertFolderSource(t) ==
  LET r == open[t].request
      f == r.folder
      after == [View(t) EXCEPT !.parent[f] = r.parent]
      affected == IF seen[t] = r.parent THEN {}
                  ELSE Ancestors(after, {f}) \cup Ancestors(after, {seen[t]} \ {0})
  IN  /\ At(t, "folder")
      /\ Executes(t, "own", {f} \cup affected)
      /\ Writes(t, "parent", f, r.parent)
      /\ UNCHANGED seen

-----------------------------------------------------------------------------
(* FolderSignalInvalidationService: a digest is read, then recorded.  A    *)
(* folder's own record is upserted first, then invalidated with the others.*)

ReadDigest(t) ==
  \/ /\ At(t, "own")
     /\ Executes(t, "own record", open[t].todo)
     /\ seen' = [seen EXCEPT ![t] = InputDigest(View(t), open[t].request.folder)]
     /\ UNCHANGED written
  \/ /\ At(t, "invalidate") /\ open[t].todo # {}
     /\ Executes(t, "record", open[t].todo)
     /\ seen' = [seen EXCEPT ![t] = InputDigest(View(t), NextFolder(t))]
     /\ UNCHANGED written

UpsertFolderIndexRecord(t) ==
  /\ At(t, "own record")
  /\ Executes(t, "invalidate", open[t].todo)
  /\ Writes(t, "record", open[t].request.folder, seen[t])
  /\ UNCHANGED seen

MarkFolderSignalsPending(t) ==
  /\ At(t, "record")
  /\ Executes(t, "invalidate", open[t].todo \ {NextFolder(t)})
  /\ Writes(t, "record", NextFolder(t), seen[t])
  /\ UNCHANGED seen

Commit(t) ==
  /\ At(t, "invalidate") /\ open[t].todo = {}
  /\ Ends(t)
  /\ tables' = View(t)
  /\ changed' = changed \cup {<<t, x>> : x \in DOMAIN written[t].source \cup DOMAIN written[t].parent}
  /\ recordedBy' = Over([f \in DOMAIN written[t].record |-> t], recordedBy)
  /\ UNCHANGED <<begun, overlaps>>

-----------------------------------------------------------------------------
\* Transactions that wait for each other, and no fewer of them do.
Closed(S) == S # {} /\ \A t \in S : \E u \in S : Waits(t, u)
Cycles == {S \in SUBSET DOMAIN open : Closed(S) /\ \A Q \in SUBSET S : Closed(Q) => Q = S}

\* PostgreSQL ends a deadlock by rolling back one of those who wait.
RollBack(t) == t \in UNION Cycles /\ Ends(t) /\ UNCHANGED shared

TransactionInit ==
  LET start == [source |-> [d \in DOMAIN Memberships |-> [version |-> 1, live |-> TRUE]],
                index |-> [d \in DOMAIN Memberships |-> 1],
                member |-> Memberships, parent |-> Parents, record |-> <<>>]
  IN  /\ tables = [start EXCEPT !.record = [f \in DOMAIN Parents |-> InputDigest(start, f)]]
      /\ open = <<>> /\ written = <<>> /\ seen = <<>> /\ begun = 0
      /\ overlaps = {} /\ changed = {} /\ recordedBy = [f \in DOMAIN Parents |-> 0]

\* No transaction runs.
NoTransaction ==
  /\ tables = Unset /\ begun = MaxBegun
  /\ open = <<>> /\ written = <<>> /\ seen = <<>>
  /\ overlaps = {} /\ changed = {} /\ recordedBy = Unset

Statement(t) ==
  \/ UpsertDocumentSource(t) \/ UpsertDocumentIndexRecord(t) \/ ReplaceFolderRelations(t)
  \/ LookAtDocument(t) \/ MarkDocumentProjectionDeleted(t) \/ MarkDocumentSourceDeleted(t)
  \/ Leave(t) \/ LookAtFolder(t) \/ UpsertFolderSource(t)
  \/ ReadDigest(t) \/ UpsertFolderIndexRecord(t) \/ MarkFolderSignalsPending(t) \/ Commit(t)

TransactionNext ==
  \/ \E r \in Requests : Begin(r)
  \/ \E t \in DOMAIN open : Statement(t) \/ RollBack(t)

TransactionSpec == TransactionInit /\ [][TransactionNext]_transactionVars

-----------------------------------------------------------------------------
\* What a digest says of a document, Unset if nothing.
Says(digest, d) == IF d \in DOMAIN digest.documents THEN digest.documents[d] ELSE Unset

(***************************************************************************)
(* A digest misses a change of a document below the folder, or of the      *)
(* folder itself, only if the request that recorded it overlapped with one *)
(* that changed the document, or moved a folder: requests in turn keep     *)
(* every digest that of the tables, and the next one after them mends it.  *)
(***************************************************************************)
StaleOnlyIfOverlapped ==
  tables # Unset =>
    \A f \in DOMAIN Parents :
      LET kept == tables.record[f]
          fresh == InputDigest(tables, f)
          Overlapped(X) == \E c \in changed : c[2] \in X /\ <<c[1], recordedBy[f]>> \in overlaps
      IN  /\ \A d \in DOMAIN Memberships :
               Says(kept, d) # Says(fresh, d) => Overlapped({d} \cup DOMAIN Parents)
          /\ kept.folder # fresh.folder => Overlapped({f})

(***************************************************************************)
(* Where transactions wait for each other in a cycle, all of them but one  *)
(* delete documents.  That one indexes a folder (its own record is locked  *)
(* before those of its ancestors), or it indexes a document that one of the*)
(* others deletes (its two rows are locked in opposite orders).  Neither   *)
(* requests that index wait in a cycle without a deletion, nor deletions   *)
(* without one that indexes.                                               *)
(***************************************************************************)
DocumentsDoNotDeadlock ==
  \A S \in Cycles :
    \E u \in S :
      /\ \A t \in S \ {u} : open[t].request.kind = "delete"
      /\ \/ open[u].request.kind = "folder"
         \/ /\ open[u].request.kind \in {"index", "empty"}
            /\ \E t \in S : /\ open[t].request.kind = "delete"
                            /\ open[t].request.document = open[u].request.document
=============================================================================
