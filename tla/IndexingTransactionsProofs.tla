--------------------- MODULE IndexingTransactionsProofs ---------------------
(***************************************************************************)
(* Proofs about requests, for every tree of folders, every set of requests *)
(* and any number of transactions.                                         *)
(*                                                                         *)
(* A deadlock needs a deletion, and something to index.  In a cycle of     *)
(* waits everyone holds a row, and who indexes holds that of the tenant,   *)
(* so only one does.  The others lock folder records in the order of their *)
(* ids, so without a folder to index the one that wants the greatest       *)
(* record waits for nobody in the cycle; and before the records a          *)
(* document's two rows are locked in an order that only a deletion         *)
(* reverses.                                                               *)
(*                                                                         *)
(* A stale digest was recorded beside the change that it misses.  What a   *)
(* request has read or recorded is right but for what others changed while *)
(* it was open; and of a folder whose record it leaves alone, either       *)
(* nothing it changes is below the folder, or the record is that of a      *)
(* request that overlapped with it or with what it did not see.            *)
(***************************************************************************)
EXTENDS IndexingTransactions, FiniteSetTheorems, TLAPS

-----------------------------------------------------------------------------
(* Finite sets of integers.                                                *)

\* A finite, nonempty set of integers has a greatest and a least element: the set of
\* its upper (lower) parts is ordered by inclusion, which is well-founded.
LEMMA GreatestElement ==
  ASSUME NEW W \in SUBSET Int, IsFiniteSet(W), W # {}
  PROVE  \E a \in W : \A x \in W : x <= a
<1> DEFINE Above(a) == {x \in W : x >= a}
           T == {A \in SUBSET W : \E a \in W : A = Above(a)}
<1>1. \A a \in W : Above(a) \in T
  OBVIOUS
<1>2. T \subseteq FiniteSubsetsOf(W) /\ T # {}
  <2>1. FiniteSubsetsOf(W) = SUBSET W
    BY FS_FiniteSubsetsOfFinite
  <2>2. T \subseteq SUBSET W
    OBVIOUS
  <2>3. T # {}
    BY <1>1
  <2> QED BY <2>1, <2>2, <2>3
<1>3. PICK A \in T : \A B \in T : <<B, A>> \notin StrictSubsetOrdering(W)
  <2> HIDE DEF T
  <2> QED BY <1>2, FS_StrictSubsetOrderingWellFounded, WFMin
<1>4. PICK a \in W : A = Above(a)
  OBVIOUS
<1>5. ASSUME NEW x \in W, x > a PROVE FALSE
  <2>1. a \in Int /\ x \in Int /\ ~(a >= x)
    BY <1>5
  <2>2. \A y \in W : y \in Int /\ (y >= x => y >= a)
    BY <1>5, <2>1
  <2>3. Above(x) \subseteq Above(a)
    BY <2>2
  <2>4. a \in Above(a) /\ a \notin Above(x)
    BY <2>1
  <2>5. Above(x) # A /\ Above(x) \subseteq A
    BY <1>4, <2>3, <2>4
  <2>6. <<Above(x), A>> \in StrictSubsetOrdering(W)
    BY <1>1, <2>5 DEF StrictSubsetOrdering
  <2> QED BY <1>1, <1>3, <2>6
<1>6. \A x \in W : x <= a
  BY <1>5
<1> QED BY <1>6

LEMMA LeastElement ==
  ASSUME NEW W \in SUBSET Int, IsFiniteSet(W), W # {}
  PROVE  Min(W) \in W /\ \A x \in W : Min(W) <= x
<1> DEFINE Below(a) == {x \in W : x <= a}
           T == {A \in SUBSET W : \E a \in W : A = Below(a)}
<1>1. \A a \in W : Below(a) \in T
  OBVIOUS
<1>2. T \subseteq FiniteSubsetsOf(W) /\ T # {}
  <2>1. FiniteSubsetsOf(W) = SUBSET W
    BY FS_FiniteSubsetsOfFinite
  <2>2. T \subseteq SUBSET W
    OBVIOUS
  <2>3. T # {}
    BY <1>1
  <2> QED BY <2>1, <2>2, <2>3
<1>3. PICK A \in T : \A B \in T : <<B, A>> \notin StrictSubsetOrdering(W)
  <2> HIDE DEF T
  <2> QED BY <1>2, FS_StrictSubsetOrderingWellFounded, WFMin
<1>4. PICK a \in W : A = Below(a)
  OBVIOUS
<1>5. ASSUME NEW x \in W, x < a PROVE FALSE
  <2>1. a \in Int /\ x \in Int /\ ~(a <= x)
    BY <1>5
  <2>2. \A y \in W : y \in Int /\ (y <= x => y <= a)
    BY <1>5, <2>1
  <2>3. Below(x) \subseteq Below(a)
    BY <2>2
  <2>4. a \in Below(a) /\ a \notin Below(x)
    BY <2>1
  <2>5. Below(x) # A /\ Below(x) \subseteq A
    BY <1>4, <2>3, <2>4
  <2>6. <<Below(x), A>> \in StrictSubsetOrdering(W)
    BY <1>1, <2>5 DEF StrictSubsetOrdering
  <2> QED BY <1>1, <1>3, <2>6
<1>6. \A x \in W : a <= x
  BY <1>5
<1> QED BY <1>6 DEF Min

\* Sets of folders have a least and a greatest element.
LEMMA FoldersFinite ==
  ASSUME NEW W \in SUBSET DOMAIN Parents
  PROVE  W \in SUBSET Int /\ IsFiniteSet(W)
<1>1. DOMAIN Parents = 1 .. Len(Parents) /\ Len(Parents) \in Nat
  BY TransactionAssumption
<1>2. IsFiniteSet(1 .. Len(Parents))
  BY <1>1, FS_Interval
<1>3. IsFiniteSet(W)
  BY <1>1, <1>2, FS_Subset
<1>4. W \in SUBSET Int
  BY <1>1
<1> QED BY <1>3, <1>4

-----------------------------------------------------------------------------
(* The inductive invariant.                                                *)

RecordRows == {"record"} \X DOMAIN Parents

\* How far a request about a document is, given what it has locked: an index request and
\* a deletion of an empty document hold the source from their first statement on, a
\* deletion holds it last; records are held only by who goes on to greater ones.  Who
\* indexes holds the tenant's row, or is about a folder and holds nothing yet.
Orderly(o) ==
  LET source == <<"source", o.request.document>>
      index == <<"index", o.request.document>>
  IN  /\ o.request.kind \in Kinds
      /\ o.request.kind \in {"index", "empty"} => TenantScope \subseteq o.held
      /\ o.request.kind = "folder" =>
           /\ o.at \in {"look", "folder", "own", "own record", "invalidate", "record"}
           /\ IF o.at \in {"look", "folder"} THEN o.held = {} ELSE TenantScope \subseteq o.held
      /\ o.request.kind # "folder" =>
           /\ o.todo \subseteq DOMAIN Parents
           /\ o.at \in {"source", "look", "index", "relations", "source deleted", "invalidate", "record"}
           /\ o.at = "record" => o.todo # {}
           /\ o.held \subseteq {source, index} \cup RecordRows \cup TenantScope
           /\ index \in o.held => o.at \in {"relations", "source deleted", "invalidate", "record"}
           /\ \A f \in DOMAIN Parents : <<"record", f>> \in o.held =>
                /\ o.at \in {"invalidate", "record"}
                /\ \A g \in o.todo : f < g
      /\ o.request.kind \in {"index", "empty"} => (source \in o.held <=> o.at # "source")
      /\ o.request.kind = "delete" =>
           /\ o.at # "source"
           /\ source \in o.held => o.at \in {"invalidate", "record"}

LockInv ==
  /\ \A t \in DOMAIN open : Orderly(open[t])
  /\ \A t, u \in DOMAIN open : t # u => open[t].held \cap open[u].held = {}

-----------------------------------------------------------------------------
\* A statement keeps the invariant if it leaves its own transaction in order: that the
\* row it locks is held by no other is the guard of every statement.
LEMMA ExecutesKeeps ==
  ASSUME LockInv, NEW t \in DOMAIN open, NEW statement, NEW todo,
         Executes(t, statement, todo),
         Orderly([request |-> open[t].request, at |-> statement,
                  held |-> open[t].held \cup Wanted(t), todo |-> todo])
  PROVE  LockInv'
<1> DEFINE o == [request |-> open[t].request, at |-> statement,
                 held |-> open[t].held \cup Wanted(t), todo |-> todo]
<1>1. open' = [open EXCEPT ![t] = o] /\ \A u \in DOMAIN open : u # t => Wanted(t) \cap open[u].held = {}
  BY DEF Executes, Waits
<1>2. o.held = open[t].held \cup Wanted(t)
  OBVIOUS
<1>3. Orderly(o)
  OBVIOUS
<1> HIDE DEF o
<1>4. DOMAIN open' = DOMAIN open /\ open'[t] = o /\ \A u \in DOMAIN open : u # t => open'[u] = open[u]
  BY <1>1
<1>5. \A u \in DOMAIN open' : Orderly(open'[u])
  BY <1>3, <1>4 DEF LockInv
<1>6. ASSUME NEW u \in DOMAIN open', NEW v \in DOMAIN open', u # v
      PROVE  open'[u].held \cap open'[v].held = {}
  <2>1. open[u].held \cap open[v].held = {}
    BY <1>4, <1>6 DEF LockInv
  <2>2. CASE u = t
    BY <1>1, <1>2, <1>4, <1>6, <2>1, <2>2
  <2>3. CASE v = t
    BY <1>1, <1>2, <1>4, <1>6, <2>1, <2>3
  <2>4. CASE u # t /\ v # t
    BY <1>4, <2>1, <2>4
  <2> QED BY <2>2, <2>3, <2>4
<1>7. \A u \in DOMAIN open' : Orderly(open[u])' <=> Orderly(open'[u])
  BY DEF Orderly
<1> QED BY <1>5, <1>6 DEF LockInv, Orderly, RecordRows

\* What ends holds nothing any more.
LEMMA EndsKeeps ==
  ASSUME LockInv, NEW t \in DOMAIN open, Ends(t)
  PROVE  LockInv'
<1>1. open' = [u \in DOMAIN open \ {t} |-> open[u]]
  BY DEF Ends, Without
<1>2. DOMAIN open' \subseteq DOMAIN open /\ \A u \in DOMAIN open' : open'[u] = open[u]
  BY <1>1
<1>3. \A u \in DOMAIN open' : Orderly(open'[u])
  BY <1>2 DEF LockInv
<1>4. \A u, v \in DOMAIN open' : u # v => open'[u].held \cap open'[v].held = {}
  BY <1>2 DEF LockInv
<1> QED BY <1>3, <1>4 DEF LockInv, Orderly, RecordRows

\* What begins holds nothing but its tenant's row, which nobody else does.
LEMMA BeginKeeps ==
  ASSUME LockInv, NEW r \in Requests, Begin(r)
  PROVE  LockInv'
<1> DEFINE o == [request |-> r, held |-> FirstHeld(r), todo |-> {},
                 at |-> IF r.kind \in {"index", "empty"} THEN "source" ELSE "look"]
<1>1. open' = [t \in DOMAIN open \cup {begun'} |-> IF t # begun' THEN open[t] ELSE o]
  BY DEF Begin
<1>2. r.kind \in Kinds
  BY TransactionAssumption
<1>3. Orderly(o) /\ o.held = FirstHeld(r)
  BY <1>2 DEF Orderly, RecordRows, Kinds, FirstHeld, TenantScope
<1> HIDE DEF o
<1>4. /\ DOMAIN open' = DOMAIN open \cup {begun'}
      /\ open'[begun'] = o
      /\ \A u \in DOMAIN open : u # begun' => open'[u] = open[u]
  BY <1>1
<1>5. \A u \in DOMAIN open' : Orderly(open'[u])
  BY <1>3, <1>4 DEF LockInv
<1>6. \A u, v \in DOMAIN open' : u # v => open'[u].held \cap open'[v].held = {}
  <2>1. \A u \in DOMAIN open : FirstHeld(r) \cap open[u].held = {}
    BY DEF Begin
  <2> QED BY <2>1, <1>3, <1>4 DEF LockInv
<1> QED BY <1>5, <1>6 DEF LockInv, Orderly, RecordRows

-----------------------------------------------------------------------------
(* Statements of the three requests about documents.                       *)

LEMMA SourceSteps ==
  ASSUME LockInv, NEW t \in DOMAIN open,
         UpsertDocumentSource(t) \/ UpsertDocumentIndexRecord(t) \/ ReplaceFolderRelations(t)
  PROVE  LockInv'
<1> DEFINE o == open[t]
           After(statement, todo) == [request |-> o.request, at |-> statement,
                                      held |-> o.held \cup Wanted(t), todo |-> todo]
<1>0. Orderly(o)
  BY DEF LockInv
<1>1. CASE UpsertDocumentSource(t)
  <2> DEFINE s == IF o.request.kind = "index" THEN "index" ELSE "look"
  <2>1. Executes(t, s, {}) /\ o.at = "source"
    BY <1>1 DEF UpsertDocumentSource, At
  <2>2. Wanted(t) = {<<"source", o.request.document>>}
    BY <2>1 DEF Wanted
  <2>3. Orderly(After(s, {}))
    BY <1>0, <2>1, <2>2 DEF Orderly, RecordRows, Kinds
  <2> QED BY <2>1, <2>3, ExecutesKeeps
<1>2. CASE UpsertDocumentIndexRecord(t)
  <2>1. Executes(t, "relations", {}) /\ o.at = "index" /\ o.request.kind = "index"
    BY <1>2 DEF UpsertDocumentIndexRecord, At, Is
  <2>2. Wanted(t) = {<<"index", o.request.document>>}
    BY <2>1 DEF Wanted
  <2>3. Orderly(After("relations", {}))
    BY <1>0, <2>1, <2>2 DEF Orderly, RecordRows, Kinds
  <2> QED BY <2>1, <2>3, ExecutesKeeps
<1>3. CASE ReplaceFolderRelations(t)
  <2>1. o.at = "relations"
    BY <1>3 DEF ReplaceFolderRelations, At
  <2>2. PICK todo : todo \subseteq DOMAIN Parents /\ Executes(t, "invalidate", todo)
    BY <1>3 DEF ReplaceFolderRelations, Ancestors
  <2>3. Wanted(t) = {}
    BY <2>1 DEF Wanted
  <2>4. Orderly(After("invalidate", todo))
    BY <1>0, <2>1, <2>2, <2>3 DEF Orderly, RecordRows, Kinds
  <2> QED BY <2>2, <2>4, ExecutesKeeps
<1> QED BY <1>1, <1>2, <1>3

LEMMA DeletionSteps ==
  ASSUME LockInv, NEW t \in DOMAIN open,
         LookAtDocument(t) \/ MarkDocumentProjectionDeleted(t) \/ MarkDocumentSourceDeleted(t)
  PROVE  LockInv'
<1> DEFINE o == open[t]
           After(statement, todo) == [request |-> o.request, at |-> statement,
                                      held |-> o.held \cup Wanted(t), todo |-> todo]
<1>0. Orderly(o)
  BY DEF LockInv
<1>1. CASE LookAtDocument(t)
  <2>1. o.at = "look" /\ o.request.kind \in {"empty", "delete"}
    BY <1>1 DEF LookAtDocument, At, Is
  <2>2. PICK todo : todo \subseteq DOMAIN Parents /\ Executes(t, "index", todo)
    BY <1>1 DEF LookAtDocument, Ancestors
  <2>3. Wanted(t) = {}
    BY <2>1 DEF Wanted
  <2>4. Orderly(After("index", todo))
    BY <1>0, <2>1, <2>2, <2>3 DEF Orderly, RecordRows, Kinds
  <2> QED BY <2>2, <2>4, ExecutesKeeps
<1>2. CASE MarkDocumentProjectionDeleted(t)
  <2>1. Executes(t, "source deleted", o.todo) /\ o.at = "index" /\ o.request.kind \in {"empty", "delete"}
    BY <1>2 DEF MarkDocumentProjectionDeleted, At, Is
  <2>2. Wanted(t) = {<<"index", o.request.document>>}
    BY <2>1 DEF Wanted
  <2>3. Orderly(After("source deleted", o.todo))
    BY <1>0, <2>1, <2>2 DEF Orderly, RecordRows, Kinds
  <2> QED BY <2>1, <2>3, ExecutesKeeps
<1>3. CASE MarkDocumentSourceDeleted(t)
  <2>1. Executes(t, "invalidate", o.todo) /\ o.at = "source deleted"
    BY <1>3 DEF MarkDocumentSourceDeleted, At
  <2>2. Wanted(t) = {<<"source", o.request.document>>}
    BY <2>1 DEF Wanted
  <2>3. Orderly(After("invalidate", o.todo))
    BY <1>0, <2>1, <2>2 DEF Orderly, RecordRows, Kinds
  <2> QED BY <2>1, <2>3, ExecutesKeeps
<1> QED BY <1>1, <1>2, <1>3

-----------------------------------------------------------------------------
(* Statements on folders.                                                  *)

\* Of a request about a folder it is said that it locks what nobody holds, and when it
\* has the tenant's row.
LEMMA FolderSteps ==
  ASSUME LockInv, NEW t \in DOMAIN open, open[t].request.kind = "folder",
         NEW statement, NEW todo, Executes(t, statement, todo),
         \/ At(t, "look") /\ statement = "folder"
         \/ ~At(t, "look") /\ statement \in {"own", "own record", "invalidate", "record"}
  PROVE  LockInv'
<1> DEFINE o == [request |-> open[t].request, at |-> statement,
                 held |-> open[t].held \cup Wanted(t), todo |-> todo]
<1>0. Orderly(open[t])
  BY DEF LockInv
<1>1. CASE At(t, "look")
  <2>1. Wanted(t) = {} /\ open[t].held = {} /\ statement = "folder"
    BY <1>0, <1>1 DEF Wanted, Orderly, At
  <2>2. Orderly(o)
    BY <1>0, <2>1 DEF Orderly, Kinds
  <2> QED BY <2>2, ExecutesKeeps
<1>2. CASE ~At(t, "look")
  <2>1. TenantScope \subseteq open[t].held \cup Wanted(t)
    BY <1>0, <1>2 DEF Wanted, Orderly, At
  <2>2. Orderly(o)
    BY <1>0, <1>2, <2>1 DEF Orderly, Kinds
  <2> QED BY <2>2, ExecutesKeeps
<1> QED BY <1>1, <1>2

\* The folders still to invalidate come after the one that is being invalidated.
LEMMA InvalidationSteps ==
  ASSUME LockInv, NEW t \in DOMAIN open, open[t].request.kind # "folder",
         ReadDigest(t) \/ UpsertFolderIndexRecord(t) \/ MarkFolderSignalsPending(t)
  PROVE  LockInv'
<1> DEFINE o == open[t]
           After(statement, todo) == [request |-> o.request, at |-> statement,
                                      held |-> o.held \cup Wanted(t), todo |-> todo]
<1>0. Orderly(o)
  BY DEF LockInv
<1>1. o.at \notin {"own", "own record"}
  BY <1>0 DEF Orderly
<1>2. CASE ReadDigest(t)
  <2>1. Executes(t, "record", o.todo) /\ o.at = "invalidate" /\ o.todo # {}
    BY <1>1, <1>2 DEF ReadDigest, At
  <2>2. Wanted(t) = {}
    BY <2>1 DEF Wanted
  <2>3. Orderly(After("record", o.todo))
    BY <1>0, <2>1, <2>2 DEF Orderly, RecordRows, Kinds
  <2> QED BY <2>1, <2>3, ExecutesKeeps
<1>3. CASE UpsertFolderIndexRecord(t)
  BY <1>1, <1>3 DEF UpsertFolderIndexRecord, At
<1>4. CASE MarkFolderSignalsPending(t)
  <2> DEFINE n == NextFolder(t)
             todo == o.todo \ {n}
  <2>1. Executes(t, "invalidate", todo) /\ o.at = "record"
    BY <1>4 DEF MarkFolderSignalsPending, At
  <2>2. Wanted(t) = {<<"record", n>>}
    BY <2>1 DEF Wanted
  <2>3. o.todo \subseteq DOMAIN Parents /\ o.todo # {}
    BY <1>0, <2>1 DEF Orderly
  <2>4. o.todo \in SUBSET Int /\ IsFiniteSet(o.todo)
    BY <2>3, FoldersFinite
  <2>5. n \in o.todo /\ \A g \in o.todo : n <= g
    BY <2>3, <2>4, LeastElement DEF NextFolder
  <2>6. \A g \in todo : n < g
    BY <2>4, <2>5
  <2> HIDE DEF n
  <2>7. Orderly(After("invalidate", todo))
    BY <1>0, <2>1, <2>2, <2>3, <2>5, <2>6 DEF Orderly, RecordRows, Kinds
  <2> QED BY <2>1, <2>7, ExecutesKeeps
<1> QED BY <1>2, <1>3, <1>4

\* Every step keeps the invariant.
LEMMA LockInvKept ==
  ASSUME LockInv, [TransactionNext]_transactionVars
  PROVE  LockInv'
<1>1. ASSUME NEW r \in Requests, Begin(r) PROVE LockInv'
  BY <1>1, BeginKeeps
<1>2. ASSUME NEW t \in DOMAIN open, Statement(t) PROVE LockInv'
  <2>1. CASE UpsertDocumentSource(t) \/ UpsertDocumentIndexRecord(t) \/ ReplaceFolderRelations(t)
    BY <2>1, SourceSteps
  <2>2. CASE LookAtDocument(t) \/ MarkDocumentProjectionDeleted(t) \/ MarkDocumentSourceDeleted(t)
    BY <2>2, DeletionSteps
  <2>3. CASE Leave(t) \/ Commit(t)
    BY <2>3, EndsKeeps DEF Leave, Commit
  <2>4. CASE open[t].request.kind = "folder" /\ (LookAtFolder(t) \/ ReadDigest(t))
    BY <2>4, FolderSteps DEF LookAtFolder, ReadDigest, At
  <2>5. CASE open[t].request.kind = "folder" /\ UpsertFolderSource(t)
    BY <2>5, FolderSteps DEF UpsertFolderSource, At
  <2>6. CASE open[t].request.kind = "folder" /\ (UpsertFolderIndexRecord(t) \/ MarkFolderSignalsPending(t))
    BY <2>6, FolderSteps DEF UpsertFolderIndexRecord, MarkFolderSignalsPending, At
  <2>7. CASE open[t].request.kind # "folder"
             /\ (ReadDigest(t) \/ UpsertFolderIndexRecord(t) \/ MarkFolderSignalsPending(t))
    BY <2>7, InvalidationSteps
  <2>8. LookAtFolder(t) => open[t].request.kind = "folder"
    BY DEF LookAtFolder, Is
  <2>9. UpsertFolderSource(t) => open[t].request.kind = "folder"
    BY DEF UpsertFolderSource, At, LockInv, Orderly
  <2> QED BY <1>2, <2>1, <2>2, <2>3, <2>4, <2>5, <2>6, <2>7, <2>8, <2>9 DEF Statement
<1>3. ASSUME NEW t \in DOMAIN open, RollBack(t) PROVE LockInv'
  BY <1>3, EndsKeeps DEF RollBack
<1>4. CASE UNCHANGED transactionVars
  BY <1>4 DEF transactionVars, LockInv, Orderly, RecordRows
<1> QED BY <1>1, <1>2, <1>3, <1>4 DEF TransactionNext

-----------------------------------------------------------------------------
(* No cycle of waits among requests about documents.                       *)

\* Who waits for a folder's record waits for someone who wants no record, or a greater one.
LEMMA RecordsAscend ==
  ASSUME LockInv, NEW u \in DOMAIN open, open[u].request.kind # "folder",
         NEW f \in DOMAIN Parents, <<"record", f>> \in open[u].held
  PROVE  /\ open[u].at \in {"invalidate", "record"}
         /\ open[u].at = "record" => NextFolder(u) \in DOMAIN Parents /\ f < NextFolder(u)
<1>1. Orderly(open[u])
  BY DEF LockInv
<1>2. open[u].todo \subseteq DOMAIN Parents /\ \A g \in open[u].todo : f < g
  BY <1>1 DEF Orderly
<1>3. open[u].at = "record" => NextFolder(u) \in open[u].todo
  <2>1. open[u].todo \in SUBSET Int /\ IsFiniteSet(open[u].todo)
    BY <1>2, FoldersFinite
  <2>2. open[u].at = "record" => open[u].todo # {}
    BY <1>1 DEF Orderly
  <2> QED BY <2>1, <2>2, LeastElement DEF NextFolder
<1>4. open[u].at \in {"invalidate", "record"}
  BY <1>1 DEF Orderly
<1> QED BY <1>2, <1>3, <1>4

\* In a cycle of requests about documents nobody wants a record: one wants the greatest.
LEMMA NoRecordWanted ==
  ASSUME LockInv, NEW S \in SUBSET DOMAIN open, Closed(S),
         \A t \in S : open[t].request.kind # "folder"
  PROVE  \A t \in S : open[t].at # "record"
<1> DEFINE W == {f \in DOMAIN Parents : \E t \in S : open[t].at = "record" /\ f = NextFolder(t)}
<1>1. \A t \in S : open[t].at = "record" => NextFolder(t) \in W
  <2> SUFFICES ASSUME NEW t \in S, open[t].at = "record" PROVE NextFolder(t) \in DOMAIN Parents
    OBVIOUS
  <2>1. open[t].todo \subseteq DOMAIN Parents /\ open[t].todo # {}
    BY DEF LockInv, Orderly
  <2>2. open[t].todo \in SUBSET Int /\ IsFiniteSet(open[t].todo)
    BY <2>1, FoldersFinite
  <2> QED BY <2>1, <2>2, LeastElement DEF NextFolder
<1>2. ASSUME W # {} PROVE FALSE
  <2>1. W \in SUBSET Int /\ IsFiniteSet(W)
    BY FoldersFinite
  <2>2. PICK f \in W : \A g \in W : g <= f
    BY <1>2, <2>1, GreatestElement
  <2>3. PICK t \in S : open[t].at = "record" /\ f = NextFolder(t)
    OBVIOUS
  <2>4. PICK u \in S : Waits(t, u)
    BY DEF Closed
  <2>5. <<"record", f>> \in open[u].held
    BY <2>3, <2>4 DEF Waits, Wanted
  <2>6. open[u].at = "record"
    <3>1. open[u].at \in {"invalidate", "record"}
      BY <2>5, RecordsAscend
    <3>2. \E v \in S : Waits(u, v)
      BY DEF Closed
    <3> QED BY <3>1, <3>2 DEF Waits, Wanted
  <2>7. NextFolder(u) \in W /\ f < NextFolder(u)
    BY <1>1, <2>5, <2>6, RecordsAscend
  <2> QED BY <2>1, <2>2, <2>7
<1> QED BY <1>1, <1>2

\* Who holds the index record of a document is about it, and has come that far.
LEMMA IndexHeld ==
  ASSUME NEW o, Orderly(o), o.request.kind # "folder", NEW d, <<"index", d>> \in o.held
  PROVE  /\ d = o.request.document
         /\ o.at \in {"relations", "source deleted", "invalidate", "record"}
<1>1. o.held \subseteq {<<"source", o.request.document>>, <<"index", o.request.document>>}
                    \cup RecordRows \cup TenantScope
  BY DEF Orderly
<1>2. <<"index", d>> \notin RecordRows \cup TenantScope
  BY DEF RecordRows, TenantScope
<1>3. <<"index", d>> # <<"source", o.request.document>>
  OBVIOUS
<1>4. <<"index", d>> = <<"index", o.request.document>>
  BY <1>1, <1>2, <1>3
<1>5. d = o.request.document
  BY <1>4
<1> QED BY <1>4, <1>5 DEF Orderly

\* A document of which someone in the cycle wants the source is both indexed and deleted.
LEMMA SourceWanted ==
  ASSUME LockInv, NEW S \in SUBSET DOMAIN open, Closed(S),
         \A t \in S : open[t].request.kind # "folder" /\ open[t].at # "record",
         NEW t \in S, NEW d, <<"source", d>> \in Wanted(t)
  PROVE  \E u, v \in S : /\ open[u].request.kind \in {"index", "empty"}
                         /\ open[v].request.kind = "delete"
                         /\ open[u].request.document = open[v].request.document
<1>0. \A u \in S : Orderly(open[u])
  BY DEF LockInv
<1>1. PICK u \in S : Waits(t, u)
  BY DEF Closed
<1>2. <<"source", d>> \in open[u].held /\ d = open[u].request.document
  <2>1. Wanted(t) = {<<"source", d>>}
    BY <1>0 DEF Wanted, Orderly
  <2>2. <<"source", d>> \in open[u].held
    BY <1>1, <2>1 DEF Waits
  <2> QED BY <1>0, <2>2 DEF Orderly, RecordRows, TenantScope
<1>3. PICK v \in S : Waits(u, v)
  BY DEF Closed
<1>4. open[u].request.kind \in {"index", "empty"} /\ open[u].at \in {"index", "source deleted"}
  BY <1>0, <1>2, <1>3 DEF Orderly, Kinds, Waits, Wanted
<1>5. open[u].at = "index"
  <2>1. ASSUME open[u].at = "source deleted" PROVE FALSE
    <3>1. <<"source", d>> \in open[v].held
      BY <1>2, <1>3, <2>1 DEF Waits, Wanted
    <3> QED BY <1>2, <1>3, <3>1 DEF Waits, LockInv
  <2> QED BY <1>4, <2>1
<1>6. <<"index", d>> \in open[v].held
  BY <1>2, <1>3, <1>5 DEF Waits, Wanted
<1>7. open[v].request.document = d /\ open[v].at \in {"relations", "source deleted", "invalidate"}
  BY <1>0, <1>6, IndexHeld
<1>8. open[v].request.kind = "delete"
  <2>1. ASSUME open[v].request.kind \in {"index", "empty"} PROVE FALSE
    <3>1. <<"source", d>> \in open[v].held
      BY <1>0, <1>7, <2>1 DEF Orderly
    <3> QED BY <1>2, <1>3, <3>1 DEF Waits, LockInv
  <2> QED BY <1>0, <2>1 DEF Orderly, Kinds
<1> QED BY <1>2, <1>4, <1>7, <1>8

\* Who is in a cycle is waited for, so it holds a row; of those who index, only one does.
LEMMA OneIndexes ==
  ASSUME LockInv, NEW S \in Cycles
  PROVE  \A t, u \in S : open[t].request.kind # "delete" /\ open[u].request.kind # "delete" => t = u
<1>0. S \in SUBSET DOMAIN open /\ Closed(S) /\ \A Q \in SUBSET S : Closed(Q) => Q = S
  BY DEF Cycles
<1>1. ASSUME NEW t \in S, open[t].request.kind # "delete" PROVE TenantScope \subseteq open[t].held
  <2>1. PICK u \in S : u # t
    BY <1>0 DEF Closed, Waits
  <2>2. ~Closed(S \ {t})
    BY <1>0
  <2>3. PICK v \in S \ {t} : \A w \in S \ {t} : ~Waits(v, w)
    BY <2>1, <2>2 DEF Closed
  <2>4. Waits(v, t)
    BY <1>0, <2>3 DEF Closed
  <2>5. open[t].held # {}
    BY <2>4 DEF Waits
  <2>6. Orderly(open[t])
    BY <1>0 DEF LockInv
  <2> QED BY <1>1, <2>5, <2>6 DEF Orderly, Kinds
<1>2. ASSUME NEW t \in S, NEW u \in S, t # u,
             open[t].request.kind # "delete", open[u].request.kind # "delete"
      PROVE  FALSE
  <2>1. <<"scope", 0>> \in open[t].held \cap open[u].held
    BY <1>1, <1>2 DEF TenantScope
  <2> QED BY <1>0, <1>2, <2>1 DEF LockInv
<1> QED BY <1>2

\* A cycle without a folder to index has an index request and a deletion of a document.
LEMMA DocumentInCycle ==
  ASSUME LockInv, NEW S \in SUBSET DOMAIN open, Closed(S),
         \A t \in S : open[t].request.kind # "folder"
  PROVE  \E u, v \in S : /\ open[u].request.kind \in {"index", "empty"}
                         /\ open[v].request.kind = "delete"
                         /\ open[u].request.document = open[v].request.document
<1>1. \A t \in S : open[t].at # "record"
  BY NoRecordWanted
<1>2. PICK t \in S : TRUE
  BY DEF Closed
<1>3. PICK u \in S : Waits(t, u)
  BY DEF Closed
<1>4. \A w \in S : Orderly(open[w])
  BY DEF LockInv
<1>5. PICK w \in S : \E d : <<"source", d>> \in Wanted(w)
  <2>1. CASE open[t].at \in {"source", "source deleted"}
    BY <2>1 DEF Wanted
  <2>2. CASE open[t].at = "index"
    <3> DEFINE d == open[t].request.document
    <3>1. <<"index", d>> \in open[u].held
      BY <1>3, <2>2 DEF Waits, Wanted
    <3>2. open[u].at \in {"relations", "source deleted", "invalidate"}
      BY <1>1, <1>4, <3>1, IndexHeld
    <3>3. \E v \in S : Waits(u, v)
      BY DEF Closed
    <3>4. open[u].at = "source deleted"
      BY <3>2, <3>3 DEF Waits, Wanted
    <3> QED BY <3>4 DEF Wanted
  <2>3. open[t].at \in {"source", "source deleted", "index"}
    BY <1>1, <1>3, <1>4 DEF Orderly, Waits, Wanted
  <2> QED BY <2>1, <2>2, <2>3
<1> QED BY <1>1, <1>5, SourceWanted

\* The invariant implies the property.
LEMMA LockInvImplies ==
  ASSUME LockInv PROVE DocumentsDoNotDeadlock
<1> SUFFICES ASSUME NEW S \in Cycles
             PROVE  \E u \in S :
                      /\ \A t \in S \ {u} : open[t].request.kind = "delete"
                      /\ \/ open[u].request.kind = "folder"
                         \/ /\ open[u].request.kind \in {"index", "empty"}
                            /\ \E t \in S : /\ open[t].request.kind = "delete"
                                            /\ open[t].request.document = open[u].request.document
  BY DEF DocumentsDoNotDeadlock
<1>0. S \in SUBSET DOMAIN open /\ Closed(S)
  BY DEF Cycles
<1>1. CASE \E u \in S : open[u].request.kind = "folder"
  <2>1. PICK u \in S : open[u].request.kind = "folder"
    BY <1>1
  <2>2. \A t \in S \ {u} : open[t].request.kind = "delete"
    BY <2>1, OneIndexes
  <2> QED BY <2>1, <2>2
<1>2. CASE \A u \in S : open[u].request.kind # "folder"
  <2>1. PICK u, v \in S : /\ open[u].request.kind \in {"index", "empty"}
                          /\ open[v].request.kind = "delete"
                          /\ open[u].request.document = open[v].request.document
    BY <1>0, <1>2, DocumentInCycle
  <2>2. \A t \in S \ {u} : open[t].request.kind = "delete"
    BY <2>1, OneIndexes
  <2> QED BY <2>1, <2>2
<1> QED BY <1>1, <1>2

\* For every tree of folders, every set of requests and any number of transactions: a
\* cycle of waits is of deletions and one request that indexes, a folder or a document
\* that is deleted beside it.
THEOREM RequestsDoNotDeadlock == TransactionSpec => []DocumentsDoNotDeadlock
<1>1. TransactionInit => LockInv
  BY DEF TransactionInit, LockInv
<1>2. LockInv /\ [TransactionNext]_transactionVars => LockInv'
  BY LockInvKept
<1>3. LockInv => DocumentsDoNotDeadlock
  BY LockInvImplies
<1> QED BY <1>1, <1>2, <1>3, PTL DEF TransactionSpec

-----------------------------------------------------------------------------
(***************************************************************************)
(* Which digests may be stale.  The invariant says of every open request   *)
(* what it has written, what the digests it has read miss, and of which    *)
(* folders neither it nor what it does has anything to say.                *)
(***************************************************************************)
Tables == {"source", "index", "member", "parent", "record"}
Docs == DOMAIN Memberships
Dirs == DOMAIN Parents

Statements(kind) ==
  CASE kind = "index" -> {"source", "index", "relations", "invalidate", "record"}
    [] kind = "empty" -> {"source", "look", "index", "source deleted", "invalidate", "record"}
    [] kind = "delete" -> {"look", "index", "source deleted", "invalidate", "record"}
    [] kind = "folder" -> {"look", "folder", "own", "own record", "invalidate", "record"}

\* The request does not know yet which folders it affects.
Undecided(t) ==
  \/ At(t, "source") \/ At(t, "look") \/ At(t, "relations") \/ At(t, "folder")
  \/ At(t, "index") /\ Is(t, {"index"})

DocumentShape(t) ==
  LET d == open[t].request.document
      w == written[t]
  IN  /\ DOMAIN w.parent = {}
      /\ DOMAIN w.source \subseteq {d} /\ DOMAIN w.index \subseteq {d} /\ DOMAIN w.member \subseteq {d}
      /\ Undecided(t) => DOMAIN w.member = {}
      /\ (Is(t, {"index"}) /\ ~At(t, "source")) \/ At(t, "invalidate") \/ At(t, "record")
           => d \in DOMAIN w.source

FolderShape(t) ==
  LET f == open[t].request.folder
      w == written[t]
  IN  /\ DOMAIN w.source = {} /\ DOMAIN w.index = {} /\ DOMAIN w.member = {}
      /\ Undecided(t) => DOMAIN w.parent = {}
      /\ ~Undecided(t) => /\ DOMAIN w.parent = {f} /\ w.parent[f] = open[t].request.parent
                          /\ f \in open[t].todo \cup DOMAIN w.record

Shape(t) ==
  LET o == open[t]
  IN  /\ o.request \in Requests /\ o.at \in Statements(o.request.kind)
      /\ o.todo \subseteq Dirs /\ (At(t, "record") => o.todo # {}) /\ (Undecided(t) => o.todo = {})
      /\ DOMAIN written[t] = Tables /\ DOMAIN written[t].record \subseteq Dirs
      /\ ~At(t, "invalidate") /\ ~At(t, "record") => DOMAIN written[t].record = {}
      /\ IF o.request.kind = "folder" THEN FolderShape(t) ELSE DocumentShape(t)

\* A request that overlapped with t has changed one of X.
Excused(t, X) == \E c \in changed : c[2] \in X /\ <<c[1], t>> \in overlaps

\* What a digest of f says of d, read from v.
Word(v, f, d) ==
  IF v.source[d].live /\ v.member[d] \cap Subtree(v, f) # {}
  THEN <<v.source[d].version, v.index[d]>> ELSE Unset

\* A digest of f that t has read is still that of what t sees, save for what others changed.
Faithful(t, digest, v, f) ==
  /\ \A d \in Docs : Says(digest, d) = Word(v, f, d) \/ Excused(t, {d} \cup Dirs)
  /\ digest.folder = v.parent[f] \/ Excused(t, {f})

DigestsFaithful(t) ==
  /\ \A f \in DOMAIN written[t].record : Faithful(t, written[t].record[f], View(t), f)
  /\ At(t, "own record") => Faithful(t, seen[t], View(t), open[t].request.folder)
  /\ At(t, "record") => Faithful(t, seen[t], View(t), NextFolder(t))

\* Something t is about has changed beside the request that recorded f, or t itself has
\* overlapped with it.
Beside(t, f) ==
  \/ <<t, recordedBy[f]>> \in overlaps
  \/ Excused(recordedBy[f], Dirs)
  \/ open[t].request.kind # "folder" /\ Excused(recordedBy[f], {open[t].request.document})

\* The parent that t thinks its folder has had, and then the one it gives it.
Aim(t) == IF At(t, "folder") THEN seen[t] ELSE open[t].request.parent

\* What t is about is not below f, before and after.
Outside(t, f) ==
  LET r == open[t].request
      below == Subtree(tables, f)
  IN  IF r.kind = "folder"
      THEN At(t, "look") \/ tables.parent[r.folder] = Aim(t)
           \/ (r.folder \notin below /\ Aim(t) \notin below)
      ELSE Undecided(t)
           \/ /\ tables.member[r.document] \cap below = {}
              /\ r.document \in DOMAIN written[t].member =>
                   written[t].member[r.document] \cap below = {}

Covered(t) ==
  \A f \in Dirs : f \in open[t].todo \cup DOMAIN written[t].record \/ Beside(t, f) \/ Outside(t, f)

Filled ==
  /\ DOMAIN tables = Tables
  /\ DOMAIN tables.source = Docs /\ DOMAIN tables.index = Docs /\ DOMAIN tables.member = Docs
  /\ DOMAIN tables.parent = Dirs /\ DOMAIN tables.record = Dirs

\* Requests that are open together overlap.
Together ==
  /\ begun \in Nat /\ DOMAIN open \subseteq 1 .. begun
  /\ DOMAIN written = DOMAIN open /\ DOMAIN seen = DOMAIN open
  /\ \A t, u \in DOMAIN open : t # u => <<t, u>> \in overlaps

\* Every digest that was committed is read from the tables, save for what was changed
\* beside the request that recorded it.
Mended ==
  /\ DOMAIN recordedBy = Dirs
  /\ \A f \in Dirs : Faithful(recordedBy[f], tables.record[f], tables, f)

DigestInv ==
  /\ Filled /\ Together /\ Mended
  /\ \A t \in DOMAIN open : Shape(t) /\ DigestsFaithful(t) /\ Covered(t)

-----------------------------------------------------------------------------
(* Ancestors and subtrees.                                                 *)

LEMMA AncestorsAbove ==
  ASSUME NEW v, NEW F
  PROVE  /\ Ancestors(v, F) \subseteq Dirs
         /\ \A g \in F \cap Dirs : Ancestors(v, {g}) \subseteq Ancestors(v, F)
BY DEF Ancestors, Dirs

\* What lies below f has f above it.
LEMMA BelowHasAbove ==
  ASSUME NEW v, NEW F, NEW f \in Dirs, f \notin Ancestors(v, F)
  PROVE  F \cap Subtree(v, f) = {}
BY AncestorsAbove DEF Subtree, Dirs

LEMMA SubtreeClosed ==
  ASSUME NEW v, NEW f \in Dirs
  PROVE  /\ f \in Subtree(v, f) /\ Subtree(v, f) \subseteq Dirs
         /\ \A g \in Dirs : v.parent[g] \in Subtree(v, f) => g \in Subtree(v, f)
<1>1. f \in Subtree(v, f) /\ Subtree(v, f) \subseteq Dirs
  BY DEF Subtree, Ancestors, Dirs
<1>2. ASSUME NEW g \in Dirs, v.parent[g] \in Subtree(v, f) PROVE g \in Subtree(v, f)
  <2> DEFINE Above(x) == {U \in SUBSET Dirs :
                            /\ {x} \cap Dirs \subseteq U
                            /\ \A y \in U : v.parent[y] \in Dirs => v.parent[y] \in U}
  <2>1. v.parent[g] \in Dirs /\ \A U \in Above(v.parent[g]) : f \in U
    BY <1>2 DEF Subtree, Ancestors, Dirs
  <2>2. \A U \in Above(g) : U \in Above(v.parent[g])
    BY <2>1
  <2>3. \A U \in Above(g) : f \in U
    BY <2>1, <2>2
  <2> QED BY <2>3 DEF Subtree, Ancestors, Dirs
<1> QED BY <1>1, <1>2

LEMMA SubtreeLeast ==
  ASSUME NEW v, NEW f \in Dirs, NEW T, f \in T,
         \A g \in Dirs : v.parent[g] \in T => g \in T
  PROVE  Subtree(v, f) \subseteq T
<1> SUFFICES ASSUME NEW g \in Subtree(v, f), g \notin T PROVE FALSE
  OBVIOUS
<1> DEFINE U == Dirs \ T
<1>1. g \in U /\ f \notin U
  BY DEF Subtree, Dirs
<1>2. \A y \in U : v.parent[y] \in Dirs => v.parent[y] \in U
  OBVIOUS
<1>3. f \in Ancestors(v, {g})
  BY DEF Subtree
<1> QED BY <1>1, <1>2, <1>3 DEF Ancestors, Dirs

SameTree(v, w) == \A g \in Dirs : v.parent[g] = w.parent[g]

LEMMA SameTreeSameSubtree ==
  ASSUME NEW v, NEW w, SameTree(v, w)
  PROVE  /\ \A F : Ancestors(v, F) = Ancestors(w, F)
         /\ \A f : Subtree(v, f) = Subtree(w, f)
<1>1. \A F : Ancestors(v, F) = Ancestors(w, F)
  BY DEF SameTree, Ancestors, Dirs
<1> QED BY <1>1 DEF Subtree

\* f's subtree stays the same if a folder moves that was outside it, to a place outside.
LEMMA MoveOutside ==
  ASSUME NEW v, NEW w, NEW f \in Dirs, NEW y,
         \A g \in Dirs \ {y} : v.parent[g] = w.parent[g],
         y \notin Subtree(v, f), w.parent[y] \notin Subtree(v, f)
  PROVE  Subtree(w, f) = Subtree(v, f)
<1> DEFINE S == Subtree(v, f)
           S2 == Subtree(w, f)
<1>1. /\ f \in S /\ \A g \in Dirs : v.parent[g] \in S => g \in S
      /\ f \in S2 /\ \A g \in Dirs : w.parent[g] \in S2 => g \in S2
  BY SubtreeClosed
<1>2. S \subseteq S \cap S2
  <2>1. \A g \in Dirs : v.parent[g] \in S \cap S2 => g \in S \cap S2
    BY <1>1
  <2> HIDE DEF S2
  <2> QED BY <1>1, <2>1, SubtreeLeast
<1>3. S2 \subseteq S
  <2>1. \A g \in Dirs : w.parent[g] \in S => g \in S
    BY <1>1
  <2> HIDE DEF S
  <2> QED BY <1>1, <2>1, SubtreeLeast
<1> QED BY <1>2, <1>3

\* A folder that has moved and has f neither above its new place nor above the old one
\* was outside f's subtree, and so is the new place.
LEMMA MovedOutside ==
  ASSUME NEW v, NEW w, NEW f \in Dirs, NEW y \in Dirs,
         \A g \in Dirs \ {y} : v.parent[g] = w.parent[g],
         y \notin Subtree(w, f),
         y \notin Subtree(v, f) \/ v.parent[y] \notin Subtree(w, f)
  PROVE  y \notin Subtree(v, f) /\ w.parent[y] \notin Subtree(v, f)
<1> DEFINE S == Subtree(v, f)
           S2 == Subtree(w, f)
<1>1. /\ f \in S /\ \A g \in Dirs : v.parent[g] \in S => g \in S
      /\ f \in S2 /\ \A g \in Dirs : w.parent[g] \in S2 => g \in S2
  BY SubtreeClosed
<1>2. S \subseteq S \cap S2
  <2>1. \A g \in Dirs : v.parent[g] \in S \cap S2 => g \in S \cap S2
    BY <1>1
  <2> HIDE DEF S2
  <2> QED BY <1>1, <2>1, SubtreeLeast
<1> QED BY <1>1, <1>2

LEMMA SaysIs ==
  ASSUME NEW v, NEW f
  PROVE  /\ \A d \in Docs : Says(InputDigest(v, f), d) = Word(v, f, d)
         /\ InputDigest(v, f).folder = v.parent[f]
BY DEF Says, InputDigest, Word, Docs

-----------------------------------------------------------------------------
(* What a statement leaves alone.                                          *)

LEMMA UnwrittenIs ==
  /\ DOMAIN Unwritten = Tables
  /\ \A k \in Tables : Unwritten[k] = << >> /\ DOMAIN Unwritten[k] = {}
<1>1. DOMAIN << >> = {}
  OBVIOUS
<1> QED BY <1>1 DEF Unwritten, Tables

LEMMA ViewIs ==
  ASSUME NEW t
  PROVE  /\ View(t).source = Over(written[t].source, tables.source)
         /\ View(t).index = Over(written[t].index, tables.index)
         /\ View(t).member = Over(written[t].member, tables.member)
         /\ View(t).parent = Over(written[t].parent, tables.parent)
         /\ View(t).record = Over(written[t].record, tables.record)
         /\ DOMAIN View(t) = Tables
<1>1. View(t) = [k \in Tables |-> Over(written[t][k], tables[k])]
  BY UnwrittenIs DEF View
<1> QED BY <1>1 DEF Tables

\* All that the invariant says of a request.
RequestOK(t) == Shape(t) /\ DigestsFaithful(t) /\ Covered(t)

\* What was changed beside t stays changed beside it, and the tables stay.
Grows ==
  /\ tables' = tables /\ recordedBy' = recordedBy
  /\ changed \subseteq changed' /\ overlaps \subseteq overlaps'

Untouched(t) == open'[t] = open[t] /\ written'[t] = written[t] /\ seen'[t] = seen[t]

LEMMA ExcusedStays ==
  ASSUME changed \subseteq changed', overlaps \subseteq overlaps'
  PROVE  \A t, X : Excused(t, X) => Excused(t, X)'
BY DEF Excused

LEMMA UntouchedStays ==
  ASSUME Grows, NEW t, Untouched(t), RequestOK(t)
  PROVE  RequestOK(t)'
<1>1. Shape(t)'
  BY DEF RequestOK, Untouched, Shape, DocumentShape, FolderShape, Undecided, At, Is
<1>2. View(t)' = View(t)
  BY DEF Grows, Untouched, View
<1>3. \A u, X : Excused(u, X) => Excused(u, X)'
  BY ExcusedStays DEF Grows
<1>4. \A digest, f : Faithful(t, digest, View(t), f) => Faithful(t, digest, View(t), f)'
  BY <1>2, <1>3 DEF Faithful
<1>5. DigestsFaithful(t)'
  BY <1>2, <1>4 DEF RequestOK, DigestsFaithful, Untouched, At, NextFolder
<1>6. \A f : Beside(t, f) => Beside(t, f)'
  BY <1>3 DEF Beside, Grows, Untouched
<1>7. \A f : Outside(t, f) => Outside(t, f)'
  BY DEF Outside, Aim, Undecided, At, Is, Grows, Untouched
<1>8. Covered(t)'
  BY <1>6, <1>7 DEF RequestOK, Covered, Untouched
<1> QED BY <1>1, <1>5, <1>8 DEF RequestOK

LEMMA TablesStay ==
  ASSUME Grows, Filled, Mended
  PROVE  Filled' /\ Mended'
<1>1. \A u, X : Excused(u, X) => Excused(u, X)'
  BY ExcusedStays DEF Grows
<1> QED BY <1>1 DEF Filled, Mended, Faithful, Grows

\* A statement keeps the invariant if its own transaction is left in order.
LEMMA StatementKeeps ==
  ASSUME DigestInv, NEW t \in DOMAIN open, UNCHANGED shared,
         DOMAIN open' = DOMAIN open, DOMAIN written' = DOMAIN open, DOMAIN seen' = DOMAIN open,
         \A u \in DOMAIN open \ {t} : Untouched(u),
         RequestOK(t)'
  PROVE  DigestInv'
<1>1. Grows
  BY DEF shared, Grows
<1>2. Filled' /\ Mended'
  BY <1>1, TablesStay DEF DigestInv
<1>3. Together'
  BY DEF DigestInv, Together, shared
<1>4. \A u \in DOMAIN open' : RequestOK(u)'
  <2>1. ASSUME NEW u \in DOMAIN open \ {t} PROVE RequestOK(u)'
    BY <1>1, <2>1, UntouchedStays DEF DigestInv, RequestOK
  <2> QED BY <2>1
<1> QED BY <1>2, <1>3, <1>4 DEF DigestInv, RequestOK

\* Statements that change nothing but what the request has read and what it is at.
LEMMA ExecutedIs ==
  ASSUME DigestInv, NEW t \in DOMAIN open, NEW statement, NEW todo, Executes(t, statement, todo)
  PROVE  /\ UNCHANGED shared /\ DOMAIN open' = DOMAIN open
         /\ open'[t].request = open[t].request /\ open'[t].at = statement /\ open'[t].todo = todo
         /\ \A u \in DOMAIN open \ {t} : open'[u] = open[u]
BY DEF Executes

LEMMA WritesIs ==
  ASSUME DigestInv, NEW t \in DOMAIN open, NEW table \in Tables, NEW x, NEW value,
         Writes(t, table, x, value)
  PROVE  /\ DOMAIN written' = DOMAIN open
         /\ DOMAIN written'[t] = Tables
         /\ written'[t][table] = Put(written[t][table], x, value)
         /\ \A k \in Tables \ {table} : written'[t][k] = written[t][k]
         /\ \A u \in DOMAIN open \ {t} : written'[u] = written[u]
<1>1. t \in DOMAIN written /\ DOMAIN written[t] = Tables /\ DOMAIN written = DOMAIN open
  BY DEF DigestInv, Together, Shape
<1> QED BY <1>1 DEF Writes

-----------------------------------------------------------------------------
(* Statements of requests about documents.                                 *)

\* A request that has recorded nothing yet, and is not about to.
LEMMA NothingRead ==
  ASSUME NEW t, DOMAIN written[t].record = {}, ~At(t, "own record"), ~At(t, "record")
  PROVE  DigestsFaithful(t)
BY DEF DigestsFaithful

LEMMA UndecidedCovers ==
  ASSUME NEW t, open[t].request.kind # "folder", Undecided(t)
  PROVE  Covered(t)
BY DEF Covered, Outside

LEMMA KindsAre ==
  /\ Statements("index") = {"source", "index", "relations", "invalidate", "record"}
  /\ Statements("empty") = {"source", "look", "index", "source deleted", "invalidate", "record"}
  /\ Statements("delete") = {"look", "index", "source deleted", "invalidate", "record"}
  /\ Statements("folder") = {"look", "folder", "own", "own record", "invalidate", "record"}
BY DEF Statements

LEMMA RequestIs ==
  ASSUME DigestInv, NEW t \in DOMAIN open
  PROVE  /\ RequestOK(t) /\ open[t].request.kind \in Kinds
         /\ open[t].at \in Statements(open[t].request.kind)
         /\ DOMAIN written[t] = Tables
         /\ open[t].request.kind = "folder" => FolderShape(t) /\ open[t].request.folder \in Dirs
         /\ open[t].request.kind # "folder" => DocumentShape(t) /\ open[t].request.document \in Docs
BY TransactionAssumption DEF DigestInv, RequestOK, Shape, Dirs, Docs

LEMMA SourceKeepsDigests ==
  ASSUME DigestInv, NEW t \in DOMAIN open,
         UpsertDocumentSource(t) \/ UpsertDocumentIndexRecord(t)
  PROVE  DigestInv'
<1> DEFINE r == open[t].request
           next == IF At(t, "source") /\ r.kind = "index" THEN "index"
                   ELSE IF At(t, "source") THEN "look" ELSE "relations"
           table == IF At(t, "source") THEN "source" ELSE "index"
<1>1. /\ RequestOK(t) /\ r.kind \in Kinds /\ open[t].at \in Statements(r.kind)
      /\ r.kind = "folder" => FolderShape(t)
      /\ r.kind # "folder" => DocumentShape(t)
  BY RequestIs
<1>2. /\ Executes(t, next, {}) /\ seen' = seen
      /\ \E value : Writes(t, table, r.document, value)
  <2>1. CASE UpsertDocumentSource(t)
    BY <2>1 DEF UpsertDocumentSource, At
  <2>2. CASE UpsertDocumentIndexRecord(t)
    BY <2>2 DEF UpsertDocumentIndexRecord, At
  <2> QED BY <2>1, <2>2
<1>3. /\ r.kind \in {"index", "empty"}
      /\ At(t, "source") \/ (At(t, "index") /\ r.kind = "index")
  BY <1>1, KindsAre DEF UpsertDocumentSource, UpsertDocumentIndexRecord, At, Is, Kinds
<1>4. /\ UNCHANGED shared /\ DOMAIN open' = DOMAIN open
      /\ open'[t].request = r /\ open'[t].at = next /\ open'[t].todo = {}
      /\ \A u \in DOMAIN open \ {t} : open'[u] = open[u]
  BY <1>2, ExecutedIs
<1>5. PICK value : Writes(t, table, r.document, value)
  BY <1>2
<1>6. /\ DOMAIN written' = DOMAIN open /\ DOMAIN written'[t] = Tables
      /\ written'[t][table] = Put(written[t][table], r.document, value)
      /\ \A k \in Tables \ {table} : written'[t][k] = written[t][k]
      /\ \A u \in DOMAIN open \ {t} : written'[u] = written[u]
  BY <1>5, WritesIs DEF Tables
<1>7. /\ \/ next = "index" /\ r.kind = "index"
         \/ next = "look" /\ r.kind = "empty"
         \/ next = "relations" /\ r.kind = "index"
      /\ next \in Statements(r.kind)
  BY <1>3, KindsAre
<1>8. Undecided(t) /\ Undecided(t)'
  BY <1>3, <1>4, <1>7 DEF Undecided, At, Is
<1>9. /\ DOMAIN written'[t].record = {} /\ DOMAIN written'[t].parent = {}
      /\ DOMAIN written'[t].member = {}
      /\ DOMAIN written'[t].source \subseteq {r.document}
      /\ DOMAIN written'[t].index \subseteq {r.document}
      /\ At(t, "source") \/ r.kind = "index" => r.document \in DOMAIN written'[t].source
  <2>1. /\ DOMAIN written[t].record = {} /\ DOMAIN written[t].parent = {}
        /\ DOMAIN written[t].member = {}
        /\ DOMAIN written[t].source \subseteq {r.document}
        /\ DOMAIN written[t].index \subseteq {r.document}
        /\ ~At(t, "source") => r.document \in DOMAIN written[t].source
    BY <1>1, <1>3, <1>8 DEF RequestOK, Shape, DocumentShape, At, Is
  <2>2. DOMAIN written'[t][table] = DOMAIN written[t][table] \cup {r.document}
    BY <1>6 DEF Put
  <2>3. /\ written'[t].record = written[t].record /\ written'[t].parent = written[t].parent
        /\ written'[t].member = written[t].member
        /\ table = "source" => written'[t].index = written[t].index
        /\ table = "index" => written'[t].source = written[t].source
    BY <1>6 DEF Tables
  <2>4. CASE At(t, "source")
    BY <2>1, <2>2, <2>3, <2>4
  <2>5. CASE ~At(t, "source")
    BY <2>1, <2>2, <2>3, <2>5
  <2> QED BY <2>4, <2>5
<1>10. DocumentShape(t)'
  BY <1>3, <1>4, <1>7, <1>8, <1>9 DEF DocumentShape, At, Is
<1>11. Shape(t)'
  BY <1>1, <1>3, <1>4, <1>6, <1>7, <1>9, <1>10 DEF Shape, RequestOK, At
<1>12. DigestsFaithful(t)' /\ Covered(t)'
  BY <1>3, <1>4, <1>7, <1>8, <1>9, NothingRead, UndecidedCovers DEF DigestsFaithful, Covered, Outside, At
<1>13. DOMAIN seen' = DOMAIN open /\ \A u \in DOMAIN open \ {t} : Untouched(u)
  BY <1>2, <1>4, <1>6 DEF DigestInv, Together, Untouched
<1> QED BY <1>4, <1>6, <1>11, <1>12, <1>13, StatementKeeps DEF RequestOK

\* The folders a document has been in or comes to are affected: what is not affected has
\* none of them below it.
LEMMA ReplaceKeepsDigests ==
  ASSUME DigestInv, NEW t \in DOMAIN open, ReplaceFolderRelations(t)
  PROVE  DigestInv'
<1> DEFINE r == open[t].request
           d == r.document
           previous == View(t).member[d]
           current == IF r.folders = Unset THEN previous ELSE r.folders
           todo == Ancestors(View(t), previous \cup current)
<1>1. /\ RequestOK(t) /\ r.kind = "index" /\ DocumentShape(t) /\ d \in Docs /\ At(t, "relations")
      /\ Undecided(t)
  BY RequestIs, KindsAre DEF ReplaceFolderRelations, At, Kinds, Undecided
<1>2. /\ Executes(t, "invalidate", todo) /\ Writes(t, "member", d, current) /\ seen' = seen
  BY DEF ReplaceFolderRelations, BothFolders
<1>3. /\ DOMAIN written[t].member = {} /\ DOMAIN written[t].parent = {}
      /\ DOMAIN written[t].record = {} /\ d \in DOMAIN written[t].source
  BY <1>1 DEF DocumentShape, RequestOK, Shape, At, Is
<1>4. previous = tables.member[d] /\ SameTree(View(t), tables)
  <2>1. /\ View(t).member = Over(written[t].member, tables.member)
        /\ View(t).parent = Over(written[t].parent, tables.parent)
    BY ViewIs
  <2>2. View(t).member[d] = tables.member[d]
    BY <1>1, <1>3, <2>1 DEF DigestInv, Filled, Over
  <2>3. \A g \in Dirs : View(t).parent[g] = tables.parent[g]
    BY <1>3, <2>1 DEF DigestInv, Filled, Over
  <2> QED BY <2>2, <2>3 DEF SameTree
<1> HIDE DEF previous, current, todo
<1>5. /\ UNCHANGED shared /\ DOMAIN open' = DOMAIN open
      /\ open'[t].request = r /\ open'[t].at = "invalidate" /\ open'[t].todo = todo
      /\ \A u \in DOMAIN open \ {t} : open'[u] = open[u]
  BY <1>2, ExecutedIs
<1>6. /\ DOMAIN written' = DOMAIN open /\ DOMAIN written'[t] = Tables
      /\ written'[t].member = Put(written[t].member, d, current)
      /\ \A k \in Tables \ {"member"} : written'[t][k] = written[t][k]
      /\ \A u \in DOMAIN open \ {t} : written'[u] = written[u]
  BY <1>2, WritesIs DEF Tables
<1>7. /\ DOMAIN written'[t].record = {} /\ DOMAIN written'[t].parent = {}
      /\ DOMAIN written'[t].member = {d} /\ written'[t].member[d] = current
      /\ DOMAIN written'[t].source \subseteq {d} /\ DOMAIN written'[t].index \subseteq {d}
      /\ d \in DOMAIN written'[t].source
  <2>1. /\ written'[t].record = written[t].record /\ written'[t].parent = written[t].parent
        /\ written'[t].source = written[t].source /\ written'[t].index = written[t].index
    BY <1>6 DEF Tables
  <2>2. DOMAIN written'[t].member = {d} /\ written'[t].member[d] = current
    BY <1>3, <1>6 DEF Put
  <2> QED BY <1>1, <1>3, <2>1, <2>2 DEF DocumentShape
<1>8. todo \subseteq Dirs
  BY AncestorsAbove DEF todo
<1>9. Shape(t)'
  <2>1. DocumentShape(t)'
    BY <1>1, <1>5, <1>7 DEF DocumentShape, Undecided, At, Is
  <2> QED BY <1>1, <1>5, <1>6, <1>7, <1>8, <2>1, KindsAre DEF Shape, RequestOK, At, Undecided
<1>10. DigestsFaithful(t)'
  BY <1>5, <1>7 DEF DigestsFaithful, At
<1>11. ASSUME NEW f \in Dirs, f \notin todo PROVE Outside(t, f)'
  <2>1. (previous \cup current) \cap Subtree(View(t), f) = {}
    BY <1>11, BelowHasAbove DEF todo
  <2>2. Subtree(View(t), f) = Subtree(tables, f) /\ tables' = tables
    BY <1>4, <1>5, SameTreeSameSubtree DEF shared
  <2> QED BY <1>1, <1>4, <1>5, <1>7, <2>1, <2>2 DEF Outside
<1>12. Covered(t)'
  BY <1>5, <1>11 DEF Covered
<1>13. DOMAIN seen' = DOMAIN open /\ \A u \in DOMAIN open \ {t} : Untouched(u)
  BY <1>2, <1>5, <1>6 DEF DigestInv, Together, Untouched
<1> QED BY <1>5, <1>6, <1>9, <1>10, <1>12, <1>13, StatementKeeps DEF RequestOK

\* A deletion looks at the document's folders before it locks a row.
LEMMA LookKeepsDigests ==
  ASSUME DigestInv, NEW t \in DOMAIN open, LookAtDocument(t)
  PROVE  DigestInv'
<1> DEFINE r == open[t].request
           d == r.document
           todo == Ancestors(View(t), View(t).member[d])
<1>1. /\ RequestOK(t) /\ r.kind \in {"empty", "delete"} /\ DocumentShape(t) /\ d \in Docs
      /\ At(t, "look") /\ Undecided(t)
  BY RequestIs DEF LookAtDocument, At, Is, Kinds, Undecided
<1>2. /\ Executes(t, "index", todo) /\ written' = written /\ seen' = seen
  BY DEF LookAtDocument, Reads
<1>3. /\ DOMAIN written[t].member = {} /\ DOMAIN written[t].parent = {}
      /\ DOMAIN written[t].record = {}
  BY <1>1 DEF DocumentShape, RequestOK, Shape, At, Is
<1>4. View(t).member[d] = tables.member[d] /\ SameTree(View(t), tables)
  <2>1. /\ View(t).member = Over(written[t].member, tables.member)
        /\ View(t).parent = Over(written[t].parent, tables.parent)
    BY ViewIs
  <2>2. View(t).member[d] = tables.member[d]
    BY <1>1, <1>3, <2>1 DEF DigestInv, Filled, Over
  <2>3. \A g \in Dirs : View(t).parent[g] = tables.parent[g]
    BY <1>3, <2>1 DEF DigestInv, Filled, Over
  <2> QED BY <2>2, <2>3 DEF SameTree
<1> HIDE DEF todo
<1>5. /\ UNCHANGED shared /\ DOMAIN open' = DOMAIN open
      /\ open'[t].request = r /\ open'[t].at = "index" /\ open'[t].todo = todo
      /\ \A u \in DOMAIN open \ {t} : open'[u] = open[u]
  BY <1>2, ExecutedIs
<1>6. todo \subseteq Dirs
  BY AncestorsAbove DEF todo
<1>7. Shape(t)'
  <2>1. DocumentShape(t)'
    BY <1>1, <1>2, <1>3, <1>5 DEF DocumentShape, At, Is
  <2> QED BY <1>1, <1>2, <1>3, <1>5, <1>6, <2>1, KindsAre DEF Shape, RequestOK, At, Is, Undecided
<1>8. DigestsFaithful(t)'
  BY <1>2, <1>3, <1>5 DEF DigestsFaithful, At
<1>9. ASSUME NEW f \in Dirs, f \notin todo PROVE Outside(t, f)'
  <2>1. View(t).member[d] \cap Subtree(View(t), f) = {}
    BY <1>9, BelowHasAbove DEF todo
  <2>2. Subtree(View(t), f) = Subtree(tables, f) /\ tables' = tables
    BY <1>4, <1>5, SameTreeSameSubtree DEF shared
  <2> QED BY <1>1, <1>2, <1>3, <1>4, <1>5, <2>1, <2>2 DEF Outside
<1>10. Covered(t)'
  BY <1>5, <1>9 DEF Covered
<1>11. DOMAIN written' = DOMAIN open /\ DOMAIN seen' = DOMAIN open
       /\ \A u \in DOMAIN open \ {t} : Untouched(u)
  BY <1>2, <1>5 DEF DigestInv, Together, Untouched
<1> QED BY <1>5, <1>7, <1>8, <1>10, <1>11, StatementKeeps DEF RequestOK

LEMMA MarkKeepsDigests ==
  ASSUME DigestInv, NEW t \in DOMAIN open,
         MarkDocumentProjectionDeleted(t) \/ MarkDocumentSourceDeleted(t)
  PROVE  DigestInv'
<1> DEFINE r == open[t].request
           d == r.document
           todo == open[t].todo
           next == IF At(t, "index") THEN "source deleted" ELSE "invalidate"
<1>1. /\ RequestOK(t) /\ r.kind \in {"empty", "delete"} /\ DocumentShape(t) /\ d \in Docs
      /\ At(t, "index") \/ At(t, "source deleted")
  BY RequestIs, KindsAre
     DEF MarkDocumentProjectionDeleted, MarkDocumentSourceDeleted, At, Is, Kinds
<1>2. Executes(t, next, todo) /\ seen' = seen
  BY DEF MarkDocumentProjectionDeleted, MarkDocumentSourceDeleted, At
<1>3. ~Undecided(t) /\ DOMAIN written[t].record = {} /\ t \in DOMAIN written
      /\ DOMAIN written[t] = Tables /\ DOMAIN written = DOMAIN open
  BY <1>1 DEF Undecided, At, Is, RequestOK, Shape, DigestInv, Together
<1>4. /\ UNCHANGED shared /\ DOMAIN open' = DOMAIN open
      /\ open'[t].request = r /\ open'[t].at = next /\ open'[t].todo = todo
      /\ \A u \in DOMAIN open \ {t} : open'[u] = open[u]
  BY <1>2, ExecutedIs
<1>5. /\ DOMAIN written' = DOMAIN open /\ DOMAIN written'[t] = Tables
      /\ \A u \in DOMAIN open \ {t} : written'[u] = written[u]
      /\ written'[t].parent = written[t].parent /\ written'[t].record = written[t].record
      /\ IF At(t, "index")
         THEN /\ written'[t].source = written[t].source
              /\ written'[t].index = Put(written[t].index, d, 0)
              /\ written'[t].member = Put(written[t].member, d, {})
         ELSE /\ written'[t].index = written[t].index /\ written'[t].member = written[t].member
              /\ \E value : written'[t].source = Put(written[t].source, d, value)
  <2>1. CASE At(t, "index")
    <3>1. written' = [written EXCEPT ![t].index = Put(@, d, 0), ![t].member = Put(@, d, {})]
      BY <2>1 DEF MarkDocumentProjectionDeleted, MarkDocumentSourceDeleted, At
    <3>2. written'[t] = [written[t] EXCEPT !.index = Put(@, d, 0), !.member = Put(@, d, {})]
      BY <1>3, <3>1
    <3>3. DOMAIN written' = DOMAIN open /\ \A u \in DOMAIN open \ {t} : written'[u] = written[u]
      BY <1>3, <3>1
    <3>4. /\ DOMAIN written'[t] = Tables
          /\ written'[t].parent = written[t].parent /\ written'[t].record = written[t].record
          /\ written'[t].source = written[t].source
          /\ written'[t].index = Put(written[t].index, d, 0)
          /\ written'[t].member = Put(written[t].member, d, {})
      BY <1>3, <3>2 DEF Tables
    <3> QED BY <2>1, <3>3, <3>4
  <2>2. CASE At(t, "source deleted")
    <3>1. PICK value : Writes(t, "source", d, value)
      BY <2>2 DEF MarkDocumentProjectionDeleted, MarkDocumentSourceDeleted, At
    <3>2. /\ DOMAIN written' = DOMAIN open /\ DOMAIN written'[t] = Tables
          /\ written'[t].source = Put(written[t].source, d, value)
          /\ \A k \in Tables \ {"source"} : written'[t][k] = written[t][k]
          /\ \A u \in DOMAIN open \ {t} : written'[u] = written[u]
      BY <3>1, WritesIs DEF Tables
    <3> QED BY <2>2, <3>2 DEF At, Tables
  <2> QED BY <1>1, <2>1, <2>2
<1>6. /\ DOMAIN written'[t].record = {} /\ DOMAIN written'[t].parent = {}
      /\ DOMAIN written'[t].source \subseteq {d} /\ DOMAIN written'[t].index \subseteq {d}
      /\ DOMAIN written'[t].member \subseteq {d}
      /\ At(t, "source deleted") => d \in DOMAIN written'[t].source
      /\ d \in DOMAIN written'[t].member =>
           \/ written'[t].member[d] = {}
           \/ d \in DOMAIN written[t].member /\ written'[t].member[d] = written[t].member[d]
  <2>1. CASE At(t, "index")
    BY <1>1, <1>3, <1>5, <2>1 DEF DocumentShape, Put, At
  <2>2. CASE At(t, "source deleted")
    BY <1>1, <1>3, <1>5, <2>2 DEF DocumentShape, Put, At
  <2> QED BY <1>1, <2>1, <2>2
<1>7. ~Undecided(t)' /\ ~Is(t, {"index"})'
  BY <1>1, <1>4 DEF Undecided, At, Is
<1>8. Shape(t)'
  <2>1. DocumentShape(t)'
    BY <1>1, <1>4, <1>6, <1>7 DEF DocumentShape, At
  <2>2. open'[t].at \in Statements(open'[t].request.kind) /\ open'[t].todo \subseteq Dirs
    BY <1>1, <1>4, KindsAre DEF Shape, RequestOK, At
  <2> QED BY <1>1, <1>4, <1>5, <1>6, <1>7, <2>1, <2>2 DEF Shape, RequestOK, At
<1>9. DigestsFaithful(t)'
  BY <1>1, <1>4, <1>6 DEF DigestsFaithful, At
<1>10. Covered(t)'
  <2>1. ASSUME NEW f \in Dirs, Outside(t, f) PROVE Outside(t, f)'
    BY <1>1, <1>3, <1>4, <1>6, <1>7, <2>1 DEF Outside, shared
  <2>2. ASSUME NEW f \in Dirs, Beside(t, f) PROVE Beside(t, f)'
    BY <1>4, <2>2 DEF Beside, Excused, shared
  <2> QED BY <1>1, <1>4, <1>5, <2>1, <2>2 DEF RequestOK, Covered
<1>11. DOMAIN seen' = DOMAIN open /\ \A u \in DOMAIN open \ {t} : Untouched(u)
  BY <1>2, <1>4, <1>5 DEF DigestInv, Together, Untouched
<1> QED BY <1>4, <1>5, <1>8, <1>9, <1>10, <1>11, StatementKeeps DEF RequestOK

-----------------------------------------------------------------------------
(* Statements of requests about folders.                                   *)

LEMMA LookAtFolderKeepsDigests ==
  ASSUME DigestInv, NEW t \in DOMAIN open, LookAtFolder(t)
  PROVE  DigestInv'
<1> DEFINE r == open[t].request
           y == r.folder
<1>1. /\ RequestOK(t) /\ r.kind = "folder" /\ FolderShape(t) /\ y \in Dirs
      /\ At(t, "look") /\ Undecided(t) /\ DOMAIN written[t].record = {}
  BY RequestIs DEF LookAtFolder, At, Is, Undecided, RequestOK, Shape
<1>2. /\ Executes(t, "folder", {}) /\ written' = written
      /\ seen' = [seen EXCEPT ![t] = tables.parent[y]]
  BY DEF LookAtFolder
<1>3. /\ UNCHANGED shared /\ DOMAIN open' = DOMAIN open
      /\ open'[t].request = r /\ open'[t].at = "folder" /\ open'[t].todo = {}
      /\ \A u \in DOMAIN open \ {t} : open'[u] = open[u]
  BY <1>2, ExecutedIs
<1>4. /\ DOMAIN written' = DOMAIN open /\ DOMAIN seen' = DOMAIN open
      /\ seen'[t] = tables.parent[y] /\ \A u \in DOMAIN open \ {t} : Untouched(u)
  BY <1>2, <1>3 DEF DigestInv, Together, Untouched
<1>5. Undecided(t)'
  BY <1>3 DEF Undecided, At
<1>6. Shape(t)'
  <2>1. FolderShape(t)'
    BY <1>1, <1>2, <1>3, <1>5 DEF FolderShape
  <2> QED BY <1>1, <1>2, <1>3, <2>1, KindsAre DEF Shape, RequestOK, At
<1>7. DigestsFaithful(t)'
  BY <1>1, <1>2, <1>3 DEF DigestsFaithful, At
<1>8. Covered(t)'
  BY <1>1, <1>3, <1>4 DEF Covered, Outside, Aim, At, shared
<1> QED BY <1>3, <1>4, <1>6, <1>7, <1>8, StatementKeeps DEF RequestOK

\* A folder that moves affects those above its new place and its old one.
LEMMA FolderSourceKeepsDigests ==
  ASSUME DigestInv, NEW t \in DOMAIN open, UpsertFolderSource(t)
  PROVE  DigestInv'
<1> DEFINE r == open[t].request
           y == r.folder
           after == [View(t) EXCEPT !.parent[y] = r.parent]
           affected == IF seen[t] = r.parent THEN {}
                       ELSE Ancestors(after, {y}) \cup Ancestors(after, {seen[t]} \ {0})
<1>1. /\ RequestOK(t) /\ r.kind = "folder" /\ FolderShape(t) /\ y \in Dirs
      /\ At(t, "folder") /\ Undecided(t) /\ DOMAIN written[t].record = {}
      /\ DOMAIN written[t].parent = {}
  BY RequestIs, KindsAre DEF UpsertFolderSource, At, Kinds, Undecided, RequestOK, Shape, FolderShape
<1>2. /\ Executes(t, "own", {y} \cup affected) /\ Writes(t, "parent", y, r.parent) /\ seen' = seen
  BY DEF UpsertFolderSource
<1>3. /\ after.parent[y] = r.parent
      /\ \A g \in Dirs \ {y} : tables.parent[g] = after.parent[g]
  <2>1. View(t).parent = Over(written[t].parent, tables.parent) /\ DOMAIN View(t) = Tables
    BY ViewIs
  <2>2. DOMAIN View(t).parent = Dirs /\ \A g \in Dirs : View(t).parent[g] = tables.parent[g]
    BY <1>1, <2>1 DEF DigestInv, Filled, Over
  <2>3. "parent" \in DOMAIN View(t)
    BY <2>1 DEF Tables
  <2>4. after.parent = [View(t).parent EXCEPT ![y] = r.parent]
    BY <2>3
  <2> HIDE DEF after
  <2> QED BY <1>1, <2>2, <2>4
<1> HIDE DEF after
<1>4. affected \subseteq Dirs
  BY AncestorsAbove
<1>5. \A f \in Dirs : f \notin {y} \cup affected /\ Outside(t, f) =>
        \/ tables.parent[y] = r.parent
        \/ y \notin Subtree(tables, f) /\ r.parent \notin Subtree(tables, f)
  <2> SUFFICES ASSUME NEW f \in Dirs, f \notin {y} \cup affected, Outside(t, f),
                      tables.parent[y] # r.parent
               PROVE  y \notin Subtree(tables, f) /\ r.parent \notin Subtree(tables, f)
    OBVIOUS
  <2>1. \/ tables.parent[y] = seen[t]
        \/ y \notin Subtree(tables, f) /\ seen[t] \notin Subtree(tables, f)
    BY <1>1 DEF Outside, Aim, At
  <2>2. CASE seen[t] = r.parent
    BY <2>1, <2>2
  <2>3. CASE seen[t] # r.parent
    <3>1. f \notin Ancestors(after, {y}) /\ f \notin Ancestors(after, {seen[t]} \ {0})
      BY <2>3
    <3>2. y \notin Subtree(after, f)
      BY <3>1, BelowHasAbove
    <3>3. seen[t] \notin Subtree(after, f)
      <4>1. 0 \notin Dirs
        BY TransactionAssumption DEF Dirs
      <4>2. Subtree(after, f) \subseteq Dirs
        BY SubtreeClosed
      <4>3. ({seen[t]} \ {0}) \cap Subtree(after, f) = {}
        BY <3>1, BelowHasAbove
      <4> QED BY <4>1, <4>2, <4>3
    <3>4. y \notin Subtree(tables, f) \/ tables.parent[y] \notin Subtree(after, f)
      BY <2>1, <3>3
    <3> QED BY <1>1, <1>3, <3>2, <3>4, MovedOutside
  <2> QED BY <2>2, <2>3
<1> HIDE DEF affected
<1>6. /\ UNCHANGED shared /\ DOMAIN open' = DOMAIN open
      /\ open'[t].request = r /\ open'[t].at = "own" /\ open'[t].todo = {y} \cup affected
      /\ \A u \in DOMAIN open \ {t} : open'[u] = open[u]
  BY <1>2, ExecutedIs
<1>7. /\ DOMAIN written' = DOMAIN open /\ DOMAIN written'[t] = Tables
      /\ written'[t].parent = Put(written[t].parent, y, r.parent)
      /\ \A k \in Tables \ {"parent"} : written'[t][k] = written[t][k]
      /\ \A u \in DOMAIN open \ {t} : written'[u] = written[u]
  BY <1>2, WritesIs DEF Tables
<1>8. ~Undecided(t)'
  BY <1>6 DEF Undecided, At
<1>9. Shape(t)'
  <2>1. DOMAIN written'[t].parent = {y} /\ written'[t].parent[y] = r.parent
    BY <1>1, <1>7 DEF Put
  <2>2. /\ DOMAIN written'[t].record = {} /\ DOMAIN written'[t].source = {}
        /\ DOMAIN written'[t].index = {} /\ DOMAIN written'[t].member = {}
    BY <1>1, <1>7 DEF FolderShape, Tables
  <2>3. FolderShape(t)'
    BY <1>6, <1>8, <2>1, <2>2 DEF FolderShape
  <2> QED BY <1>1, <1>4, <1>6, <1>7, <1>8, <2>2, <2>3, KindsAre DEF Shape, RequestOK, At
<1>10. DigestsFaithful(t)'
  BY <1>1, <1>6, <1>7 DEF DigestsFaithful, At, Tables
<1>11. Covered(t)'
  <2>1. ASSUME NEW f \in Dirs, Beside(t, f) PROVE Beside(t, f)'
    BY <1>6, <2>1 DEF Beside, Excused, shared
  <2>2. ASSUME NEW f \in Dirs, f \notin {y} \cup affected, Outside(t, f) PROVE Outside(t, f)'
    BY <1>1, <1>5, <1>6, <2>2 DEF Outside, Aim, At, shared
  <2>3. \A f \in Dirs : f \in open[t].todo \cup DOMAIN written[t].record => f \in open[t].todo
    BY <1>1
  <2>4. open[t].todo = {}
    BY <1>1 DEF RequestOK, Shape
  <2> QED BY <1>1, <1>6, <2>1, <2>2, <2>3, <2>4 DEF RequestOK, Covered
<1>12. DOMAIN seen' = DOMAIN open /\ \A u \in DOMAIN open \ {t} : Untouched(u)
  BY <1>2, <1>6, <1>7 DEF DigestInv, Together, Untouched
<1> QED BY <1>6, <1>7, <1>9, <1>10, <1>11, <1>12, StatementKeeps DEF RequestOK

-----------------------------------------------------------------------------
(* Digests that are read and recorded.                                     *)

LEMMA NextIs ==
  ASSUME NEW t, open[t].todo \subseteq Dirs, open[t].todo # {}
  PROVE  NextFolder(t) \in open[t].todo
<1>1. open[t].todo \in SUBSET Int /\ IsFiniteSet(open[t].todo)
  BY FoldersFinite DEF Dirs
<1> QED BY <1>1, LeastElement DEF NextFolder

\* The record of a digest changes nothing that a digest is of.
SameInputs(v, w) ==
  v.source = w.source /\ v.index = w.index /\ v.member = w.member /\ v.parent = w.parent

LEMMA SameInputsSameWords ==
  ASSUME NEW v, NEW w, SameInputs(v, w)
  PROVE  \A f, d : Word(v, f, d) = Word(w, f, d)
<1>1. \A f : Subtree(v, f) = Subtree(w, f)
  BY SameTreeSameSubtree DEF SameInputs, SameTree
<1> QED BY <1>1 DEF SameInputs, Word

\* What the request has read before stays faithful, and so does what it is about.
LEMMA RecordingKeepsDigests ==
  ASSUME DigestInv, NEW t \in DOMAIN open,
         NEW statement, NEW todo, Executes(t, statement, todo), todo \subseteq open[t].todo,
         ~Undecided(t), statement \in {"own record", "invalidate", "record"},
         statement \in Statements(open[t].request.kind),
         DOMAIN written' = DOMAIN open, DOMAIN seen' = DOMAIN open,
         \A u \in DOMAIN open \ {t} : written'[u] = written[u] /\ seen'[u] = seen[u],
         DOMAIN written'[t] = Tables,
         \A k \in Tables \ {"record"} : written'[t][k] = written[t][k],
         statement = "record" => todo # {},
         open[t].todo \cup DOMAIN written[t].record = todo \cup DOMAIN written'[t].record,
         statement = "own record" => DOMAIN written'[t].record = {},
         At(t, "own") \/ At(t, "own record") \/ At(t, "invalidate") \/ At(t, "record"),
         \A f \in DOMAIN written'[t].record : Faithful(t, written'[t].record[f], View(t), f),
         statement = "own record" => Faithful(t, seen'[t], View(t), open[t].request.folder),
         statement = "record" => Faithful(t, seen'[t], View(t), Min(todo))
  PROVE  DigestInv'
<1> DEFINE r == open[t].request
<1>1. /\ RequestOK(t) /\ r.kind \in Kinds
      /\ r.kind = "folder" => FolderShape(t) /\ r.folder \in Dirs
      /\ r.kind # "folder" => DocumentShape(t)
  BY RequestIs
<1>2. /\ UNCHANGED shared /\ DOMAIN open' = DOMAIN open
      /\ open'[t].request = r /\ open'[t].at = statement /\ open'[t].todo = todo
      /\ \A u \in DOMAIN open \ {t} : open'[u] = open[u]
  BY ExecutedIs
<1>3. ~Undecided(t)'
  BY <1>2 DEF Undecided, At
<1>4. /\ written'[t].source = written[t].source /\ written'[t].index = written[t].index
      /\ written'[t].member = written[t].member /\ written'[t].parent = written[t].parent
  BY DEF Tables
<1>5. Shape(t)'
  <2>1. CASE r.kind = "folder"
    <3>1. FolderShape(t)'
      BY <1>1, <1>2, <1>3, <1>4, <2>1 DEF FolderShape
    <3>2. DOMAIN written'[t].record \subseteq Dirs
      BY <1>1 DEF RequestOK, Shape
    <3> QED BY <1>1, <1>2, <1>3, <2>1, <3>1, <3>2 DEF Shape, RequestOK, At
  <2>2. CASE r.kind # "folder"
    <3>1. statement # "own record" /\ (At(t, "invalidate") \/ At(t, "record"))
      BY <1>1, <2>2, KindsAre DEF RequestOK, Shape, At, Kinds
    <3>2. DocumentShape(t)'
      BY <1>1, <1>2, <1>3, <1>4, <2>2, <3>1 DEF DocumentShape, At, Is
    <3>3. DOMAIN written'[t].record \subseteq Dirs
      BY <1>1 DEF RequestOK, Shape
    <3> QED BY <1>1, <1>2, <1>3, <2>2, <3>1, <3>2, <3>3 DEF Shape, RequestOK, At
  <2> QED BY <2>1, <2>2
<1>6. DigestsFaithful(t)'
  <2>1. SameInputs(View(t)', View(t))
    <3>1. /\ View(t).source = Over(written[t].source, tables.source)
          /\ View(t).index = Over(written[t].index, tables.index)
          /\ View(t).member = Over(written[t].member, tables.member)
          /\ View(t).parent = Over(written[t].parent, tables.parent)
      BY ViewIs
    <3>2. /\ View(t)'.source = Over(written'[t].source, tables'.source)
          /\ View(t)'.index = Over(written'[t].index, tables'.index)
          /\ View(t)'.member = Over(written'[t].member, tables'.member)
          /\ View(t)'.parent = Over(written'[t].parent, tables'.parent)
      BY UnwrittenIs DEF View, Tables
    <3> QED BY <1>2, <1>4, <3>1, <3>2 DEF SameInputs, shared
  <2>2. \A f, d : Word(View(t)', f, d) = Word(View(t), f, d)
    BY <2>1, SameInputsSameWords
  <2>3. \A digest, f : Faithful(t, digest, View(t), f) => Faithful(t, digest, View(t), f)'
    <3>1. \A u, X : Excused(u, X) => Excused(u, X)'
      BY <1>2, ExcusedStays DEF shared
    <3>2. View(t)'.parent = View(t).parent
      BY <2>1 DEF SameInputs
    <3> QED BY <2>2, <3>1, <3>2 DEF Faithful
  <2>4. ASSUME NEW f \in DOMAIN written'[t].record
        PROVE  Faithful(t, written[t].record[f], View(t), f)'
    <3>1. PICK digest : digest = written'[t].record[f]
      OBVIOUS
    <3>2. Faithful(t, digest, View(t), f)'
      BY <2>3, <3>1
    <3> QED BY <3>1, <3>2 DEF Faithful
  <2>5. ASSUME statement = "own record"
        PROVE  Faithful(t, seen[t], View(t), open[t].request.folder)'
    <3>1. PICK digest, f : digest = seen'[t] /\ f = r.folder
      OBVIOUS
    <3>2. Faithful(t, digest, View(t), f)'
      BY <2>3, <2>5, <3>1
    <3> QED BY <1>2, <3>1, <3>2 DEF Faithful
  <2>6. ASSUME statement = "record"
        PROVE  Faithful(t, seen[t], View(t), NextFolder(t))'
    <3>1. PICK digest, f : digest = seen'[t] /\ f = Min(todo)
      OBVIOUS
    <3>2. Faithful(t, digest, View(t), f)'
      BY <2>3, <2>6, <3>1
    <3> QED BY <1>2, <3>1, <3>2 DEF Faithful, NextFolder
  <2> QED BY <1>2, <2>4, <2>5, <2>6 DEF DigestsFaithful, At
<1>7. Covered(t)'
  <2>1. ASSUME NEW f \in Dirs, Beside(t, f) PROVE Beside(t, f)'
    BY <1>2, <2>1 DEF Beside, Excused, shared
  <2>2. ~At(t, "folder") /\ ~At(t, "look")
    BY DEF Undecided
  <2>3. ASSUME NEW f \in Dirs, Outside(t, f) PROVE Outside(t, f)'
    BY <1>2, <1>3, <1>4, <2>2, <2>3 DEF Outside, Aim, At, shared
  <2> QED BY <1>1, <1>2, <2>1, <2>3 DEF RequestOK, Covered
<1>8. \A u \in DOMAIN open \ {t} : Untouched(u)
  BY <1>2 DEF Untouched
<1> QED BY <1>2, <1>5, <1>6, <1>7, <1>8, StatementKeeps DEF RequestOK

LEMMA DigestStatementsKeep ==
  ASSUME DigestInv, NEW t \in DOMAIN open,
         ReadDigest(t) \/ UpsertFolderIndexRecord(t) \/ MarkFolderSignalsPending(t)
  PROVE  DigestInv'
<1> DEFINE r == open[t].request
           n == NextFolder(t)
           todo == open[t].todo
<1>1. /\ RequestOK(t) /\ r.kind \in Kinds
      /\ r.kind = "folder" => FolderShape(t) /\ r.folder \in Dirs
      /\ DOMAIN written[t] = Tables /\ DOMAIN written = DOMAIN open /\ DOMAIN seen = DOMAIN open
  BY RequestIs DEF DigestInv, Together
<1>2. open[t].at \in {"own", "own record", "invalidate", "record"} /\ ~Undecided(t)
  BY DEF ReadDigest, UpsertFolderIndexRecord, MarkFolderSignalsPending, At, Undecided
<1>3. /\ At(t, "own") \/ At(t, "own record") => r.kind = "folder"
      /\ {"invalidate", "record"} \subseteq Statements(r.kind)
      /\ r.kind = "folder" => "own record" \in Statements(r.kind)
  BY <1>1, KindsAre DEF RequestOK, Shape, At, Kinds
<1>4. /\ \A f \in DOMAIN written[t].record : Faithful(t, written[t].record[f], View(t), f)
      /\ \A f : Faithful(t, InputDigest(View(t), f), View(t), f)
  <2>1. \A f \in DOMAIN written[t].record : Faithful(t, written[t].record[f], View(t), f)
    BY <1>1 DEF RequestOK, DigestsFaithful
  <2>2. \A f : Faithful(t, InputDigest(View(t), f), View(t), f)
    BY SaysIs DEF Faithful
  <2> QED BY <2>1, <2>2
<1>5. /\ todo \subseteq Dirs /\ (todo # {} => n \in todo) /\ (At(t, "record") => todo # {})
      /\ ~At(t, "invalidate") /\ ~At(t, "record") => DOMAIN written[t].record = {}
      /\ At(t, "own record") => r.folder \in todo
  <2>1. /\ todo \subseteq Dirs /\ (At(t, "record") => todo # {})
        /\ ~At(t, "invalidate") /\ ~At(t, "record") => DOMAIN written[t].record = {}
    BY <1>1 DEF RequestOK, Shape
  <2>2. todo # {} => n \in todo
    BY <2>1, NextIs
  <2>3. At(t, "own record") => r.folder \in todo
    BY <1>1, <1>2, <1>3, <2>1 DEF FolderShape, At
  <2> QED BY <2>1, <2>2, <2>3
<1>6. CASE ReadDigest(t)
  <2>1. /\ UNCHANGED written /\ DOMAIN seen' = DOMAIN open
        /\ \A u \in DOMAIN open \ {t} : seen'[u] = seen[u]
        /\ \/ At(t, "own") /\ Executes(t, "own record", todo)
              /\ seen'[t] = InputDigest(View(t), r.folder)
           \/ At(t, "invalidate") /\ todo # {} /\ Executes(t, "record", todo)
              /\ seen'[t] = InputDigest(View(t), Min(todo))
    BY <1>1, <1>6 DEF ReadDigest, NextFolder
  <2>2. CASE At(t, "own") /\ Executes(t, "own record", todo)
             /\ seen'[t] = InputDigest(View(t), r.folder)
    <3>1. DOMAIN written[t].record = {}
      BY <1>5, <2>2 DEF At
    <3> QED BY <1>1, <1>2, <1>3, <1>4, <2>1, <2>2, <3>1, RecordingKeepsDigests
  <2>3. CASE At(t, "invalidate") /\ todo # {} /\ Executes(t, "record", todo)
             /\ seen'[t] = InputDigest(View(t), Min(todo))
    BY <1>1, <1>2, <1>3, <1>4, <2>1, <2>3, RecordingKeepsDigests
  <2> QED BY <2>1, <2>2, <2>3
<1>7. CASE UpsertFolderIndexRecord(t)
  <2>1. /\ At(t, "own record") /\ Executes(t, "invalidate", todo)
        /\ Writes(t, "record", r.folder, seen[t]) /\ seen' = seen
    BY <1>7 DEF UpsertFolderIndexRecord
  <2>2. /\ DOMAIN written' = DOMAIN open /\ DOMAIN written'[t] = Tables
        /\ written'[t].record = Put(written[t].record, r.folder, seen[t])
        /\ \A k \in Tables \ {"record"} : written'[t][k] = written[t][k]
        /\ \A u \in DOMAIN open \ {t} : written'[u] = written[u]
    <3>1. "record" \in Tables
      BY DEF Tables
    <3>2. Writes(t, "record", r.folder, seen[t])
      BY <2>1
    <3> HIDE DEF r
    <3> QED BY <3>1, <3>2, WritesIs
  <2>3. DOMAIN written[t].record = {} /\ r.folder \in todo
    BY <1>5, <2>1 DEF At
  <2>4. DOMAIN written'[t].record = {r.folder} /\ written'[t].record[r.folder] = seen[t]
    BY <2>2, <2>3 DEF Put
  <2>5. Faithful(t, seen[t], View(t), r.folder)
    BY <1>1, <2>1 DEF RequestOK, DigestsFaithful
  <2>6. \A f \in DOMAIN written'[t].record : Faithful(t, written'[t].record[f], View(t), f)
    BY <2>4, <2>5
  <2>7. open[t].todo \cup DOMAIN written[t].record = todo \cup DOMAIN written'[t].record
    BY <2>3, <2>4
  <2> HIDE DEF todo
  <2> QED BY <1>1, <1>2, <1>3, <2>1, <2>2, <2>6, <2>7, RecordingKeepsDigests DEF todo
<1>8. CASE MarkFolderSignalsPending(t)
  <2>1. /\ At(t, "record") /\ Executes(t, "invalidate", todo \ {n})
        /\ Writes(t, "record", n, seen[t]) /\ seen' = seen
    BY <1>8 DEF MarkFolderSignalsPending
  <2>2. /\ DOMAIN written' = DOMAIN open /\ DOMAIN written'[t] = Tables
        /\ written'[t].record = Put(written[t].record, n, seen[t])
        /\ \A k \in Tables \ {"record"} : written'[t][k] = written[t][k]
        /\ \A u \in DOMAIN open \ {t} : written'[u] = written[u]
    <3>1. "record" \in Tables
      BY DEF Tables
    <3> QED BY <2>1, <3>1, WritesIs
  <2>3. n \in todo
    BY <1>5, <2>1
  <2>4. /\ DOMAIN written'[t].record = DOMAIN written[t].record \cup {n}
        /\ written'[t].record[n] = seen[t]
        /\ \A f \in DOMAIN written[t].record \ {n} : written'[t].record[f] = written[t].record[f]
    BY <2>2 DEF Put
  <2>5. Faithful(t, seen[t], View(t), n)
    BY <1>1, <2>1 DEF RequestOK, DigestsFaithful
  <2>6. \A f \in DOMAIN written'[t].record : Faithful(t, written'[t].record[f], View(t), f)
    BY <1>4, <2>4, <2>5
  <2>7. todo \cup DOMAIN written[t].record = (todo \ {n}) \cup DOMAIN written'[t].record
    BY <2>3, <2>4
  <2> HIDE DEF n
  <2> QED BY <1>1, <1>2, <1>3, <2>1, <2>2, <2>6, <2>7, RecordingKeepsDigests DEF At
<1> QED BY <1>6, <1>7, <1>8

-----------------------------------------------------------------------------
(* Requests that begin, and that end without a commit.                     *)

LEMMA OthersAreLeft ==
  ASSUME DigestInv, NEW t \in DOMAIN open, Ends(t)
  PROVE  /\ DOMAIN open' = DOMAIN open \ {t}
         /\ DOMAIN written' = DOMAIN open' /\ DOMAIN seen' = DOMAIN open'
         /\ \A u \in DOMAIN open' : Untouched(u)
BY DEF DigestInv, Together, Ends, Without, Untouched

LEMMA EndKeepsDigests ==
  ASSUME DigestInv, NEW t \in DOMAIN open, Ends(t), UNCHANGED shared
  PROVE  DigestInv'
<1>1. /\ DOMAIN open' = DOMAIN open \ {t}
      /\ DOMAIN written' = DOMAIN open' /\ DOMAIN seen' = DOMAIN open'
      /\ \A u \in DOMAIN open' : Untouched(u)
  BY OthersAreLeft
<1>2. Grows
  BY DEF shared, Grows
<1>3. Filled' /\ Mended'
  BY <1>2, TablesStay DEF DigestInv
<1>4. Together'
  BY <1>1 DEF DigestInv, Together, shared
<1>5. \A u \in DOMAIN open' : RequestOK(u)'
  BY <1>1, <1>2, UntouchedStays DEF DigestInv, RequestOK
<1> QED BY <1>3, <1>4, <1>5 DEF DigestInv, RequestOK

LEMMA BeginKeepsDigests ==
  ASSUME DigestInv, NEW r \in Requests, Begin(r)
  PROVE  DigestInv'
<1>0. PICK t : t = begun'
  OBVIOUS
<1> DEFINE at == IF r.kind \in {"index", "empty"} THEN "source" ELSE "look"
<1>1. /\ t = begun + 1 /\ begun \in Nat /\ t \notin DOMAIN open
      /\ DOMAIN open' = DOMAIN open \cup {t}
      /\ open'[t] = [request |-> r, held |-> FirstHeld(r), todo |-> {}, at |-> at]
      /\ DOMAIN written' = DOMAIN open' /\ written'[t] = Unwritten /\ DOMAIN seen' = DOMAIN open'
      /\ \A u \in DOMAIN open : Untouched(u)
  BY <1>0 DEF DigestInv, Together, Begin, Put, Untouched
<1>2. Grows /\ <<tables, changed, recordedBy>>' = <<tables, changed, recordedBy>>
  BY DEF Begin, Grows
<1>3. Filled' /\ Mended'
  BY <1>2, TablesStay DEF DigestInv
<1>4. Together'
  <2>1. t \in Nat /\ DOMAIN open' \subseteq 1 .. t
    BY <1>0, <1>1 DEF DigestInv, Together
  <2>2. ASSUME NEW u \in DOMAIN open', NEW v \in DOMAIN open', u # v PROVE <<u, v>> \in overlaps'
    <3>1. overlaps' = overlaps \cup {<<t, x>> : x \in DOMAIN open} \cup {<<x, t>> : x \in DOMAIN open}
      BY <1>0 DEF Begin
    <3>2. CASE u = t
      BY <1>1, <2>2, <3>1, <3>2
    <3>3. CASE v = t
      BY <1>1, <2>2, <3>1, <3>3
    <3>4. CASE u # t /\ v # t
      BY <1>1, <2>2, <3>1, <3>4 DEF DigestInv, Together
    <3> QED BY <3>2, <3>3, <3>4
  <2> QED BY <1>0, <1>1, <2>1, <2>2 DEF Together
<1>5. RequestOK(t)'
  <2>1. Undecided(t)' /\ at \in Statements(r.kind)
    <3>1. r.kind \in {"index", "empty", "delete", "folder"}
      BY TransactionAssumption DEF Kinds
    <3>2. at \in Statements(r.kind)
      BY <3>1, KindsAre
    <3>3. open'[t].at = at /\ at \in {"source", "look"}
      BY <1>1
    <3> QED BY <3>2, <3>3 DEF Undecided, At
  <2>2. Shape(t)'
    <3>1. r.kind = "folder" => FolderShape(t)'
      BY <1>1, <2>1, UnwrittenIs DEF FolderShape, Tables
    <3>2. r.kind # "folder" => DocumentShape(t)'
      <4>1. ~((Is(t, {"index"}) /\ ~At(t, "source")) \/ At(t, "invalidate") \/ At(t, "record"))'
        BY <1>1 DEF Is, At
      <4> QED BY <1>1, <2>1, <4>1, UnwrittenIs DEF DocumentShape, Tables
    <3> QED BY <1>1, <2>1, <3>1, <3>2, UnwrittenIs DEF Shape, At, Tables
  <2>3. DigestsFaithful(t)'
    BY <1>1, UnwrittenIs DEF DigestsFaithful, At, Tables
  <2>4. Covered(t)'
    BY <1>1, <2>1 DEF Covered, Outside, At
  <2> QED BY <2>2, <2>3, <2>4 DEF RequestOK
<1>6. \A u \in DOMAIN open' : RequestOK(u)'
  <2>1. \A u \in DOMAIN open : RequestOK(u)'
    BY <1>1, <1>2, UntouchedStays DEF DigestInv, RequestOK
  <2> QED BY <1>1, <1>5, <2>1
<1> QED BY <1>3, <1>4, <1>6 DEF DigestInv, RequestOK

-----------------------------------------------------------------------------
(* A commit.                                                               *)

\* What a document's request commits concerns that document; a folder's, the tree.
LEMMA CommitIs ==
  ASSUME DigestInv, NEW t \in DOMAIN open, At(t, "invalidate"), tables' = View(t)
  PROVE  /\ Filled'
         /\ \A f \in DOMAIN written[t].record : tables'.record[f] = written[t].record[f]
         /\ \A f \in Dirs \ DOMAIN written[t].record : tables'.record[f] = tables.record[f]
         /\ open[t].request.kind = "folder" =>
              /\ \A d \in Docs : /\ tables'.source[d] = tables.source[d]
                                 /\ tables'.index[d] = tables.index[d]
                                 /\ tables'.member[d] = tables.member[d]
              /\ \A g \in Dirs \ {open[t].request.folder} : tables'.parent[g] = tables.parent[g]
              /\ tables'.parent[open[t].request.folder] = open[t].request.parent
         /\ open[t].request.kind # "folder" =>
              /\ SameTree(tables', tables)
              /\ \A d \in Docs \ {open[t].request.document} :
                   /\ tables'.source[d] = tables.source[d] /\ tables'.index[d] = tables.index[d]
                   /\ tables'.member[d] = tables.member[d]
<1>1. /\ tables'.source = Over(written[t].source, tables.source)
      /\ tables'.index = Over(written[t].index, tables.index)
      /\ tables'.member = Over(written[t].member, tables.member)
      /\ tables'.parent = Over(written[t].parent, tables.parent)
      /\ tables'.record = Over(written[t].record, tables.record)
      /\ DOMAIN tables' = Tables
  BY ViewIs
<1>2. Filled
  BY DEF DigestInv
<1>3. /\ DOMAIN written[t].record \subseteq Dirs /\ ~Undecided(t)
      /\ open[t].request.kind = "folder" => FolderShape(t) /\ open[t].request.folder \in Dirs
      /\ open[t].request.kind # "folder" => DocumentShape(t) /\ open[t].request.document \in Docs
  BY RequestIs DEF RequestOK, Shape, Undecided, At
<1>4. /\ \A f \in DOMAIN written[t].record : tables'.record[f] = written[t].record[f]
      /\ \A f \in Dirs \ DOMAIN written[t].record : tables'.record[f] = tables.record[f]
      /\ DOMAIN tables'.record = Dirs
  BY <1>1, <1>2, <1>3 DEF Over, Filled
<1>5. CASE open[t].request.kind = "folder"
  <2>1. /\ DOMAIN written[t].source = {} /\ DOMAIN written[t].index = {}
        /\ DOMAIN written[t].member = {} /\ DOMAIN written[t].parent = {open[t].request.folder}
        /\ written[t].parent[open[t].request.folder] = open[t].request.parent
    BY <1>3, <1>5 DEF FolderShape
  <2>2. /\ DOMAIN tables'.source = Docs /\ DOMAIN tables'.index = Docs /\ DOMAIN tables'.member = Docs
        /\ \A d \in Docs : /\ tables'.source[d] = tables.source[d]
                           /\ tables'.index[d] = tables.index[d]
                           /\ tables'.member[d] = tables.member[d]
    BY <1>1, <1>2, <2>1 DEF Over, Filled
  <2>3. /\ DOMAIN tables'.parent = Dirs
        /\ \A g \in Dirs \ {open[t].request.folder} : tables'.parent[g] = tables.parent[g]
        /\ tables'.parent[open[t].request.folder] = open[t].request.parent
    BY <1>1, <1>2, <1>3, <1>5, <2>1 DEF Over, Filled
  <2> QED BY <1>1, <1>4, <1>5, <2>2, <2>3 DEF Filled
<1>6. CASE open[t].request.kind # "folder"
  <2>1. /\ DOMAIN written[t].source \subseteq {open[t].request.document}
        /\ DOMAIN written[t].index \subseteq {open[t].request.document}
        /\ DOMAIN written[t].member \subseteq {open[t].request.document}
        /\ DOMAIN written[t].parent = {}
    BY <1>3, <1>6 DEF DocumentShape
  <2>2. /\ DOMAIN tables'.source = Docs /\ DOMAIN tables'.index = Docs /\ DOMAIN tables'.member = Docs
        /\ \A d \in Docs \ {open[t].request.document} :
             /\ tables'.source[d] = tables.source[d] /\ tables'.index[d] = tables.index[d]
             /\ tables'.member[d] = tables.member[d]
    BY <1>1, <1>2, <1>3, <1>6, <2>1 DEF Over, Filled
  <2>3. DOMAIN tables'.parent = Dirs /\ SameTree(tables', tables)
    BY <1>1, <1>2, <2>1 DEF Over, Filled, SameTree
  <2> QED BY <1>1, <1>4, <1>6, <2>2, <2>3 DEF Filled
<1> QED BY <1>5, <1>6

\* A request that leaves f's record as it is leaves what a digest of f says, unless it
\* or something it is about has changed beside the request that recorded f.
LEMMA CommitLeavesSubtree ==
  ASSUME DigestInv, NEW t \in DOMAIN open, At(t, "invalidate"), open[t].todo = {},
         tables' = View(t), NEW f \in Dirs, f \notin DOMAIN written[t].record,
         open[t].request.kind # "folder" \/ Outside(t, f)
  PROVE  Subtree(tables', f) = Subtree(tables, f)
<1> DEFINE r == open[t].request
<1>1. CASE r.kind # "folder"
  <2>1. SameTree(tables', tables)
    BY <1>1, CommitIs
  <2> QED BY <2>1, SameTreeSameSubtree
<1>2. CASE r.kind = "folder" /\ Outside(t, f)
  <2>1. /\ \A g \in Dirs \ {r.folder} : tables'.parent[g] = tables.parent[g]
        /\ tables'.parent[r.folder] = r.parent
    BY <1>2, CommitIs
  <2>2. \/ tables.parent[r.folder] = r.parent
        \/ r.folder \notin Subtree(tables, f) /\ r.parent \notin Subtree(tables, f)
    BY <1>2 DEF Outside, Aim, At
  <2>3. CASE tables.parent[r.folder] = r.parent
    <3>1. SameTree(tables', tables)
      BY <2>1, <2>3 DEF SameTree
    <3> QED BY <3>1, SameTreeSameSubtree
  <2>4. CASE r.folder \notin Subtree(tables, f) /\ r.parent \notin Subtree(tables, f)
    BY <2>1, <2>4, MoveOutside
  <2> QED BY <2>2, <2>3, <2>4
<1> QED BY <1>1, <1>2

LEMMA CommitLeavesWords ==
  ASSUME DigestInv, NEW t \in DOMAIN open, At(t, "invalidate"), open[t].todo = {},
         tables' = View(t), NEW f \in Dirs, f \notin DOMAIN written[t].record,
         NEW d \in Docs,
         \/ Outside(t, f)
         \/ open[t].request.kind # "folder" /\ d # open[t].request.document
  PROVE  Word(tables', f, d) = Word(tables, f, d)
<1> DEFINE r == open[t].request
<1>1. Subtree(tables', f) = Subtree(tables, f)
  BY CommitLeavesSubtree
<1>2. CASE r.kind = "folder" \/ d # r.document
  <2>1. /\ tables'.source[d] = tables.source[d] /\ tables'.index[d] = tables.index[d]
        /\ tables'.member[d] = tables.member[d]
    BY <1>2, CommitIs
  <2> QED BY <1>1, <2>1 DEF Word
<1>3. CASE r.kind # "folder" /\ d = r.document
  <2>1. /\ tables.member[d] \cap Subtree(tables, f) = {}
        /\ d \in DOMAIN written[t].member => written[t].member[d] \cap Subtree(tables, f) = {}
    BY <1>3 DEF Outside, Undecided, At
  <2>2. tables'.member = Over(written[t].member, tables.member)
    BY ViewIs
  <2>3. tables'.member[d] \cap Subtree(tables, f) = {}
    BY <2>1, <2>2 DEF Over, DigestInv, Filled
  <2> QED BY <1>1, <2>1, <2>3 DEF Word
<1> QED BY <1>2, <1>3

LEMMA CommitExcuses ==
  ASSUME DigestInv, NEW t \in DOMAIN open, Commit(t)
  PROVE  /\ At(t, "invalidate") /\ open[t].todo = {} /\ Ends(t) /\ tables' = View(t)
         /\ UNCHANGED <<begun, overlaps>>
         /\ \A f \in DOMAIN written[t].record : recordedBy'[f] = t
         /\ \A f \in Dirs \ DOMAIN written[t].record : recordedBy'[f] = recordedBy[f]
         /\ \A w, X : Excused(w, X) => Excused(w, X)'
         /\ \A w : <<t, w>> \in overlaps =>
              \E x : /\ Excused(w, {x})'
                     /\ x = IF open[t].request.kind = "folder" THEN open[t].request.folder
                            ELSE open[t].request.document
<1>1. /\ At(t, "invalidate") /\ open[t].todo = {} /\ Ends(t) /\ tables' = View(t)
      /\ UNCHANGED <<begun, overlaps>>
      /\ changed' = changed \cup {<<t, x>> : x \in DOMAIN written[t].source \cup DOMAIN written[t].parent}
      /\ recordedBy' = Over([f \in DOMAIN written[t].record |-> t], recordedBy)
  BY DEF Commit
<1>2. \A w, X : Excused(w, X) => Excused(w, X)'
  BY <1>1, ExcusedStays
<1>3. PICK x : x = IF open[t].request.kind = "folder" THEN open[t].request.folder
                 ELSE open[t].request.document
  OBVIOUS
<1>4. <<t, x>> \in changed'
  <2>1. CASE open[t].request.kind = "folder"
    <3>1. open[t].request.folder \in DOMAIN written[t].parent
      BY <1>1, <2>1, RequestIs DEF FolderShape, Undecided, At
    <3> QED BY <1>1, <1>3, <2>1, <3>1
  <2>2. CASE open[t].request.kind # "folder"
    <3>1. open[t].request.document \in DOMAIN written[t].source
      BY <1>1, <2>2, RequestIs DEF DocumentShape, At
    <3> QED BY <1>1, <1>3, <2>2, <3>1
  <2> QED BY <2>1, <2>2
<1>5. \A w : <<t, w>> \in overlaps => Excused(w, {x})'
  BY <1>1, <1>4 DEF Excused
<1>6. /\ \A f \in DOMAIN written[t].record : recordedBy'[f] = t
      /\ \A f \in Dirs \ DOMAIN written[t].record : recordedBy'[f] = recordedBy[f]
  <2>1. DOMAIN recordedBy = Dirs
    BY DEF DigestInv, Mended
  <2> QED BY <1>1, <2>1 DEF Over
<1> QED BY <1>1, <1>2, <1>3, <1>4, <1>5, <1>6

LEMMA ExcusedMore ==
  ASSUME NEW w, NEW X, NEW Y, X \subseteq Y
  PROVE  (Excused(w, X) => Excused(w, Y)) /\ (Excused(w, X)' => Excused(w, Y)')
BY DEF Excused

\* The digests that are in the tables after a commit.
LEMMA CommitMends ==
  ASSUME DigestInv, NEW t \in DOMAIN open, Commit(t)
  PROVE  Mended'
<1>0. PICK r : r = open[t].request
  OBVIOUS
<1> USE <1>0
<1>1. /\ At(t, "invalidate") /\ open[t].todo = {} /\ tables' = View(t)
      /\ \A f \in DOMAIN written[t].record : recordedBy'[f] = t
      /\ \A f \in Dirs \ DOMAIN written[t].record : recordedBy'[f] = recordedBy[f]
      /\ \A w, X : Excused(w, X) => Excused(w, X)'
      /\ \A w : <<t, w>> \in overlaps =>
           /\ r.kind = "folder" => Excused(w, {r.folder})'
           /\ r.kind # "folder" => Excused(w, {r.document})'
  BY CommitExcuses
<1>2. /\ RequestOK(t) /\ ~Undecided(t) /\ (r.kind = "folder" => r.folder \in Dirs /\ FolderShape(t))
  BY <1>1, RequestIs DEF Undecided, At
<1>3. /\ \A f \in DOMAIN written[t].record : tables'.record[f] = written[t].record[f]
      /\ \A f \in Dirs \ DOMAIN written[t].record : tables'.record[f] = tables.record[f]
  BY <1>1, CommitIs
<1>4. ASSUME NEW f \in Dirs, f \in DOMAIN written[t].record
      PROVE  Faithful(recordedBy[f], tables.record[f], tables, f)'
  <2>1. Faithful(t, written[t].record[f], View(t), f)
    BY <1>2, <1>4 DEF RequestOK, DigestsFaithful
  <2> QED BY <1>1, <1>3, <1>4, <2>1 DEF Faithful
<1>5. ASSUME NEW f \in Dirs, f \notin DOMAIN written[t].record
      PROVE  Faithful(recordedBy[f], tables.record[f], tables, f)'
  <2>0. PICK w, digest : w = recordedBy[f] /\ digest = tables.record[f]
    OBVIOUS
  <2> USE <2>0
  <2>1. Faithful(w, digest, tables, f) /\ recordedBy'[f] = w /\ tables'.record[f] = digest
    BY <1>1, <1>3, <1>5 DEF DigestInv, Mended
  <2>2. tables'.parent[f] = tables.parent[f]
    <3>1. CASE r.kind = "folder"
      <4>1. f # r.folder
        BY <1>1, <1>2, <1>5, <3>1 DEF FolderShape
      <4> QED BY <1>1, <3>1, <4>1, CommitIs
    <3>2. CASE r.kind # "folder"
      BY <1>1, <3>2, CommitIs DEF SameTree
    <3> QED BY <3>1, <3>2
  <2>3. Beside(t, f) \/ Outside(t, f)
    BY <1>1, <1>2, <1>5 DEF RequestOK, Covered
  <2>4. ASSUME NEW d \in Docs
        PROVE  Word(tables', f, d) = Word(tables, f, d) \/ Excused(w, {d} \cup Dirs)'
    <3>1. CASE Outside(t, f) \/ (r.kind # "folder" /\ d # r.document)
      BY <1>1, <1>5, <3>1, CommitLeavesWords
    <3>2. CASE Beside(t, f) /\ r.kind = "folder"
      <4>1. Excused(w, Dirs)' \/ Excused(w, {r.folder})'
        BY <1>1, <3>2 DEF Beside
      <4> QED BY <1>2, <3>2, <4>1, ExcusedMore
    <3>3. CASE Beside(t, f) /\ r.kind # "folder" /\ d = r.document
      <4>1. Excused(w, Dirs)' \/ Excused(w, {d})'
        BY <1>1, <3>3 DEF Beside
      <4> QED BY <4>1, ExcusedMore
    <3> QED BY <2>3, <3>1, <3>2, <3>3
  <2>5. /\ \A d \in Docs : Says(digest, d) = Word(tables', f, d) \/ Excused(w, {d} \cup Dirs)'
        /\ digest.folder = tables'.parent[f] \/ Excused(w, {f})'
    BY <1>1, <2>1, <2>2, <2>4 DEF Faithful
  <2> QED BY <2>1, <2>5 DEF Faithful
<1>6. DOMAIN recordedBy' = Dirs
  BY RequestIs DEF Commit, Over, DigestInv, Mended, RequestOK, Shape
<1> QED BY <1>4, <1>5, <1>6 DEF Mended

\* The digests other requests have read.
LEMMA CommitKeepsFaithful ==
  ASSUME DigestInv, NEW t \in DOMAIN open, Commit(t), NEW u \in DOMAIN open \ {t}, Untouched(u),
         NEW f \in Dirs, NEW digest, Faithful(u, digest, View(u), f)
  PROVE  Faithful(u, digest, View(u), f)'
<1>0. PICK r : r = open[t].request
  OBVIOUS
<1> USE <1>0
<1>1. /\ At(t, "invalidate") /\ tables' = View(t) /\ <<t, u>> \in overlaps
      /\ \A X : Excused(u, X) => Excused(u, X)'
      /\ r.kind = "folder" => Excused(u, {r.folder})' /\ r.folder \in Dirs
      /\ r.kind # "folder" => Excused(u, {r.document})'
  BY CommitExcuses, RequestIs DEF DigestInv, Together
<1>2. /\ View(u).source = Over(written[u].source, tables.source)
      /\ View(u).index = Over(written[u].index, tables.index)
      /\ View(u).member = Over(written[u].member, tables.member)
      /\ View(u).parent = Over(written[u].parent, tables.parent)
  BY ViewIs
<1>3. /\ View(u)'.source = Over(written[u].source, tables'.source)
      /\ View(u)'.index = Over(written[u].index, tables'.index)
      /\ View(u)'.member = Over(written[u].member, tables'.member)
      /\ View(u)'.parent = Over(written[u].parent, tables'.parent)
  BY UnwrittenIs DEF View, Tables, Untouched
<1>4. Filled /\ Filled'
  BY <1>1, CommitIs DEF DigestInv
<1>5. r.kind # "folder" \/ f # r.folder => View(u)'.parent[f] = View(u).parent[f]
  <2>1. r.kind # "folder" \/ f # r.folder => tables'.parent[f] = tables.parent[f]
    BY <1>1, CommitIs DEF SameTree
  <2> QED BY <1>2, <1>3, <1>4, <2>1 DEF Over, Filled
<1>6. ASSUME NEW d \in Docs, r.kind # "folder", d # r.document
      PROVE  Word(View(u)', f, d) = Word(View(u), f, d)
  <2>1. SameTree(tables', tables) /\ tables'.source[d] = tables.source[d]
        /\ tables'.index[d] = tables.index[d] /\ tables'.member[d] = tables.member[d]
    BY <1>1, <1>6, CommitIs
  <2>2. SameTree(View(u)', View(u))
    BY <1>2, <1>3, <1>4, <2>1 DEF Over, Filled, SameTree
  <2>3. View(u)'.source[d] = View(u).source[d] /\ View(u)'.index[d] = View(u).index[d]
        /\ View(u)'.member[d] = View(u).member[d]
    BY <1>2, <1>3, <1>4, <2>1 DEF Over, Filled
  <2>4. Subtree(View(u)', f) = Subtree(View(u), f)
    BY <2>2, SameTreeSameSubtree
  <2> QED BY <2>3, <2>4 DEF Word
<1>7. \A d \in Docs : Says(digest, d) = Word(View(u)', f, d) \/ Excused(u, {d} \cup Dirs)'
  <2> SUFFICES ASSUME NEW d \in Docs
               PROVE  Says(digest, d) = Word(View(u)', f, d) \/ Excused(u, {d} \cup Dirs)'
    OBVIOUS
  <2>1. CASE r.kind = "folder"
    BY <1>1, <2>1, ExcusedMore
  <2>2. CASE r.kind # "folder" /\ d = r.document
    BY <1>1, <2>2, ExcusedMore
  <2>3. CASE r.kind # "folder" /\ d # r.document
    BY <1>1, <1>6, <2>3 DEF Faithful
  <2> QED BY <2>1, <2>2, <2>3
<1>8. digest.folder = View(u)'.parent[f] \/ Excused(u, {f})'
  BY <1>1, <1>5 DEF Faithful
<1> QED BY <1>7, <1>8 DEF Faithful

\* The folders other requests do not affect.
LEMMA CommitKeepsCovered ==
  ASSUME DigestInv, NEW t \in DOMAIN open, Commit(t), NEW u \in DOMAIN open \ {t}, Untouched(u)
  PROVE  Covered(u)'
<1>0. PICK r, q : r = open[t].request /\ q = open[u].request
  OBVIOUS
<1> USE <1>0
<1>1. /\ At(t, "invalidate") /\ open[t].todo = {} /\ tables' = View(t) /\ <<u, t>> \in overlaps
      /\ UNCHANGED overlaps
      /\ \A f \in DOMAIN written[t].record : recordedBy'[f] = t
      /\ \A f \in Dirs \ DOMAIN written[t].record : recordedBy'[f] = recordedBy[f]
      /\ \A w, X : Excused(w, X) => Excused(w, X)'
      /\ \A w : <<t, w>> \in overlaps =>
           /\ r.kind = "folder" => Excused(w, {r.folder})'
           /\ r.kind # "folder" => Excused(w, {r.document})'
  BY CommitExcuses DEF DigestInv, Together
<1>2. /\ RequestOK(t) /\ RequestOK(u) /\ ~Undecided(t)
      /\ r.kind = "folder" => r.folder \in Dirs
      /\ r.kind # "folder" => r.document \in Docs
      /\ q.kind = "folder" => q.folder \in Dirs
      /\ q.kind # "folder" => q.document \in Docs
  BY <1>1, RequestIs DEF Undecided, At
<1>3. SUFFICES ASSUME NEW f \in Dirs, f \notin open[u].todo \cup DOMAIN written[u].record
      PROVE  Beside(u, f)' \/ Outside(u, f)'
  BY DEF Covered, Untouched
<1>4. CASE f \in DOMAIN written[t].record
  BY <1>1, <1>4 DEF Beside
<1>5. CASE f \notin DOMAIN written[t].record /\ Beside(u, f)
  BY <1>1, <1>5 DEF Beside, Untouched
<1>6. CASE f \notin DOMAIN written[t].record /\ ~Beside(u, f)
  <2>0. PICK w, S : w = recordedBy[f] /\ S = Subtree(tables, f)
    OBVIOUS
  <2> USE <2>0
  <2>1. Outside(u, f) /\ (Beside(t, f) \/ Outside(t, f)) /\ recordedBy'[f] = w
    BY <1>1, <1>2, <1>3, <1>6 DEF RequestOK, Covered
  <2>2. CASE r.kind = "folder" /\ Beside(t, f)
    <3>1. Excused(w, Dirs)' \/ Excused(w, {r.folder})'
      BY <1>1, <2>2 DEF Beside
    <3>2. Excused(w, Dirs)'
      BY <1>2, <2>2, <3>1, ExcusedMore
    <3> QED BY <2>1, <3>2 DEF Beside
  <2>3. CASE r.kind # "folder" /\ q.kind # "folder" /\ q.document = r.document /\ Beside(t, f)
    <3>1. Excused(w, Dirs)' \/ Excused(w, {q.document})'
      BY <1>1, <2>3 DEF Beside
    <3> QED BY <2>1, <2>3, <3>1 DEF Beside, Untouched
  <2>4. CASE \/ Outside(t, f)
             \/ r.kind # "folder" /\ (q.kind = "folder" \/ q.document # r.document)
    <3>1. Subtree(tables', f) = S
      BY <1>1, <1>6, <2>4, CommitLeavesSubtree
    <3>2. CASE q.kind # "folder"
      <4>1. tables.member[q.document] \cap S = {} => tables'.member[q.document] \cap S = {}
        <5>1. CASE r.kind = "folder" \/ q.document # r.document
          BY <1>1, <1>2, <3>2, <5>1, CommitIs
        <5>2. CASE r.kind # "folder" /\ q.document = r.document
          <6>1. /\ tables.member[r.document] \cap S = {}
                /\ r.document \in DOMAIN written[t].member =>
                     written[t].member[r.document] \cap S = {}
            BY <1>2, <2>4, <3>2, <5>2 DEF Outside
          <6>2. tables'.member = Over(written[t].member, tables.member)
            BY <1>1, ViewIs
          <6> QED BY <1>2, <5>2, <6>1, <6>2 DEF Over, DigestInv, Filled
        <5> QED BY <5>1, <5>2
      <4> QED BY <2>1, <3>1, <3>2, <4>1 DEF Outside, Undecided, At, Is, Untouched
    <3>3. CASE q.kind = "folder"
      <4>1. \/ At(u, "look") \/ tables.parent[q.folder] = Aim(u)
            \/ q.folder \notin S /\ Aim(u) \notin S
        BY <2>1, <3>3 DEF Outside
      <4>2. \/ tables'.parent[q.folder] = tables.parent[q.folder]
            \/ q.folder \notin S
        <5>1. CASE r.kind = "folder" /\ q.folder = r.folder
          <6>1. \/ tables.parent[r.folder] = r.parent
                \/ r.folder \notin S
            BY <1>1, <2>4, <5>1 DEF Outside, Aim, At
          <6>2. tables'.parent[r.folder] = r.parent
            BY <1>1, <5>1, CommitIs
          <6> QED BY <5>1, <6>1, <6>2
        <5>2. CASE r.kind # "folder" \/ q.folder # r.folder
          BY <1>1, <1>2, <3>3, <5>2, CommitIs DEF SameTree
        <5> QED BY <5>1, <5>2
      <4>3. tables.parent[q.folder] \in S => q.folder \in S
        BY <1>2, <3>3, SubtreeClosed
      <4>4. \/ At(u, "look") \/ tables'.parent[q.folder] = Aim(u)
            \/ q.folder \notin S /\ Aim(u) \notin S
        BY <4>1, <4>2, <4>3
      <4> QED BY <3>1, <3>3, <4>4 DEF Outside, Aim, At, Untouched
    <3> QED BY <3>2, <3>3
  <2> QED BY <2>1, <2>2, <2>3, <2>4
<1> QED BY <1>4, <1>5, <1>6

LEMMA CommitKeepsDigests ==
  ASSUME DigestInv, NEW t \in DOMAIN open, Commit(t)
  PROVE  DigestInv'
<1>1. /\ At(t, "invalidate") /\ Ends(t) /\ tables' = View(t) /\ UNCHANGED <<begun, overlaps>>
  BY CommitExcuses
<1>2. /\ DOMAIN open' = DOMAIN open \ {t}
      /\ DOMAIN written' = DOMAIN open' /\ DOMAIN seen' = DOMAIN open'
      /\ \A u \in DOMAIN open' : Untouched(u)
  BY <1>1, OthersAreLeft
<1>3. Filled' /\ Mended'
  BY <1>1, CommitIs, CommitMends
<1>4. Together'
  BY <1>1, <1>2 DEF DigestInv, Together
<1>5. ASSUME NEW u \in DOMAIN open' PROVE RequestOK(u)'
  <2>1. u \in DOMAIN open \ {t} /\ Untouched(u) /\ RequestOK(u)
    BY <1>2 DEF DigestInv, RequestOK
  <2>2. Shape(u)'
    BY <2>1 DEF RequestOK, Untouched, Shape, DocumentShape, FolderShape, Undecided, At, Is
  <2>3. Covered(u)'
    BY <2>1, CommitKeepsCovered
  <2>4. \A digest : \A f \in Dirs : Faithful(u, digest, View(u), f) => Faithful(u, digest, View(u), f)'
    BY <2>1, CommitKeepsFaithful
  <2>5. /\ DOMAIN written[u].record \subseteq Dirs
        /\ At(u, "record") => NextFolder(u) \in Dirs
        /\ At(u, "own record") => open[u].request.folder \in Dirs
    <3>1. /\ open[u].todo \subseteq Dirs /\ (At(u, "record") => open[u].todo # {})
          /\ DOMAIN written[u].record \subseteq Dirs
      BY <2>1 DEF RequestOK, Shape
    <3>2. At(u, "own record") => open[u].request.kind = "folder"
      BY <2>1, RequestIs, KindsAre DEF At, Kinds
    <3> QED BY <2>1, <3>1, <3>2, NextIs, RequestIs
  <2>6. DigestsFaithful(u)'
    <3>1. ASSUME NEW f \in DOMAIN written[u].record
          PROVE  Faithful(u, written[u].record[f], View(u), f)'
      <4>1. PICK digest : digest = written[u].record[f]
        OBVIOUS
      <4>2. Faithful(u, digest, View(u), f)'
        BY <2>1, <2>4, <2>5, <4>1 DEF RequestOK, DigestsFaithful
      <4> QED BY <2>1, <4>1, <4>2 DEF Untouched, Faithful
    <3>2. ASSUME At(u, "own record") PROVE Faithful(u, seen[u], View(u), open[u].request.folder)'
      <4>1. PICK digest, f : digest = seen[u] /\ f = open[u].request.folder
        OBVIOUS
      <4>2. Faithful(u, digest, View(u), f)'
        BY <2>1, <2>4, <2>5, <3>2, <4>1 DEF RequestOK, DigestsFaithful
      <4> QED BY <2>1, <4>1, <4>2 DEF Untouched, Faithful
    <3>3. ASSUME At(u, "record") PROVE Faithful(u, seen[u], View(u), NextFolder(u))'
      <4>1. PICK digest, f : digest = seen[u] /\ f = NextFolder(u)
        OBVIOUS
      <4>2. Faithful(u, digest, View(u), f)'
        BY <2>1, <2>4, <2>5, <3>3, <4>1 DEF RequestOK, DigestsFaithful
      <4> QED BY <2>1, <4>1, <4>2 DEF Untouched, Faithful, NextFolder
    <3>4. /\ DOMAIN written'[u].record = DOMAIN written[u].record
          /\ At(u, "own record")' = At(u, "own record") /\ At(u, "record")' = At(u, "record")
      BY <2>1 DEF Untouched, At
    <3> QED BY <3>1, <3>2, <3>3, <3>4 DEF DigestsFaithful
  <2> QED BY <2>2, <2>3, <2>6 DEF RequestOK
<1> QED BY <1>3, <1>4, <1>5 DEF DigestInv, RequestOK

-----------------------------------------------------------------------------
LEMMA DigestInvKept == DigestInv /\ [TransactionNext]_transactionVars => DigestInv'
<1> SUFFICES ASSUME DigestInv, [TransactionNext]_transactionVars PROVE DigestInv'
  OBVIOUS
<1>1. ASSUME NEW r \in Requests, Begin(r) PROVE DigestInv'
  BY <1>1, BeginKeepsDigests
<1>2. ASSUME NEW t \in DOMAIN open, Statement(t) PROVE DigestInv'
  <2>1. CASE UpsertDocumentSource(t) \/ UpsertDocumentIndexRecord(t)
    BY <2>1, SourceKeepsDigests
  <2>2. CASE ReplaceFolderRelations(t)
    BY <2>2, ReplaceKeepsDigests
  <2>3. CASE LookAtDocument(t)
    BY <2>3, LookKeepsDigests
  <2>4. CASE MarkDocumentProjectionDeleted(t) \/ MarkDocumentSourceDeleted(t)
    BY <2>4, MarkKeepsDigests
  <2>5. CASE LookAtFolder(t)
    BY <2>5, LookAtFolderKeepsDigests
  <2>6. CASE UpsertFolderSource(t)
    BY <2>6, FolderSourceKeepsDigests
  <2>7. CASE ReadDigest(t) \/ UpsertFolderIndexRecord(t) \/ MarkFolderSignalsPending(t)
    BY <2>7, DigestStatementsKeep
  <2>8. CASE Leave(t)
    BY <2>8, EndKeepsDigests DEF Leave
  <2>9. CASE Commit(t)
    BY <2>9, CommitKeepsDigests
  <2> QED BY <1>2, <2>1, <2>2, <2>3, <2>4, <2>5, <2>6, <2>7, <2>8, <2>9 DEF Statement
<1>3. ASSUME NEW t \in DOMAIN open, RollBack(t) PROVE DigestInv'
  BY <1>3, EndKeepsDigests DEF RollBack
<1>4. CASE UNCHANGED transactionVars
  <2>1. Grows /\ \A t \in DOMAIN open : Untouched(t)
    BY <1>4 DEF Grows, Untouched, transactionVars, shared
  <2>2. Filled' /\ Mended'
    BY <2>1, TablesStay DEF DigestInv
  <2>3. Together'
    BY <1>4 DEF DigestInv, Together, transactionVars, shared
  <2>4. ASSUME NEW t \in DOMAIN open PROVE RequestOK(t)'
    BY <2>1, UntouchedStays DEF DigestInv, RequestOK
  <2> QED BY <1>4, <2>2, <2>3, <2>4 DEF DigestInv, RequestOK, transactionVars
<1> QED BY <1>1, <1>2, <1>3, <1>4 DEF TransactionNext

LEMMA InitDigests == TransactionInit => DigestInv
<1> SUFFICES ASSUME TransactionInit PROVE DigestInv
  OBVIOUS
<1>1. PICK start : /\ start = [source |-> [d \in DOMAIN Memberships |-> [version |-> 1, live |-> TRUE]],
                               index |-> [d \in DOMAIN Memberships |-> 1],
                               member |-> Memberships, parent |-> Parents, record |-> <<>>]
                   /\ tables = [start EXCEPT !.record = [f \in DOMAIN Parents |-> InputDigest(start, f)]]
  BY DEF TransactionInit
<1>2. Filled
  BY <1>1 DEF Filled, Tables, Docs, Dirs
<1>3. Together /\ DOMAIN open = {}
  BY DEF TransactionInit, Together
<1>4. ASSUME NEW f \in Dirs PROVE Faithful(recordedBy[f], tables.record[f], tables, f)
  <2>1. tables.record[f] = InputDigest(start, f)
    BY <1>1 DEF Dirs
  <2>2. /\ SameTree(tables, start) /\ tables.parent = start.parent
        /\ tables.source = start.source /\ tables.index = start.index /\ tables.member = start.member
    BY <1>1 DEF SameTree
  <2>3. Subtree(tables, f) = Subtree(start, f)
    BY <2>2, SameTreeSameSubtree
  <2>4. \A d \in Docs : Word(tables, f, d) = Word(start, f, d)
    BY <2>2, <2>3 DEF Word
  <2>5. \A d \in Docs : Says(InputDigest(start, f), d) = Word(start, f, d)
    BY SaysIs
  <2> QED BY <2>1, <2>2, <2>4, <2>5 DEF Faithful, InputDigest
<1>5. DOMAIN recordedBy = Dirs
  BY DEF TransactionInit, Dirs
<1> QED BY <1>2, <1>3, <1>4, <1>5 DEF DigestInv, Mended

LEMMA DigestsMended == DigestInv => StaleOnlyIfOverlapped
<1> SUFFICES ASSUME DigestInv, NEW f \in DOMAIN Parents
             PROVE  /\ \A d \in DOMAIN Memberships :
                         Says(tables.record[f], d) # Says(InputDigest(tables, f), d)
                           => Excused(recordedBy[f], {d} \cup DOMAIN Parents)
                    /\ tables.record[f].folder # InputDigest(tables, f).folder
                         => Excused(recordedBy[f], {f})
  BY DEF StaleOnlyIfOverlapped, Excused
<1>1. Faithful(recordedBy[f], tables.record[f], tables, f)
  BY DEF DigestInv, Mended, Dirs
<1>2. \A d \in Docs : Says(InputDigest(tables, f), d) = Word(tables, f, d)
  BY SaysIs DEF Dirs
<1> QED BY <1>1, <1>2 DEF Faithful, InputDigest, Docs, Dirs

(***************************************************************************)
(* However many requests are open at once and however their statements     *)
(* interleave, a folder's digest disagrees with the tables only on what a  *)
(* request changed that was open together with the one that recorded it.   *)
(***************************************************************************)
THEOREM StaleDigestsOverlapped == TransactionSpec => []StaleOnlyIfOverlapped
<1>1. TransactionInit => DigestInv
  BY InitDigests
<1>2. DigestInv /\ [TransactionNext]_transactionVars => DigestInv'
  BY DigestInvKept
<1>3. DigestInv => StaleOnlyIfOverlapped
  BY DigestsMended
<1> QED BY <1>1, <1>2, <1>3, PTL DEF TransactionSpec
=============================================================================
