------------------------------ MODULE Retrieval ------------------------------
(***************************************************************************)
(* What the search services answer from a state s of the stores: PostgreSQL*)
(* (current documents and folders, keyword scores), Qdrant (similarity     *)
(* scores) and Neo4j (relations, graph scores).  Pure: no variables.       *)
(*                                                                         *)
(* Sources are numbers; chunk i of document d is the number 10 * d + i.    *)
(* Scores are hundredths and are given with the store: every text asked    *)
(* for has the same.  The limits of 20 and 100 candidates are not reached; *)
(* document types, metadata filters and reasons are left out.              *)
(***************************************************************************)
EXTENDS Integers, Sequences, FiniteSets, FiniteSetsExt, SequencePlaces

CONSTANTS
  None,
  TopK      \* how many chunks, or folders, a search returns

ASSUME TopKAssumption == TopK \in Nat \ {0}
ASSUME NoneAssumption == None \notin {"asc", "desc"}

Document(chunk) == chunk \div 10
Index(chunk) == chunk % 10

\* A scope is [documents, folders, at, sort]; at is a created_at or updated_at.
Everything == [documents |-> {}, folders |-> {}, at |-> None, sort |-> None]

\* The stores hold finitely many sources and chunks, with a score for each text asked for,
\* the time of each source that can be found, and signals, each once.  None is no source.
Scores(f) == DOMAIN f \in SUBSET Nat /\ IsFiniteSet(DOMAIN f) /\ f \in [DOMAIN f -> Int]
Timed(s) ==
  {Document(c) : c \in DOMAIN s.chunkNear \cup DOMAIN s.worded}
  \cup DOMAIN s.folderNear \cup DOMAIN s.folderNamed \cup s.known
IsStore(s) ==
  /\ \A f \in {s.near, s.linked, s.chunkNear, s.worded, s.titled, s.folderNear, s.folderNamed} : Scores(f)
  /\ s.known \in SUBSET Nat /\ IsFiniteSet(s.known)
  /\ None \notin Timed(s) /\ \A p \in s.inFolder : p[1] # None
  /\ \A x \in Timed(s) : s.time[x] \in Int
  /\ IsFiniteSet(s.signals)
  /\ \A g \in s.signals : g.score \in Int /\ g.id[2] \in Int /\ g.evidence \in Seq(Nat)
  /\ \A g, h \in s.signals : g.id[2] = h.id[2] => g = h

-----------------------------------------------------------------------------
Descending(items) == Sorted(items, [n \in DOMAIN items |-> -items[n].score])
Take(items, n) == SubSeq(items, 1, Min({n, Len(items)}))
FirstOf(items, keys) == Only(items, {i \in DOMAIN items : \A j \in 1 .. i - 1 : keys[j] # keys[i]})

Total(f, S) == MapThenSumSet(LAMBDA x : f[x], S)
Score(f, x) == IF x \in DOMAIN f THEN f[x] ELSE 0
Best(f, S) ==
  Descending([n \in 1 .. Cardinality(S) |-> [of |-> Place(S, n), score |-> f[Place(S, n)]]])

Chunked(r) == Document(r.of)

\* sort_by_timestamp_scope
ByTime(items, times, scope) ==
  CASE scope.sort = None -> items
    [] scope.sort = "asc" -> Sorted(items, times)
    [] scope.sort = "desc" -> Sorted(items, [n \in DOMAIN items |-> -times[n]])
ChunksByTime(s, items, scope) ==
  ByTime(items, [n \in DOMAIN items |-> s.time[Chunked(items[n])]], scope)
FoldersByTime(s, items, scope) == ByTime(items, [n \in DOMAIN items |-> s.time[items[n].of]], scope)

-----------------------------------------------------------------------------
(* Filters.  A timestamp must be equal.                                    *)

Dated(s, x, scope) == scope.at \in {None, s.time[x]}
DocumentInScope(s, d, scope) == d \in scope.documents \/ scope.documents = {}
FolderInScope(s, f, scope) == (f \in scope.folders \/ scope.folders = {}) /\ Dated(s, f, scope)
Within(s, d, scope) == DocumentInScope(s, d, scope) /\ Dated(s, d, scope)

\* IN_FOLDER; a folder that is only referred to has no version and is not read back.
Members(s, folders) == {d \in s.nodes : \E f \in folders \ s.deleted : <<d, f>> \in s.inFolder}
FoldersOf(s, d) == {f \in s.known \ s.deleted : <<d, f>> \in s.inFolder}

Unrestricted(scope) == scope.documents = {} /\ scope.folders = {} /\ scope.at = None

\* _scoped_document_ids: the empty set also stands for no restriction.
ScopedDocuments(s, scope) ==
  IF Unrestricted(scope) THEN {}
  ELSE {d \in s.nodes \cup scope.documents :
          /\ DocumentInScope(s, d, scope)
          /\ scope.folders # {} => d \in Members(s, scope.folders)
          /\ scope.at # None => d \in s.nodes /\ s.time[d] = scope.at}

\* Mutant: a folder without documents does not restrict a search.
AnyIfEmpty(s, scope) ==
  IF scope.folders = {} THEN scope
  ELSE [scope EXCEPT !.documents = ScopedDocuments(s, scope), !.folders = {}]

\* RelationshipScopeResolver.document_search_scope, None when nothing can match.
DocumentSearchScope(s, scope) ==
  LET ids == ScopedDocuments(s, scope)
  IN  CASE scope.folders = {} -> scope
        [] scope.folders # {} /\ ids = {} -> None
        [] OTHER -> [scope EXCEPT !.documents = ids, !.folders = {}]

-----------------------------------------------------------------------------
(* Documents: candidates from vectors and graph, then their chunks from    *)
(* vectors and keywords.                                                   *)

VectorDocuments(s, scope) == {d \in DOMAIN s.near : Within(s, d, scope)}

GraphDocuments(s, scope) ==
  LET ids == ScopedDocuments(s, scope)
  IN  IF scope.folders # {} /\ ids = {} THEN {}
      ELSE {d \in DOMAIN s.linked : Within(s, d, scope) /\ (ids = {} \/ d \in ids)}

Bonus == 15

\* rank_document_candidates: the score of each candidate.
Candidates(s, scope) ==
  LET near == VectorDocuments(s, scope)
      linked == GraphDocuments(s, scope)
  IN  [d \in near \cup linked |->
         CASE d \notin linked -> s.near[d]
           [] d \notin near -> s.linked[d]
           [] OTHER -> Max({s.near[d], s.linked[d]}) + Bonus]

CandidateScope(scope, candidates) ==
  IF DOMAIN candidates = {} \/ scope.documents # {} THEN scope
  ELSE [scope EXCEPT !.documents = DOMAIN candidates]

NearChunks(s, scope) == {c \in DOMAIN s.chunkNear : Within(s, Document(c), scope)}
DenseChunks(s, scope, limit) ==
  ChunksByTime(s, Take(Best(s.chunkNear, NearChunks(s, scope)), limit), scope)

CurrentDocuments(s, scope) == {d \in s.current : Within(s, d, scope)}
TitledDocuments(s, scope) == CurrentDocuments(s, scope) \cap DOMAIN s.titled
\* The words of a deleted document's chunks are not in the table.
WordedChunks(s, scope) ==
  {c \in DOMAIN s.worded :
     s.worded[c] > 0 /\ (Unrestricted(scope) \/ Document(c) \in CurrentDocuments(s, scope))}
ChunksOf(s, documents) == {c \in DOMAIN s.worded : Document(c) \in documents}

\* Of a chunk's words and of its document's title.
KeywordScores(s, found, titled) ==
  [c \in found \cup ChunksOf(s, titled) |->
     (IF c \in found THEN s.worded[c] ELSE 0)
     + (IF Document(c) \in titled THEN s.titled[Document(c)] ELSE 0)]

\* The best first; of these the latest; of these by place.
KeywordRanking(s, score) ==
  LET updated(c) == s.time[Document(c)]
      Ahead(c, b) == \/ score[c] > score[b]
                     \/ score[c] = score[b] /\ updated(c) > updated(b)
                     \/ score[c] = score[b] /\ updated(c) = updated(b) /\ Index(c) < Index(b)
                     \/ score[c] = score[b] /\ updated(c) = updated(b) /\ Index(c) = Index(b) /\ c < b
      order == Arranged(DOMAIN score, {p \in (DOMAIN score) \X (DOMAIN score) : Ahead(p[1], p[2])})
  IN  [n \in DOMAIN order |-> [of |-> order[n], score |-> score[order[n]]]]

\* _keyword_results_from_matches
KeywordChunks(s, scope) ==
  KeywordRanking(s, KeywordScores(s, WordedChunks(s, scope), TitledDocuments(s, scope)))

\* Mutant: a chunk of the second list only counts if it is not in the first.
FirstListOnly(first, second, x) ==
  LET Reciprocal(items, y) == {1000000 \div (60 + n) : n \in {k \in DOMAIN items : items[k].of = y}}
      mine == Reciprocal(first, x)
  IN  SumSet(IF mine = {} THEN Reciprocal(second, x) ELSE mine)

\* Reciprocal ranks, in millionths.
RankScore(first, second, x) ==
  LET Reciprocal(items) == SumSet({1000000 \div (60 + n) : n \in {k \in DOMAIN items : items[k].of = x}})
  IN  Reciprocal(first) + Reciprocal(second)

Hybrid(dense, keyword) ==
  LET both == dense \o keyword
      all == FirstOf(both, [n \in DOMAIN both |-> both[n].of])
      InMillionths(items) == [n \in DOMAIN items |-> [items[n] EXCEPT !.score = @ * 10000]]
  IN  CASE keyword = <<>> -> InMillionths(dense)
        [] keyword # <<>> /\ dense = <<>> -> InMillionths(keyword)
        [] OTHER -> Descending([n \in DOMAIN all |->
                      [all[n] EXCEPT !.score = RankScore(dense, keyword, all[n].of)]])

\* One hundredth of the document's score.
Boosted(items, candidates) ==
  IF DOMAIN candidates = {} THEN items
  ELSE Descending([n \in DOMAIN items |->
         [items[n] EXCEPT !.score = @ + 100 * Score(candidates, Document(items[n].of))]])

ChunkLists(s, inside, comprehensive) ==
  [dense |-> DenseChunks(s, inside, IF comprehensive THEN 100 ELSE TopK),
   keyword |-> KeywordChunks(s, inside)]

\* What is left of all that was found.
Answered(results, comprehensive) ==
  IF comprehensive THEN FirstOf(results, [n \in DOMAIN results |-> Chunked(results[n])]) ELSE Take(results, TopK)

\* DocumentRetrievalService.search
SearchChunks(s, scope, candidates, comprehensive) ==
  LET lists == ChunkLists(s, CandidateScope(scope, candidates), comprehensive)
  IN  Answered(ChunksByTime(s, Boosted(Hybrid(lists.dense, lists.keyword), candidates), scope),
               comprehensive)

\* DocumentSearchService.search
SearchIn(s, scope, comprehensive) ==
  IF scope = None THEN <<>> ELSE SearchChunks(s, scope, Candidates(s, scope), comprehensive)
DocumentSearch(s, scope, comprehensive) == SearchIn(s, DocumentSearchScope(s, scope), comprehensive)

-----------------------------------------------------------------------------
(* Folders: those of the documents found, and those whose own text matches.*)

NearFolders(s, scope) ==
  {f \in DOMAIN s.folderNear : FolderInScope(s, f, scope) /\ scope.documents = {}}
NamedFolders(s, scope) ==
  {f \in DOMAIN s.folderNamed : FolderInScope(s, f, scope) /\ scope.documents = {}}

\* The best score of each document found; inside is None if there can be none.
DocumentSignals(s, scope, inside) ==
  LET near == IF inside = None THEN {} ELSE VectorDocuments(s, inside)
      chunks == IF inside = None THEN {} ELSE NearChunks(s, inside)
      linked == IF inside = None THEN {} ELSE GraphDocuments(s, scope)
  IN  [d \in near \cup {Document(c) : c \in chunks} \cup linked |->
         Max({s.near[x] : x \in {d} \cap near} \cup {s.linked[x] : x \in {d} \cap linked}
             \cup {s.chunkNear[c] : c \in {b \in chunks : Document(b) = d}})]

FolderScores(s, scope, signals) ==
  LET near == NearFolders(s, scope)
      named == NamedFolders(s, scope)
      ofDocuments == UNION {FoldersOf(s, d) : d \in DOMAIN signals}
  IN  [f \in near \cup named \cup ofDocuments |->
         Total(signals, {d \in DOMAIN signals : f \in FoldersOf(s, d)})
         + (IF f \in near THEN s.folderNear[f] ELSE 0)
         + (IF f \in named THEN s.folderNamed[f] ELSE 0)]

RankedFolders(s, scope, score, excluded) ==
  FoldersByTime(s, Take(Best(score, DOMAIN score \ excluded), TopK), scope)

\* FolderSearchService.search, FolderRetrievalService.search
FoldersIn(s, scope, inside, excluded) ==
  IF inside = None /\ scope.documents # {} THEN <<>>
  ELSE RankedFolders(s, scope, FolderScores(s, scope, DocumentSignals(s, scope, inside)), excluded)
FolderSearch(s, scope, excluded) == FoldersIn(s, scope, DocumentSearchScope(s, scope), excluded)

-----------------------------------------------------------------------------
(* Signals.  A timestamp is refused, not ignored.                          *)

SignalSearchRefused(scope) == scope.at # None \/ (scope.documents # {} /\ scope.folders # {})

SignalInScope(g, scope) ==
  /\ scope.documents # {} => g.owner = "document" /\ g.source \in scope.documents
  /\ scope.documents = {} /\ scope.folders # {} => g.owner = "folder" /\ g.source \in scope.folders

SignalSearch(s, scope, type) ==
  LET found == {g \in s.signals : type \in {None, g.type} /\ SignalInScope(g, scope)}
      Ahead(a, b) == a.score > b.score \/ (a.score = b.score /\ a.id[2] < b.id[2])
      order == Arranged(found, {p \in found \X found : Ahead(p[1], p[2])})
  IN  [n \in DOMAIN order |-> [signal |-> order[n], score |-> order[n].score]]
=============================================================================
