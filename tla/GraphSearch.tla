----------------------------- MODULE GraphSearch -----------------------------
(***************************************************************************)
(* What the readers of the graph (neo4j/search.py) return from a graph g,  *)
(* as GraphProjection keeps it: the documents of a scope, the folders of   *)
(* documents, and the five queries of graph_search.  Scores and the order  *)
(* of the results are left out.  A text query is the set of titles and the *)
(* set of folder labels that contain it.                                   *)
(***************************************************************************)
EXTENDS Naturals

\* A node without source_version is not returned (document_from_node,
\* _folders_from_records).
Readable(node) == node.state \in {"full", "active"}
NotDeleted(node) == node.state # "deleted"

\* _scoped_document_ids: {} stands for no restriction as well as for no document.
ScopedDocuments(g, scope) ==
  LET inFolders == {r[1] : r \in {r \in g.inFolder : /\ r[2] \in scope.folders
                                                     /\ NotDeleted(g.folders[r[2]])}}
  IN  IF scope.folders = {} THEN scope.documents
      ELSE IF scope.documents = {} THEN inFolders ELSE scope.documents \cap inFolders

TitleHits(g, query) ==
  {d \in DOMAIN g.documents : g.documents[d].state = "full" /\ g.documents[d].label \in query.titles}

SignalHits(g, query) ==
  {r[1] : r \in {r \in g.hasSignal : r[2].content \in query.titles}}

Matched(g, query) ==
  {f \in DOMAIN g.folders : g.folders[f].state = "active" /\ g.folders[f].label \in query.labels}

FolderHits(g, query) == {r[1] : r \in {r \in g.inFolder : r[2] \in Matched(g, query)}}

Parents(g, F) == {r[2] : r \in {r \in g.childOf : r[1] \in F}}

\* One or two CHILD_OF edges up from the document's folder.
DescendantHits(g, query) ==
  LET up(f) == Parents(g, {f}) \cup Parents(g, Parents(g, {f}))
  IN  {r[1] : r \in {r \in g.inFolder : /\ NotDeleted(g.folders[r[2]])
                                        /\ up(r[2]) \cap Matched(g, query) # {}}}

SiblingHits(g, query) ==
  LET siblings(f) ==
        {r[1] : r \in {r \in g.childOf : /\ r[1] # f /\ <<f, r[2]>> \in g.childOf
                                         /\ NotDeleted(g.folders[r[2]])
                                         /\ NotDeleted(g.folders[r[1]])}}
  IN  {r[1] : r \in {r \in g.inFolder : \E f \in Matched(g, query) : r[2] \in siblings(f)}}

\* graph_search.  matches_scope looks at the explicit ids alone.
Search(g, query, scope) ==
  LET scoped == ScopedDocuments(g, scope)
      hits == TitleHits(g, query) \cup SignalHits(g, query) \cup FolderHits(g, query)
              \cup DescendantHits(g, query) \cup SiblingHits(g, query)
  IN  IF scope.folders # {} /\ scoped = {} THEN {}
      ELSE {d \in hits : /\ Readable(g.documents[d])
                         /\ scope.documents # {} => d \in scope.documents
                         /\ scoped # {} => d \in scoped}

\* folders_for_documents
FoldersOf(g, d) ==
  {f \in DOMAIN g.folders : <<d, f>> \in g.inFolder /\ Readable(g.folders[f])}
=============================================================================
