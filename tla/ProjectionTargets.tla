-------------------------- MODULE ProjectionTargets --------------------------
(***************************************************************************)
(* The outbox workers composed with what they project to: the manifest,    *)
(* its outbox, one target's worker processes and that target's store.      *)
(***************************************************************************)
EXTENDS VectorProjection, GraphProjection, GraphSearch

projectionVars == <<vars, feedVars, vectorVars, graph>>
storeVars == <<vectorVars, graph>>

Steps(e) == IF scenario.target = "graph" THEN GraphSteps(e) ELSE VectorSteps(e)
\* What is left of a handler once its event was found current.
Writes(e) == IF Head(Steps(e)) = "check" THEN Tail(Steps(e)) ELSE Steps(e)
StepsAt(s, i) == Steps(Log(s)[i])

\* The first write of one of these handlers replaces whatever the store held.
Rewrites(e) == scenario.target # "graph" /\ e.type # "FOLDER_SIGNALS_INVALIDATED"

SetTask(s, slot, task) == work' = [work EXCEPT ![s][slot] = task]

-----------------------------------------------------------------------------
\* The owner of the partition takes the next event its target consumes.
Receive(s) ==
  /\ work[s].owner = Idle
  /\ Waiting(s) # {}
  /\ LET i == First(Waiting(s)) IN SetTask(s, "owner", Task(i, FALSE, StepsAt(s, i)))
  /\ UNCHANGED <<vars, scenario, cursor, disturbed, untold, faults, storeVars>>

\* The freshness check, in a session of its own.
Check(s, slot) ==
  /\ work[s][slot] # Idle /\ work[s][slot].todo # << >>
  /\ Step(s, slot) = "check"
  /\ SetTask(s, slot, [work[s][slot] EXCEPT
       !.todo = IF Fresh(s, EventOf(s, slot)) THEN Tail(@) ELSE << >>,
       !.current = Current(s, EventOf(s, slot))])
  /\ UNCHANGED <<vars, scenario, cursor, disturbed, untold, faults, storeVars>>

\* A write of the handler.  disturbed follows what can go wrong: a deletion, which is not
\* checked, or an event that was current when it was checked, is written behind a later
\* event of its source, or behind the back of the partition's new owner.  The first
\* write of a rewriting handler ends it.
Disturbs(s, slot) ==
  /\ work[s][slot].current \/ EventOf(s, slot).type \in Deletions
  /\ \/ ~InOrder(s, slot)
     \/ slot = "late" /\ OwnerHasWritten(s, Writes(EventOf(s, slot)))

Heals(s, slot) ==
  /\ slot = "owner" /\ work[s].late = Idle
  /\ Rewrites(EventOf(s, slot))
  /\ work[s][slot].todo = Writes(EventOf(s, slot))

Write(s, slot) ==
  /\ work[s][slot] # Idle /\ work[s][slot].todo # << >>
  /\ LET e == EventOf(s, slot)
     IN  \/ /\ scenario.target # "graph"
            /\ VectorWrite(s, e, Step(s, slot))
            /\ UNCHANGED graph
         \/ /\ scenario.target = "graph"
            /\ GraphWrite(s, e, Step(s, slot))
            /\ UNCHANGED vectorVars
  /\ SetTask(s, slot, [work[s][slot] EXCEPT !.todo = Tail(@)])
  /\ disturbed' = IF Disturbs(s, slot) THEN disturbed \cup {s}
                  ELSE IF Heals(s, slot) THEN disturbed \ {s} ELSE disturbed
  /\ UNCHANGED <<vars, scenario, cursor, untold, faults>>

\* Mutant: the offset is not committed.
FinishWithoutOffset(s, slot) ==
  /\ work[s][slot] # Idle /\ work[s][slot].todo = << >>
  /\ SetTask(s, slot, Idle)
  /\ UNCHANGED <<vars, scenario, cursor, disturbed, untold, faults, storeVars>>

\* The offset commit; without the partition it is refused.
Finish(s, slot) ==
  /\ work[s][slot] # Idle /\ work[s][slot].todo = << >>
  /\ SetTask(s, slot, Idle)
  /\ cursor' = IF slot = "owner" /\ ~work[s][slot].replay
               THEN [cursor EXCEPT ![s] = work[s][slot].at] ELSE cursor
  /\ UNCHANGED <<vars, scenario, disturbed, untold, faults, storeVars>>

-----------------------------------------------------------------------------
Fault ==
  /\ faults < scenario.faults
  /\ faults' = faults + 1

\* A provider fails, after its effect or before it, or the process dies: the owner
\* begins the event again.
Retry(s) ==
  /\ Fault
  /\ work[s].owner # Idle
  /\ SetTask(s, "owner", Task(work[s].owner.at, work[s].owner.replay,
                              StepsAt(s, work[s].owner.at)))
  /\ UNCHANGED <<vars, scenario, cursor, disturbed, untold, storeVars>>

\* Attempts are used up: the event goes to the dead-letter topic.
DeadLetter(s) ==
  /\ Fault
  /\ work[s].owner # Idle
  /\ SetTask(s, "owner", Idle)
  /\ cursor' = IF work[s].owner.replay THEN cursor
               ELSE [cursor EXCEPT ![s] = work[s].owner.at]
  /\ disturbed' = disturbed \cup {s}
  /\ UNCHANGED <<vars, scenario, untold, storeVars>>

\* The partition goes to another worker, which begins the event again, while this one
\* goes on.
LosePartition(s) ==
  /\ Fault
  /\ work[s].owner # Idle /\ work[s].late = Idle
  /\ work' = [work EXCEPT ![s] =
       [late |-> work[s].owner,
        owner |-> Task(work[s].owner.at, work[s].owner.replay, StepsAt(s, work[s].owner.at))]]
  /\ UNCHANGED <<vars, scenario, cursor, disturbed, untold, storeVars>>

LateDies(s) ==
  /\ Fault
  /\ work[s].late # Idle
  /\ SetTask(s, "late", Idle)
  /\ UNCHANGED <<vars, scenario, cursor, disturbed, untold, storeVars>>

\* The dead-letter topic is shared by the targets, so a letter of any of them comes
\* back to all.
Replay(s) ==
  /\ Fault
  /\ work[s].owner = Idle
  /\ \E i \in {i \in ConsumedAt(s) : i <= cursor[s]} :
       SetTask(s, "owner", Task(i, TRUE, StepsAt(s, i)))
  /\ UNCHANGED <<vars, scenario, cursor, disturbed, untold, storeVars>>

ProjectionInit == FeedInit /\ VectorInit /\ GraphInit

Handle(s) ==
  \/ Receive(s)
  \/ \E slot \in Slots : Check(s, slot) \/ Write(s, slot) \/ Finish(s, slot)

ProjectionNext ==
  \/ WriteSide /\ UNCHANGED storeVars
  \/ \E s \in Sources :
       \/ Handle(s)
       \/ Retry(s) \/ DeadLetter(s) \/ LosePartition(s) \/ LateDies(s) \/ Replay(s)

ProjectionSpec ==
  /\ ProjectionInit /\ [][ProjectionNext]_projectionVars
  /\ WF_projectionVars(\E s \in Sources : Handle(s))

-----------------------------------------------------------------------------
(***************************************************************************)
(* Properties.  A source is settled when all its events were handled and   *)
(* nothing was written out of order since the store was last rewritten.    *)
(***************************************************************************)
AllHandled(s) == Waiting(s) = {} /\ work[s] = [slot \in Slots |-> Idle]
Settled(s) == AllHandled(s) /\ s \in scenario.watched \ disturbed

\* The workers of this target were told of every input the folder's signals had.
Told(s) == scenario.target \in {"signals", "graph"} => s \notin untold

\* What a collection holds of a settled document or folder is what the manifest says,
\* whatever was retried, projected twice or checked before a newer version came.
VectorsCurrent ==
  scenario.target # "graph" =>
    \A s \in Sources : Settled(s) /\ (s \in Documents \/ scenario.target = "folders")
                         => points[s] = ManifestPoints(s)

\* Points of a folder's signals were made of the folder's current input, and a deleted
\* folder has none (replace, invalidate and delete each remove what is stale).
FolderSignalVectorsCurrent ==
  scenario.target = "signals" =>
    \A f \in Folders : Settled(f) /\ Told(f) =>
      /\ ~Live(f) => points[f] = {}
      /\ Live(f) => \A p \in points[f] : p.digest = folderIndex[f].signalInput

\* The ledger in Postgres agrees with the collection in Qdrant, though they are
\* written one after the other and a failure may come between.
LedgerAgrees ==
  scenario.target # "graph" =>
    \A s \in Sources : Settled(s) /\ Told(s) => ledger[s] = Records(points[s])

(***************************************************************************)
(* The graph.  Relations point from one source's node to another's, whose  *)
(* events are handled in any order; so the graph is looked at when all     *)
(* sources are settled.                                                    *)
(***************************************************************************)
GraphSettled == scenario.target = "graph" /\ \A s \in Sources : Settled(s)

EverDeleted(f) == "FOLDER_DELETED" \in {folderEvents[f][i].type : i \in DOMAIN folderEvents[f]}

\* The graph the tables describe.  A folder that is not there may be referred to.
ManifestGraph ==
  [documents |-> [d \in Documents |->
     IF docSource[d].live
     THEN [state |-> "full", version |-> docSource[d].version,
           content |-> docSource[d].content, label |-> docSource[d].content]
     ELSE NoNode],
   hasSignal |-> {<<d, [document |-> d, extraction |-> docIndex[d].extraction,
                        content |-> docSource[d].content]>>
                  : d \in {d \in Documents : docSource[d].live}},
   inFolder |-> {r \in Documents \X Folders : r[2] \in member[r[1]]},
   folders |-> [f \in Folders |->
     IF Live(f) THEN [state |-> "active", version |-> folderSource[f].version,
                      parent |-> folderSource[f].parent, label |-> folderSource[f].label]
     ELSE FolderReferenceNode],
   childOf |-> {r \in Folders \X Folders :
                  Live(r[1]) /\ folderSource[r[1]].parent = r[2]}]

\* Documents and their signals, and the folders, are those of the manifest; and no
\* relation is there that the manifest does not know.
GraphNodesCurrent ==
  GraphSettled =>
    /\ graph.documents = ManifestGraph.documents
    /\ graph.hasSignal = ManifestGraph.hasSignal
    /\ \A f \in Folders : IF Live(f) THEN graph.folders[f] = ManifestGraph.folders[f]
                          ELSE graph.folders[f].state # "active"
    /\ graph.childOf \subseteq ManifestGraph.childOf

\* The request for a version left folder_ids out.
SnapshotOmitted(d) ==
  docSource[d].live /\ ~hostDocs[d].edits[docSource[d].version].snapshot

\* A search of the graph finds what it would find in the manifest, and shows a document in
\* no folder but those that hold it: never more, and no
\* less as long as no folder was deleted (a folder that comes back gets its node again
\* but not its relations).
Queries == [titles : {{}} \cup {{c} : c \in Contents}, labels : {{}} \cup {{l} : l \in scenario.labels}]
Scopes == [documents : SUBSET Documents, folders : SUBSET Folders]

GraphSearchAgrees ==
  GraphSettled /\ (\A d \in Documents : ~SnapshotOmitted(d)) =>
    /\ \A d \in Documents : FoldersOf(graph, d) \subseteq FoldersOf(ManifestGraph, d)
    /\ \A query \in Queries, scope \in Scopes :
      LET found == Search(graph, query, scope)
          known == Search(ManifestGraph, query, scope)
      IN  found \subseteq known /\ (found = known \/ \E f \in Folders : EverDeleted(f))

\* FolderSignal nodes are linked to their folder, were made of its current input, and are
\* about documents it still holds.  Where the folder was deleted once, signals may be left
\* that are not linked to it: a folder that is back may have its signals before its node,
\* and the deletion, handled between the two, finds no node to delete them with.
GraphFolderSignalsCurrent ==
  GraphSettled =>
    \A f \in Folders : graph.folderSignals[f] # None /\ Told(f) =>
      /\ f \in graph.hasFolderSignal \/ EverDeleted(f)
      /\ f \in graph.hasFolderSignal =>
           /\ Live(f)
           /\ graph.folderSignals[f].input = folderIndex[f].signalInput
           /\ \A r \in graph.about : r[1] = f => r[2] \in MemberDocuments(f)

\* Every document is in the graph's folders exactly where the manifest has it.
GraphRelationsCurrent ==
  GraphSettled => graph.inFolder = ManifestGraph.inFolder

\* Eventual consistency: once the host and the faults are done, every event is handled,
\* and what a target holds agrees with the manifest for good, however the handlers of
\* the sources were interleaved.
ProjectionsConverge ==
  <>[]((\A s \in Sources : AllHandled(s)) /\ VectorsCurrent /\ GraphNodesCurrent)
=============================================================================
