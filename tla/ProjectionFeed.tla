--------------------------- MODULE ProjectionFeed ---------------------------
(***************************************************************************)
(* The outbox as one projection target consumes it.  A worker process has  *)
(* one target (scenario.target) and a consumer group of its own; the events*)
(* of a source share a partition key, so they are handled one after the    *)
(* other, while the sources go on independently.  The worker's retries and *)
(* offsets are OutboxDelivery's: here an event may fail at any point and be*)
(* handled again, be dead-lettered, be handled beside the new owner of its *)
(* partition, or be replayed from the dead-letter topic later.             *)
(*                                                                         *)
(* The manifest's own actions produce the events.  The host waits for the  *)
(* answer to a request before it sends the next one of any source: what a  *)
(* projection makes of late requests is shown by IndexingManifest.         *)
(***************************************************************************)
EXTENDS IndexingManifest, FiniteSets

CONSTANT Scenarios      \* what the host does, and for which target

VARIABLES
  scenario,             \* one of Scenarios, for the whole behaviour
  cursor,               \* how many events of a source's log are behind its offset
  work,                 \* per source: what the owner of its partition, and a worker
                        \* that has lost the partition, are handling
  disturbed,            \* sources written to out of order since their last rewrite
  untold,               \* folders that had a signal input no event told of
  faults

feedVars == <<scenario, cursor, work, disturbed, untold, faults>>
Sources == Documents \cup Folders
Slots == {"owner", "late"}

Scenario == [target : {"chunks", "documents", "signals", "folders", "graph"},
             contents : SUBSET Contents, snapshots : SUBSET SUBSET Folders, omits : BOOLEAN,
             docEdits : Nat, docDeletions : Nat,
             folders : SUBSET Folders, parents : SUBSET (Folders \cup {NoFolder}),
             labels : SUBSET Labels, folderEdits : Nat, folderDeletions : Nat, builds : BOOLEAN,
             watched : SUBSET Sources, faults : Nat]

ASSUME FeedAssumption ==
  /\ Scenarios \subseteq Scenario
  /\ Documents \cap Folders = {}
  /\ ~LateRequests /\ ~ReuseDeletedVersions /\ ~ClockTies

Log(s) == IF s \in Documents THEN docEvents[s] ELSE folderEvents[s]

(***************************************************************************)
(* Which events a target's dispatcher has a consumer for; the others are   *)
(* only acknowledged.                                                      *)
(***************************************************************************)
ChunkEvents == {"DOCUMENT_INDEXED", "DOCUMENT_DELETED"}
DocumentVectorEvents == {"DOCUMENT_INDEXED", "DOCUMENT_DELETED"}
SignalEvents == {"DOCUMENT_INDEXED", "DOCUMENT_DELETED", "FOLDER_SIGNALS_INDEXED",
                 "FOLDER_SIGNALS_INVALIDATED", "FOLDER_DELETED"}
FolderVectorEvents == {"FOLDER_INDEXED", "FOLDER_DELETED"}
GraphEvents == SignalEvents \cup {"DOCUMENT_FOLDER_RELATIONS_INDEXED", "FOLDER_INDEXED"}

Consumed ==
  CASE scenario.target = "chunks" -> ChunkEvents
    [] scenario.target = "documents" -> DocumentVectorEvents
    [] scenario.target = "signals" -> SignalEvents
    [] scenario.target = "folders" -> FolderVectorEvents
    [] scenario.target = "graph" -> GraphEvents

\* Sources that are not watched are never handled: in the vector targets a handler
\* touches only what belongs to its own source.
ConsumedAt(s) == IF s \notin scenario.watched THEN {} ELSE
                 {i \in DOMAIN Log(s) : Log(s)[i].type \in Consumed}
Waiting(s) == {i \in ConsumedAt(s) : i > cursor[s]}
First(S) == CHOOSE i \in S : \A j \in S : i <= j

(***************************************************************************)
(* PostgresSourceFreshnessChecker and freshness.py: an event is projected  *)
(* only while the manifest still holds what it says.  Deletions are not    *)
(* checked.                                                                *)
(***************************************************************************)
CurrentDocument(d, e) == docSource[d].live /\ docIndex[d].live /\ docIndex[d].input = e.content
CurrentRelations(d, e) == docSource[d].live /\ docSource[d].version = e.version
CurrentFolder(f, e) ==
  Live(f) /\ folderIndex[f].indexInput = [parent |-> e.parent, label |-> e.label]
CurrentFolderSignals(f, e) == Live(f) /\ folderIndex[f].signalInput = e.input

Deletions == {"DOCUMENT_DELETED", "FOLDER_DELETED"}

Current(s, e) ==
  CASE e.type = "DOCUMENT_INDEXED" -> CurrentDocument(s, e)
    [] e.type = "DOCUMENT_FOLDER_RELATIONS_INDEXED" -> CurrentRelations(s, e)
    [] e.type = "FOLDER_INDEXED" -> CurrentFolder(s, e)
    [] e.type \in {"FOLDER_SIGNALS_INDEXED", "FOLDER_SIGNALS_INVALIDATED"}
         -> CurrentFolderSignals(s, e)
    [] OTHER -> TRUE

\* Mutant: whatever was current once is projected.
AlwaysFresh(s, e) == TRUE
Fresh(s, e) == Current(s, e)

(***************************************************************************)
(* What a worker is handling: the event's place in the log, whether it came*)
(* from the dead-letter topic, the steps of its handler that are left, and *)
(* (for the properties) whether the event was current when it was checked. *)
(* Every step is one call of a provider or one transaction.                *)
(***************************************************************************)
Idle == [at |-> 0, replay |-> FALSE, todo |-> << >>, current |-> FALSE]
Task(at, replay, steps) ==
  [at |-> at, replay |-> replay, todo |-> steps, current |-> FALSE]

EventOf(s, slot) == Log(s)[work[s][slot].at]
Step(s, slot) == Head(work[s][slot].todo)

\* No later event of the source has been handled, so this one may be written.
InOrder(s, slot) ==
  ~\E i \in ConsumedAt(s) : work[s][slot].at < i /\ i <= cursor[s]

\* A worker without the partition writes behind the owner's back once the owner has
\* begun to write the same event, or is past it.  writes are the event's steps.
OwnerHasWritten(s, writes) ==
  LET own == work[s].owner
      at == work[s].late.at
  IN  IF own.at = at THEN Len(own.todo) < Len(writes) ELSE at <= cursor[s]

-----------------------------------------------------------------------------
(***************************************************************************)
(* The host and the write side.                                            *)
(***************************************************************************)
NewestCommitted(d) ==
  LET host == hostDocs[d]
  IN  IF host.deleted THEN ~docSource[d].live
      ELSE docSource[d].version = Len(host.edits)

NewestFolderCommitted(f) ==
  LET host == hostFolders[f]
  IN  IF host.deleted THEN ~Live(f)
      ELSE folderSource[f].version = Len(host.edits) /\ (host.edits # << >> => Live(f))

\* The event the signal builder appends for the signals it has stored.  Nothing under
\* src/ appends it; the consumers for it are in place.
FolderSignalsIndexed(signals) ==
  [type |-> "FOLDER_SIGNALS_INDEXED", input |-> signals.input, related |-> signals.related]

SignalsUnannounced(f) ==
  /\ folderSignals[f] # None
  /\ FolderSignalsIndexed(folderSignals[f]) \notin {folderEvents[f][i] : i \in DOMAIN folderEvents[f]}

Answered ==
  /\ \A d \in Documents : NewestCommitted(d)
  /\ \A f \in Folders : NewestFolderCommitted(f) /\ ~SignalsUnannounced(f)

\* The folder_ids of a request, given or left out.
Snapshots ==
  [given : {TRUE}, folders : scenario.snapshots]
  \cup IF scenario.omits THEN [given : {FALSE}, folders : {{}}] ELSE {}

Publish ==
  \/ \E d \in Documents, c \in scenario.contents :
       /\ Len(hostDocs[d].edits) < scenario.docEdits
       /\ \E snapshot \in Snapshots :
            PublishDocument(d, [content |-> c, snapshot |-> snapshot.given,
                                folders |-> snapshot.folders,
                                updatedAt |-> Len(hostDocs[d].edits) + 1])
  \/ \E f \in scenario.folders, p \in scenario.parents, l \in scenario.labels :
       /\ Len(hostFolders[f].edits) < scenario.folderEdits
       /\ PublishFolder(f, [parent |-> p, label |-> l,
                            updatedAt |-> Len(hostFolders[f].edits) + 1])
  \/ /\ HostDeletes
     /\ \A d \in Documents : hostDocs'[d].deletions <= scenario.docDeletions
     /\ \A f \in Folders : hostFolders'[f].deletions <= scenario.folderDeletions

AnnounceFolderSignals(f) ==
  /\ SignalsUnannounced(f)
  /\ folderEvents' = [folderEvents EXCEPT ![f] =
       Append(@, FolderSignalsIndexed(folderSignals[f]))]
  /\ UNCHANGED <<hostVars, docVars, folderVars, signalBuild, docEvents>>

CommitRequest ==
  \/ \E d \in Documents : /\ ~NewestCommitted(d)
                           /\ \/ \E v \in {Len(hostDocs[d].edits)}, x \in Extractions :
                                  v > 0 /\ (IndexDocument(d, v, x) \/ IndexBlankDocument(d, v))
                              \/ DeleteDocument(d)
  \/ \E f \in Folders : /\ ~NewestFolderCommitted(f)
                         /\ \/ \E v \in {Len(hostFolders[f].edits)} : v > 0 /\ IndexFolder(f, v)
                            \/ DeleteFolder(f)
  \/ \E f \in Folders : AnnounceFolderSignals(f)

BuildSignals ==
  /\ scenario.builds
  /\ \E f \in Folders : StartFolderSignals(f) \/ ReplaceFolderSignals(f)

FeedInit ==
  /\ Init
  /\ scenario \in Scenarios
  /\ cursor = [s \in Sources |-> 0]
  /\ work = [s \in Sources |-> [slot \in Slots |-> Idle]]
  /\ disturbed = {}
  /\ untold = {}
  /\ faults = 0

\* The outbox drops the invalidation of an input that was current before, as a duplicate;
\* workers are then not told that what they hold is stale.
InvalidationLogged(f) ==
  LastIs(folderEvents[f], {"FOLDER_SIGNALS_INVALIDATED"},
         LAMBDA e : e.input = folderIndex[f].signalInput, FALSE)

\* A published version is seen by no worker, so the request for it may as well
\* commit at once.
WriteSide ==
  /\ IF Answered THEN Publish \/ BuildSignals ELSE CommitRequest
  /\ untold' = untold \cup {f \in Folders : (Live(f) /\ ~InvalidationLogged(f))'}
  /\ UNCHANGED <<scenario, cursor, work, disturbed, faults>>
=============================================================================
