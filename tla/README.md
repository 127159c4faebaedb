# FoldMind AI-Core: TLA+ specifications

FoldMind AI-Core (`src/src/foldmind_ai_core/`) is the AI backend of a document
service. The **App Server** (the *host*) owns documents and folders and calls
AI-Core over HTTP to index them and to run agent tasks. AI-Core keeps a manifest
of what is indexed in Postgres, writes an outbox event for every change in the
same transaction, and projects the events into Qdrant (vectors) and Neo4j (graph)
with workers that read them from Kafka through Debezium.

These modules model the parts where order, failure and repetition decide whether
the stores agree with each other. Paths below are relative to
`src/src/foldmind_ai_core/`.

## 1. The system

| part | state | operations | interacts with |
|---|---|---|---|
| Indexing manifest (`core/application/services/indexing`, `adapters/outbound/postgres`) | `document_sources`, `document_index_records`, `document_folder_relations`, `folder_sources`, `folder_index_records`, `folder_signals`, `outbox_events` | `index_document`, `delete_document`, `index_folder`, `delete_folder`, `FolderSignalInvalidationService.invalidate`, `replace_folder_signals` | called by the host; read by projections; outbox read by Debezium |
| Delivery (`adapters/inbound/outbox_worker`, `adapters/inbound/messaging`, `adapters/outbound/kafka`, `scripts/replay_dead_letter_events.py`) | consumer group offset, dead-letter topic, the message in work | `poll`, `process` (retries, commit), `_dead_letter`, `run_forever`/`close`, replay | Kafka; calls the projection services |
| Vector projections (`core/application/services/projection`, `adapters/outbound/qdrant`) | Qdrant points, projection ledger | project/delete a document or folder, prune old generations | reads source freshness from Postgres |
| Graph projection (`graph_projection_service.py`, `adapters/outbound/neo4j`) | nodes and relationships | upsert/delete document, folder, relations, signals | reads source freshness |
| Task workflow (`core/application/services/workflow`, `core/application/workflows`, `adapters/outbound/workflow_runtime`) | `tasks`, `task_inputs`, `task_jobs`, `host_actions`, workflow checkpoints | create a task, append/remove inputs, record a host action's result | host executes actions; LangGraph keeps the checkpoint |
| Planning (`core/application/workflows`, `core/application/agents/planning_agent.py`) | none | accept and compile a plan, run its steps, build host actions | called by the graph's nodes; an LLM gives the plan |
| Retrieval and recommendation (`core/application/services/retrieval`, `.../recommendation`, `adapters/outbound/neo4j/search.py`) | none (reads all stores) | scopes, candidates, filters, fusion, recommendation | called by the steps of a plan |
| Agents, chunking, signal extraction | none | cut text, accept what an LLM answers, make signals of it | called by indexing |
| HTTP API, codec, bootstrap, mappers, migrations | none | validate, map, encode events, wire | everything |

### What is hard, and what makes each part correct

* **Manifest.** The host calls concurrently and retries, so a call may commit late,
  twice, or after a newer one. Folder digests cover a whole subtree, so every change
  must reach every ancestor. Folder signals are built outside the transaction.
  Correct when: rows of a source live and die together, stored digests and ready
  signals describe the *current* subtree, no source goes back, the outbox replays to
  the tables, and the tables end with the host's newest state.
* **Delivery.** Failures, crashes and rebalances at every point between a projection
  and a commit; a worker that lost its partition keeps working. Correct when it
  implements an at-least-once ordered log, no message is lost or blocks the
  partition, and a dead letter can be replayed.
* **Projections.** Freshness is checked before slow calls; two stores are written
  without a common transaction; deletions are not checked. Correct when, once
  events stop, the projection equals the manifest and no old version stays visible.
* **Indexing transactions.** READ COMMITTED and row locks: a request and a deletion may
  compute a folder's digest without each other's change, and lock rows in opposite orders.
  Correct when requests that do not overlap leave no stale digest, and neither requests that
  index nor deletions deadlock among themselves.
* **Planning and retrieval.** A plan is whatever an LLM answered, its steps communicate
  through artifacts, and the stores change between two steps. Correct when text is
  generated from a search, scopes are kept by every source of candidates, citations are
  of what was found, host actions refer to actions that exist and wait for the host when
  somebody asked for it.
* **Requests.** What the HTTP mapper accepts the worker's codec must read back; chunks
  must cover the text.
* **Task workflow.** A long workflow run between read and optimistic save, with a
  checkpoint that advances by itself, and two places that compute a task's status.
  Correct when the saved task is the one its thread goes on with, status, current action
  and actions tell one story, nothing is executed without the approval it needs, what was
  decided stays decided, attempts stay within `max_attempts`, and every accepted input is
  planned and saved.

The hazards at their source lines are the `hazards` list of `PROJECT.json`.

## 2. Modules

| module | what it is |
|---|---|
| `IndexingManifest` | the manifest and outbox, with the host as environment |
| `MCIndexingManifest` | the view for TLC |
| `IndexingManifestProofs` | its theorems: about the tables, then about the outbox as a log |
| `AtLeastOnceLog` | abstract: what a projection target is promised of its partition |
| `OutboxDelivery` | workers, commits, retries, dead letters and replay over one partition |
| `OutboxDeliveryProofs` | its theorems, with the refinement of `AtLeastOnceLog` |
| `HostActions` | the rules for host actions and their results: pure operators |
| `TaskWorkflow` | one task: its row, its LangGraph thread, the requests on it |
| `MCTaskWorkflow` | the plans and the view for TLC |
| `SequencePlaces` | elements of a sequence picked by their places, and sorting (pure) |
| `SequencePlacesProofs` | lemmas: what is picked, and in which order; a set arranged by an order, a sequence sorted by keys |
| `TaskWorkflowProofs` | theorems: types, the saved status, the saved task and its thread; approvals, attempts, and decisions that stay |
| `ProjectionFeed` | `IndexingManifest` with its outbox as one projection target consumes it: cursors, a late worker, faults |
| `VectorProjection` | the handlers of the four Qdrant targets, with the ledger |
| `GraphProjection`, `GraphSearch` | the statements of the Neo4j target; the queries over the graph |
| `ProjectionTargets` | composes the four modules above: the manifest, a target's workers, its store |
| `MCProjectionTargets` | scenarios for TLC |
| `ProjectionProofs` | theorems about the four Qdrant targets composed with the manifest |
| `GraphProofs` | theorems about the Neo4j target composed with the manifest |
| `IndexingTransactions` | the indexing requests as concurrent transactions, statement by statement |
| `IndexingTransactionsProofs` | its theorems: which requests cannot deadlock, which digests may be stale |
| `SourceRequests` | one source request: HTTP mappers, chunking, signals, outbox codec |
| `Retrieval` | what the search and recommendation services answer from a state of the stores (pure) |
| `WorkflowPlans` | the planning agent's checks and the plan compiler (pure) |
| `WorkflowSteps` | what each step does to the artifacts, the result and the host actions (pure) |
| `TaskSteps` | a task: planned, compiled, run step by step while the stores change |
| `MCHostRequests` | composes `SourceRequests`, `IndexingTransactions` and `TaskSteps` for TLC |
| `HostRequestsProofs` | theorems about `SourceRequests` (what is accepted is decoded; chunks cover the text) and `TaskSteps` (searches before texts, results, the order and confirmation of host actions; the scope and the order of what is found, the folders recommended, the evidence cited) |

### IndexingManifest

State and code: `docSource`, `docIndex`, `member`, `folderSource`, `folderIndex`,
`folderSignals` are the tables named above (deleted rows keep their version, as
`deleted_at` does); `docEvents`/`folderEvents` are `outbox_events` by partition key;
`hostDocs`/`hostFolders` are the App Server's own list of published versions
(external); `signalBuild` is the digest a folder signal build has read.

* `IndexDocument`, `IndexBlankDocument`, `DeleteDocument` are the whole of
  `DocumentIndexingService`: the conditional upsert (`Supersedes`), the index record,
  the relation snapshot, the invalidation of affected folders, the events. A document
  without chunks goes through the deletion path (`Retract`), as in the code.
* `IndexFolder`, `DeleteFolder` are `FolderIndexingService`. The affected set is
  computed as the code does, from the tree before or after the write
  (`AffectedByUpsert`, `Ancestors`, `Subtree`). The recursive CTEs are modelled as the
  least set closed under their join, which also covers parent cycles.
* `Invalidate` recomputes the digests **in the state the transaction leaves** and
  logs an event under an idempotency key; `Logged` drops an event whose key is there.
* `StartFolderSignals`/`ReplaceFolderSignals`: a build starts from a digest and may
  end at any later time.

Abstractions. A digest is the value it hashes (a collision is not modelled). An LLM
extraction is one of `Extractions`. One tenant. `signal_generation_version` keeps its
default. **Each operation is one step**: the code runs it in one READ COMMITTED
transaction, whose interleavings are the subject of `IndexingTransactions`. A request that is not
current returns without a write, so it is no step. Version numbers are the order in
which the host published; `updatedAt` is what the code compares.

### OutboxDelivery

`topic` is one partition; `committed` and `owner` are the group's offset and the
member that owns the partition (external: Kafka); `worker[w]` is where a worker is in
`OutboxProjectionMessageConsumer.process`, its position and attempts; `projected` is a
history variable; `deadLetters` is the DLQ; `replay` is the script's offset and whether
it has produced the next letter.

`Poll` is `run_once` up to decoding (an undecodable message goes to the dead letters
with one attempt). `Project`, `ProjectFails`, `ProjectRejected` are an attempt of the
retry loop (an `ApplicationServiceError` is not retried). `Commit`/`CommitFails` are the
commit *inside* the attempt: its failure dispatches the event again, and after the last
attempt dead-letters an event that was projected. `PublishDeadLetter`,
`CommitDeadLetter` and `Fails` are `_dead_letter` and `run_forever`'s `finally`.
`Crash`, `Revoke`, `Assign`, `Start` are the environment. Errors of `poll` end the
process as `Crash` does. Offsets count from 1.

`LosesDeadLetters` is TRUE for the code as it is: `flush()` reports a letter the broker
did not take to a delivery callback the producer does not set. The replay script calls
`produce` and `flush` in the same way, so a copy may be lost (`ReplayProduces`, a fault) and the
script commits its letter all the same; `replay.lost` (history) holds those letters.

### HostActions and TaskWorkflow

`HostActions` has one operator per method of `WorkflowDomainService` and
`HostActionResultService`; a loop that returns at the first element it looks for is a
`Least` of a set. An action id is the pair of round and type that
`stable_internal_id` hashes with the task id, so actions of two plans of the same round
have the same ids here as there.

In `TaskWorkflow`, `db` is the task as `TaskRepository` loads it, `checkpoint` the newest
checkpoint of its thread (external), `request[r]` a request of the host: the task it read
(`expected_snapshot`), and the copy of the workflow state it works on.
`CreateTask`, `AppendInput`, `RemoveInput`, `RecordActionResult` are the calls of
`TaskWorkflowService` up to the invocation of the graph, which is `Invoke`. The nodes of
the graph follow, each with the edge taken after it and the checkpoint written:
`Plan`, `Replan`, `RunStep`/`StepRaises` (any step or its retry), `Fail`,
`WaitForHostAction`, `ResumeFromActionResult`, `RetryPending`. `Return` and `PlanRaises`
give the service its result (`mark_result`, `mark_failed`, or an error of a report),
`Save`, `SaveConflicts`, `SaveViolatesUnique` are `save_if_unchanged` in its transaction,
under the row's lock. `Dies` may come anywhere. `approved`, `ended` and `faults` are
history variables; no guard reads them.

Abstractions. A plan is its steps, the types of its host actions and one policy; a step
works (`work` stands for all tools that only fill artifacts) or raises, without a part
of its effect. A job is its round, since every plan has a position 0. Texts, times,
task events and job statuses are left out, so two tasks the code tells apart by them
only are equal here. What LangGraph does with a thread (a run starts it again at
`plan`, a resumed one goes on from the newest checkpoint, concurrent ones each from
their own copy) is written down in the module's header.

### ProjectionFeed, VectorProjection, GraphProjection, ProjectionTargets

`ProjectionFeed` EXTENDS `IndexingManifest`: the events a target handles are those that
the manifest's own actions log. A target has one worker process and consumer group;
`cursor[s]` is its offset on the partition key of the source `s`, and `work[s]` the
events in work: by the `owner` of the partition, and by a `late` worker that lost it in
the middle of a handler. A handler is a sequence of calls (`VectorSteps`, `GraphSteps`):
`check` reads the manifest, the others write (`Check`, `Write`, `Finish`). It may fail
between any two (`Retry`, `DeadLetter`), be overtaken (`LosePartition`, `LateDies`), or
be run again later (`Replay`). `faults` bounds how often.

* `VectorProjection`: `points` are the Qdrant points of the target's collection per
  source, `ledger` the rows of `vector_projection_records`. In all four targets Qdrant is
  cleared (`delete_by_filter`), then filled (`upsert_points`), then the ledger is brought into
  line in a transaction of its own: three steps, between which a handler may fail or be
  overtaken. A point's id is of its item and of the text that was embedded
  (`SamePoint`), as the stores hash `vector_input_digest` into it, so a document with a new text
  gets another point and only the clearing removes the old one; the ledger has a row per item,
  which is overwritten. An embedding is the text it was computed from; payload texts and
  collection setup are left out.
* `GraphProjection`: `graph` holds nodes and relationships; there is one operator per
  statement of `neo4j/projection.py`, and a handler composes its statements into one
  transaction as `Neo4jGraphStore` does. A node that is only referred to is a
  *reference*, a deleted folder keeps a node marked deleted.
* `GraphSearch`: the queries of `neo4j/search.py` as sets, with their scopes. They are
  applied to two graphs: the projected one and the one the tables describe.
* `untold` (history) is explained under the known limits of section 4.
* `disturbed` (history) holds the sources whose store was written out of order, by a
  late worker or a replay, since it was last rewritten as a whole. The properties speak of
  sources that are not disturbed: for the others they do not hold, since deletions are
  not checked for freshness and checks come before slow calls (see section 4).

### IndexingTransactions

`tables` is what is committed, `open[t]` a transaction: its request, the statement it is
`at`, the rows it has `held` locks on, the folders still `todo`; `written[t]` and `seen[t]`
are what it wrote and read. `View(t)` is READ COMMITTED (the engine sets no other level):
every statement sees what was committed before it. One action per statement that writes a
row another request may want, in the order of the services; `Wanted(t)` is that row, and
`Waits(t, u)` says that u has locked it. `RollBack` is PostgreSQL's deadlock detection.
`overlaps`, `changed`, `recordedBy` are history variables.
The row of the tenant (`upsert_tenant_scope`, an upsert whose lock is held to the commit) makes
requests that index wait for each other: one about a document locks it first, so it `Begin`s
only when the row is free; one about a folder looks at the folder's old parent before that,
and locks it in `UpsertFolderSource`. Deletions do not touch it. All requests are of one tenant, as
requests of two share no row.
The queries behind one digest are one step; statements on rows covered by a lock already
held are part of the step before. Left out: deletions of folders, versions of folders,
rows of folder signals and the outbox.

### SourceRequests

The stages of one request: `Receive` (validation and mapping to a command),
`IndexDocument` with its chunks, signals, rows and events, `FailExtraction`,
`DropEmptyDocument`, `IndexFolder` or `Delete`, and `DecodeNext` (the worker's codec) for each event. A text is a sequence of
characters of which only the classes are kept: white space, punctuation, word,
timestamps. Chunking is modelled character by character, as `ChunksCoverText` is about
characters. The constants' assumptions say what the program can be given: bodies of the
types that pydantic checks (`RequestsAssumption`), any answer that is JSON of the shape
the extractor reads, a chunk size above its overlap (`PoliciesAssumption`, checked by
`DocumentChunkingPolicy`), and, of rows that other requests wrote, tenants and
folder ids that a mapper has trimmed (`RowsAssumption`).

### Retrieval, WorkflowPlans, WorkflowSteps, TaskSteps

`Retrieval` answers from a *store*, a record of what Postgres, Qdrant and Neo4j hold and
how they score the one query: the stores may disagree, as they do while projections lag.
It models the scopes, the candidate documents, the filters, fusion by reciprocal rank,
boosting, folder ranking and recommendation. `IsStore` says what a store is: finitely many
sources and chunks with a score each, a time for whatever can be found, signals with ids of
their own; nothing is said of how the three stores agree. `WorkflowPlans` is `PlanningAgent`'s and
`WorkflowPlan`'s checks and `WorkflowPlanCompiler` (with the present step it adds, the scope and
time it derives). `WorkflowSteps` has one operator per function of `workflows/steps`,
reading and writing artifacts by name, and the host action builder; results of host
actions are merged by `HostActions`. `TaskSteps` runs them: `Prepare`, `ExecuteStep`,
`FailStep`, and `ChangeStores` between two steps.

## 3. Runs

All runs set `CHECK_DEADLOCK FALSE`: the host may stop publishing, and the bounds end
every behaviour.

| run | instance | shows |
|---|---|---|
| `ManifestTables` | 1 document, 2 folders, 2 versions of folders (constraint `OneFolderMoves`: one of the two folders keeps its first version), 1 deletion each, returning versions, signals of one folder | `TypeOK`, `FolderDigestsFresh`, `ReadySignalsAreCurrent` under moves, deletions and restores of nested folders |
| `ManifestConverges` | 1 document, 1 folder, 2 versions, 2 outcomes of an extraction, 2 deletions, no late requests | the logs replay to the tables (`DocumentLogComplete`, `FolderLogComplete`); `ManifestConsistent`; `SourcesNeverGoBack`; once the host stops, the tables reach its newest state |
| `ManifestSameVersion` | the host may return a deleted source under its version | **violation**: `DocumentLogComplete` |
| `ManifestLateRequest` | requests of before a deletion may commit after it | **violation**: `DeletedStaysDeleted` |
| `DeliveryWorkers` | 2 workers, 2 messages, 2 attempts, 3 faults | implements `AtLeastOnceLog`; `ReplayLosesNothing` (but for letters whose copy the broker did not take); `EveryMessageSettled` |
| `DeliveryLostDeadLetter` | the same, letters may be lost | **violation**: `NoMessageSkipped` |
| `TaskInTurn` | one request at a time, 2 inputs, 2 plans per thread, 2 reports, 1 death, 1 tool retry; plans: two actions to approve of which the second waits for the first, one action to execute at once, an answer, a clarification | `TypeOK`, `SavedStatusAgrees`, `ExecutesOnlyApproved`, `SavedMatchesCheckpoint`, `AttemptsBounded`, `DecisionsKeptInTurn`, `EveryRequestEnds` |
| `TaskRequests` | two requests at a time, 2 inputs, 2 plans per thread, 2 reports, one plan with one action to approve | `SavedStatusAgrees`, `ExecutesOnlyApproved` when saves conflict, threads run beside each other and plans are made beside another request |
| `TaskAppend` | one request at a time, no reports | **violation**: `InputsArePlanned` |
| `ProjectionTargets` | 13 scenarios, below | the stores agree with the manifest, the ledger with Qdrant, graph search with the tables; `ProjectionsConverge` |
| `ProjectionRelations` | a version with `folder_ids`, then one without | **violation**: `GraphRelationsCurrent` |
| `HostRequests` | three kinds of initial state, below | `AcceptedIsDecoded`, `ChunksCoverText` (requests); `StaleOnlyIfOverlapped`, `DocumentsDoNotDeadlock` (transactions); `GroundedInSearch`, `FindsEndWithResult`, `EvidenceOfSignals`, `HostActionReferences`, `ConfirmationKept`, `ScopeKept`, `HybridKeepsOrder`, `RecommendsElsewhere` (tasks) |

Bounds. Two versions and two deletions give index → delete → index → delete, blank and
non-blank versions in both orders, and every late request; more versions only repeat
these. In `DeliveryWorkers` three faults allow a failed attempt, a lost partition and a
crash in one behaviour; two messages show that one follows the other; the replay script
produces into the same bounded partition (a copy of message 1 as message 2), or loses the copy. The proofs
below remove the bounds for the safety properties.

In the task runs, two reports are an approval and an execution, two executions of which
the second is one attempt too many, or a decision and its modification; the death may
separate a checkpoint from its save. `EveryRequestEnds` is checked with one request: a
request works on its own copy of the thread's state and never waits for another.
`TaskRequests` takes requests as alike, and leaves out of its view what none of its
properties and no step reads.

`ProjectionTargets` fixes in each behaviour one scenario: the target, what the host may do
(edits, deletions, folders, moves, whether signals are built) and how many faults there
are. Each target has scenarios that together give it every event it consumes, with a
newer version and a deletion behind it: chunks (2 edits, 1 deletion, 1 fault, blank, one
and two chunks), document vectors (2 faults) and signals (1 fault), folders (1 fault, with moves
and two texts to embed), folder
signals (with two versions of the document and a deletion, so that the folder's input
returns; or with a deletion of the folder), and for the graph documents
with and without folders, a tree of two folders of which one is deleted, a move, and
folder signals (with a deletion of the document, of the folder, or of the folder between
two versions of it). Sources are handled in any relative order. A fault is one failed attempt, dead
letter, lost partition or replay; it may fall between any two calls of a handler, also between the
two of Qdrant; two of them give a replay beside a late worker.

`HostRequests` starts in one of three kinds of state and stays in its kind. *Requests*: bodies in which each
field in turn is blank, padded or malformed, all bodies of up to four characters, chunks of
two and three characters with and without overlap, and the answers an extractor may
give. *Transactions*: three transactions, beside each other or in turn, of nine requests on two
documents of the same folder in a tree of three folders (equal and newer versions, moves, blank
versions, deletions, moved folders): a deletion beside a request that indexes, and a third
that overlaps with both, or shows what they left. *Tasks*: every action type, alone and
after those it needs, in each scope, against stores that agree, have moved ahead, or lag
behind, with one change in between; the refused plans too.

The view `Tables` leaves the logs out of the fingerprint in runs whose properties are
about tables: no operation reads the log.

Fairness. `ManifestConverges` assumes an at-least-once host: its newest version, or its
deletion, is sent until it is stored (`DeliverDocument`, `DeliverFolder`). The code
itself schedules nothing: every step is a call. `EveryMessageSettled` assumes that a
running worker does not rest (`run_forever` loops), that a stopped worker is
restarted (its supervisor), and that Kafka ends the session of a dead member and
assigns a free partition; faults are bounded and not fair. `EveryRequestEnds` assumes
that a handler that lives takes its next step: the planner, the tools and the stores
answer or raise (the LLM client has a timeout, a lost store raises). `ProjectionsConverge`
assumes that workers do not rest while there is something to handle, as one weak fairness
condition over all handlers of all sources; faults and the host are not fair. The fairness of a request is written out as
`FairSpec` does because its action is enabled exactly when the request is not idle.

## 4. What the violations say

1. **Same version again after a deletion** (`ManifestSameVersion`). An equal version
   brings a deleted row back, but the idempotency key of `DOCUMENT_INDEXED` is a digest
   of its payload: if the payload is the same as before the deletion, the event is
   dropped and every consumer keeps the document deleted. README.md:65-67 of the
   repository promises that a reindex/delete cycle is not swallowed.
2. **Late index request** (`ManifestLateRequest`). A deletion carries no version and
   does not advance the row's, so an older index call that commits after it revives the
   source; `docs/ai-core-data-policy.md:53-54` says old requests are blocked.
3. **Lost dead letter** (`DeliveryLostDeadLetter`). The dead-letter producer does not
   look at the outcome of the delivery before the offset is committed; README.md:605-606
   says failed messages are published to the dead-letter topic and can be replayed from there.
   The replay script loses a copy in the same way
   (`scripts/replay_dead_letter_events.py:41-52`): it commits the letter after a `flush()` that
   does not tell it of a failed delivery. `ReplayLosesNothing` leaves such letters out.
4. **Appended input** (`TaskAppend`). A new run of a thread counts its rounds from 0,
   while the task keeps the jobs of its earlier plans and the database wants
   (task, round, position) unique: the save of every task that is planned a second time
   is refused, and the thread is left at the new plan. README.md:222 and 228 promise a
   replan. (A `modified` result replans within the thread, where rounds go on.)
5. **Omitted snapshot** (`ProjectionRelations`). A relation snapshot is projected only
   while its version is the document's. If a newer version without `folder_ids` commits
   before, the snapshot is skipped as stale and no other event brings the membership,
   which the tables still hold, to Neo4j. README.md:63-64 says an omitted snapshot leaves
   membership unchanged.

`ExecutesOnlyApproved` leaves out a task of which a plan was made while another request was
under way. There it does not hold: a report of an action of the one plan is taken by the
other plan's action of the same round and type, which has the same id (a run beside a
report, or two reports that both say *modified* and replan in the same round). No document
says whether it should.

**Known limits.** What the properties leave out because the code does not give it, without
a run of its own:

* A report whose save is refused has already moved the thread; the next report starts
  there and its save takes back what the accepted report saved. `DecisionsKeptInTurn` is
  therefore checked with one request at a time.
* A deletion replayed from the dead-letter topic, or projected late, removes what was
  indexed since; a handler overtaken between its check and its write leaves an old
  version (until the source's next event).
* A request that is repeated extracts the signals of the same version anew, and an LLM may
  answer x1, then x2, then x1 again. The third `DOCUMENT_INDEXED` has the payload of the
  first, so it is dropped: Postgres has x1, and the stores keep x2 as long as the version
  lives. `DocumentLogComplete` therefore says of the signals only that an event of the
  version has them.
* The idempotency key of `FOLDER_SIGNALS_INVALIDATED` is its digest: when a folder's input
  returns to an earlier one, the invalidation is dropped, and what was built in between
  stays in Qdrant and Neo4j. `untold` (history) holds the folders that ever had an input
  whose invalidation is not the last one logged. A worker that then judges an earlier
  invalidation stale has nothing to follow it, so such a folder stays out of the
  properties about folder signals, also when the last invalidation is true again.
* A restored folder gets its node back but not the relations its deletion removed.
* `FolderSignal` nodes are stored before they are linked, and only a folder's own node is
  linked. `FOLDER_SIGNALS_COMPLETED` names the folder, so a folder that is back may have
  its signals before its node; `FOLDER_DELETED`, handled between the two, removes signals
  over the link and finds none (`neo4j/projection.py`). Signals of a folder that was
  deleted once may so stay, linked to nothing. No search reaches them.
  `GraphFolderSignalsCurrent` claims the link only of folders that were never deleted; of
  linked signals it says the same for every folder.
  `DocumentSignal` nodes without relations may stay behind (`neo4j/projection.py:136`).
* A deletion beside another request below the same folder, or two requests beside each other
  that move the same folder (its old parent is read before the wait for the tenant's row), may
  leave a digest of neither state until the folder's next invalidation. Deletions and a
  request that indexes a folder, or one of the documents they delete, may deadlock;
  PostgreSQL then rolls one back, and the host sees an error. `DocumentsDoNotDeadlock` says there
  are no others.
* An empty list of ids is no restriction in every store. The code ends a document search
  whose scope is an empty folder before it gets there, which is what `ScopeKept` rests on.
* A period (`this_month`) is compiled to its first instant and compared for equality
  (`plan_compiler.py:291`, `search_scope.py:44-47`), while `docs/request-exam.md:70` reads
  as if everything in the period was found.
* A second `find_signals` keeps the evidence expanded for the first
  (`retrieval_artifacts.py:126`); an empty one is searched again without its type. The plan
  [find_signals, expand_signal_evidence] completes without a result. The words for "no
  signals" can become the body of a document.

## 5. Proofs

All theorems are checked by `tlapm` (Z3, Zenon, LS4); nothing is assumed but the named
`ASSUME`s of the modules, which only give constants their types (`ConstantsAssumption`,
`DeliveryAssumption`, `TransactionAssumption`, `WorkflowAssumption`; `PlansAssumption`: the
actions of a plan are a list; `StoresAssumption`: the stores are stores; `TopKAssumption`: a
search returns at least one item, which `client.py` insists on), say that the value
for *no task* is not a task and that for *unsorted* no direction (`NoneAssumption`, in two modules)
and that exactly a blank text has no chunks (`ChunkAssumption`), or fix the host's conduct where projections are concerned
(`FeedAssumption`: no late requests, no reused versions, no equal timestamps).

**IndexingManifestProofs**, for any documents, folders, contents, hosts and bounds:

* `TypeCorrect`, `RowsConsistent`, `DigestsFresh`, `ReadySignalsCurrent` follow from
  `ManifestInvariant`: types, row consistency, fresh digests and current ready signals
  are inductive **together**. Fresh digests need row consistency (an index record is
  live exactly with its source) and the duality *f is an ancestor of g iff g is in the
  subtree of f*, for every parent function, cycles included: it is what makes "invalidate
  the ancestors of what changed" reach every folder whose subtree changed. Per operation
  the proof shows that a folder outside the invalidated set has the same subtree, the
  same members and so the same digest.
* `NeverBack` (action property): from the invariant that versions and timestamps are
  ordered alike in the host's history and that a stored row is a published version.
* `DocumentLogReplays`, `FolderLogReplays`, under `~LateRequests` and
  `~ReuseDeletedVersions`: the last events of a log say what the tables
  hold. Inductive is `LogInv`: the events of a log are of versions up to the stored one and
  say what the host published under them; the last of each kind is that of the stored row,
  or of its deletion; and no call is left for a version stored as deleted (or it is blank),
  so a deletion is never followed by an event whose key is already there. What the outbox
  drops as a duplicate is then always an event the last one agrees with. Both hypotheses are
  needed: the runs `ManifestSameVersion` and `ManifestLateRequest` violate the properties, or
  what they rest on, without them. That the last event also has the stored *signals* cannot
  be proved: it does not (section 4).

**OutboxDeliveryProofs**, for any number of workers, messages, retries and faults:

* `DeliveryInvariant`: a worker that owns the partition is at the offset when it polls
  and on the message right behind it when busy; any busy worker, zombie or not, is on
  that message or an earlier one; a worker about to commit has projected its message or
  dead-lettered it. `NoMessageSkipped` alone is not inductive: it says nothing about where
  the committing worker is.
* `DeliveryTypeCorrect`, `NoneSkipped` follow.
* `DeliveryImplementsLog`: a dispatch or dead letter of the message behind the offset
  maps to `Handle`, one of an earlier message to a stutter *because* it was handled
  (`NoMessageSkipped`), a commit to `Advance`. It holds under `~LosesDeadLetters`, and the
  run `DeliveryLostDeadLetter` shows the condition is needed.
* `ReplayKeepsDeadLetters`: both topics only grow, and a letter's copy is behind it, unless the
  broker did not take it. Inductive is `ReplayInv`, which says this also of the letter that was
  produced and is not yet committed.

**IndexingTransactionsProofs**, for any tree of folders, any requests and any number of
transactions:

* `RequestsDoNotDeadlock`: in a cycle of waits all but one delete documents, and that one
  indexes a folder or a document that is deleted beside it. Inductive is `LockInv`:
  rows are held by one transaction; what a transaction holds tells how far it is
  (`Orderly`), and the records it holds are below all it has still to lock. Everyone in a
  cycle is waited for, so holds a row, and who indexes and holds a row holds the tenant's
  (`OneIndexes`). In a cycle without folder requests nobody wants a record (whoever holds the greatest one wanted
  would want a greater one, `NoRecordWanted`), and a cycle on a document's two rows has an
  index request and a deletion of the same document (`SourceWanted`). Both kinds of cycle are
  real: the run shows that such cycles occur.
* `StaleDigestsOverlapped`: a digest differs from the tables only on what was changed beside
  the request that recorded it. Inductive is `DigestInv`. For every open request: what it
  has written is what its statements up to now write (`Shape`); what it has read or recorded
  says what it sees, save for what others changed (`DigestsFaithful`); and a folder whose
  record it leaves alone is either one it has overlapped about (`Beside`) or has nothing
  below it that the request changes (`Covered`). The tables alone are not inductive: what a
  commit does to a digest it leaves alone is decided when the affected folders are read.
  Then it holds since what is below a folder has the folder among its ancestors; until the
  commit, since a move from and to places outside a folder's subtree keeps that subtree
  (`MoveOutside`), and any other change is one of an overlapping request.

**TaskWorkflowProofs** (with SequencePlacesProofs), for any plans, policies,
requests, deaths, reports and retries:

* `ThreadOK` is what holds of a thread after every node, whoever ran it: its actions are
  those of its plan's round with ids of their own, its status is the one computed from
  them, the retried action is ready. `Base` adds the saved task, the newest checkpoint and
  the requests: each works on a thread that is all right, and saves one that is. Every action of `Next` is one
  of eight shapes (`StepOf`: a request begins, is invoked, moves a node, returns, raises,
  saves, gives up or dies), so the theorems below split on shapes and not on nodes.
* `StatusAgrees`, `TaskTypeCorrect` follow from `Base`; the latter also from `Counts`: an
  action's attempts and the results still on their way to it are at most the reports made.
* `SavedIsThread` from `Turn`: while requests did not overlap, the one under way has read
  what is saved, and the newest checkpoint is its own.
* `OnlyApprovedExecuted` from `Decisions`: while no plan is made beside another request, all
  requests know the same plan of the thread; so a result that tells of an execution is about an
  action the host has seen and approved (`Rests`), in whatever order overlapping reports run and save.
* `AttemptsAreBounded` from `Attempts`: the thread waits for one of the saved actions, and
  retries it only while its policy lets it.
* `DecisionsAreKept` (action property) from `InTurn`: the thread is never behind the saved
  task, except after a run whose task the database refuses.

**HostRequestsProofs**, about `SourceRequests`, for any bodies, answers of the model, alphabets
of characters and chunking policies:

* `SourceAcceptedIsDecoded`, `SourceChunksCoverText` follow from `SourceInv`: by its stage the
  request is one that was sent, or a command whose values a mapper let through (`SourceTypes`); once
  it is written, what the worker will make of every event of the outbox is what the rows say
  (`Carries`), and what it has made of the first few is that (`WrittenInv`). Decoding adds the
  next of these, so neither property is inductive without the events still to be decoded.
* Of the validators: what `Strip` returns is not changed by stripping it again and is blank only
  if it is empty (`Stripped`), so a value that was trimmed (`Kept`) passes the codec unchanged
  (`FitsIsKept`), as do the texts that the core makes itself: the
  title, the chunks, the keys of signals. A text the codec does not trim is one the core
  has trimmed already or the codec takes as it is.
* Of the chunker: the windows are numbered without a gap (`WindowsAre`), every character is
  in the first half-open step of one of them (`SomeWindow`, from the least window that ends behind
  it), and trimming a window takes white space only (`WindowIs`, `ChunkIs`); a window that is
  left out is blank (`ChunksAre`, `Covering`). No induction over the text is needed, as lengths and
  offsets are those of sets of places.

**HostRequestsProofs**, about `TaskSteps`, for any plans the model may answer, texts, contexts and states of the
stores, changing between steps as they will:

* `GroundedInSearchHolds`, `FindsEndWithResultHolds`, `HostActionReferencesHold` and
  `ConfirmationKeptHolds` follow from `StepsInv`: the steps are the compiled form of an
  accepted plan; those that are over have written what later ones rely on and left a result
  if they have one (`Ran`); the actions are in order, and all still to be confirmed if the
  plan asks for it. None of the four is inductive without knowing which steps have run.
* About the plan: the plan's actions keep their places when a presenting step is added
  (`CompiledIs`), so a required prior action is a step that is over. About the actions:
  those a step asks for are in order (`HostActionsForAre`: the builder names an action only
  if it builds it, and first); merging leaves out those already there and keeps the order of
  the rest (`JoinedAre`); scheduling makes only an action ready that needs no confirmation
  (`ScheduledIs`). What the searches find does not matter for these four.
* What a search returns (`SequencePlacesProofs`, then the lemmas about `Retrieval`): in a finite
  set ordered by a relation, the members below x are as many as the places before x. No
  two members have the same number and no number is left out, as the place is a
  cardinality of a subset and the pigeonhole theorem of the library applies (`ArrangedIs`);
  so a sort has the same elements (`Reordered`), and a list of hits stays a list of the same hits,
  each once, through ranking, fusion, boosting, sorting in time and cutting (`Hits`, `Once`). Sums of
  scores, which the community module computes by a recursive function over subsets, are
  integers: only that is said of them where more than one score is added (`SumIsInteger`).
* `ScopeKeptHolds`: every step of a compiled plan asks in the scope of the plan's source, whatever period
  or order its options add (`StepsAre`); a resolved scope has documents if it had folders, or the
  search ends; candidates narrow a scope only if it has no documents (`FoundInScope`).
* `HybridKeepsOrderHolds`: in the two lists the score falls from place to place (`Falls`); a
  reciprocal rank falls with the rank, so the sum of two does not order x behind y if neither list
  does (`RankedFalls`), and as the joined lists have x first, the stable sort keeps that
  (`BothKeep`, `DescendingKeeps`, `HybridLeads`); the score of the document raises both alike
  (`BoostedKeeps`); and what is ahead of something taken is taken with it (`TakenLeads`).
* `RecommendsElsewhereHolds`: a folder search returns ranked folders that are not excluded
  (`FolderSearchIs`), and what a recommendation excludes covers the folders of the graph, or those of
  the tables, and the current folder (`ExcludedAre`).
* `EvidenceOfSignalsHolds` from `EvidenceInv`: evidence is recorded only by a step that expands it, and is of
  the signals recorded last unless these were searched for after that (`Supported`); a step that writes
  about signals cites what is recorded, or expands it itself. The property alone speaks of the
  last step only, and says nothing of the evidence that a later step will cite.

**ProjectionProofs**, for any documents, folders, scenarios and number of faults, under
`FeedAssumption` and `ChunkAssumption`:

* `VectorsAreCurrent`, `LedgerAgreesWithCollection`, `FolderSignalVectorsAreCurrent`: a source
  that is settled and undisturbed has exactly the points and ledger rows of what the tables
  hold. Inductive is `ProjInv`, of which one half is about the logs and one about workers.
* *Logs* (`FeedInv`, which has `ManifestInv` and `LogInv` of the manifest in it): the last
  event of every kind is of the stored row; no two events of a folder are equal; signals are
  announced after the invalidation of those before; and whatever is out of date in a log has
  another event of the signals behind it. The last clause is what pruning rests on (a worker
  that finds an event stale leaves the store alone), and it holds only of folders that are
  not `untold` (section 4).
* *Workers*, per source: a late worker is not ahead of the owner, and a replayed event was
  handled before (`Placed`); an undisturbed store holds what the last consumed event says,
  unless a later one is on its way, and between two writes of a handler it is empty or has
  that handler's points (`Kept`); and a folder's points are of an event of signals that
  was handled (`Sourced`), so that the invalidation before it finds none of them. *Settled* says
  only that nothing is left to do, so without `Kept` nothing follows from it.
* The four handlers (replace, put one, prune, drop) are treated as sequences of writes on
  values, apart from the module's state: replacing and putting one clear, upsert and record,
  and the point of an earlier text is gone before the new one is there; that a source is disturbed by a late write or a
  replayed one, and healed by a whole replacement, is what lets `Kept` survive faults.

**GraphProofs**, under the same assumptions:

* `GraphNodesAreCurrent`, `GraphSearchIsCurrent`, `GraphFolderSignalsAreCurrent`: once every
  event is handled and nothing is disturbed, the nodes are those of the tables; each query
  finds, in every scope, what it would find in a graph built from the tables (no more than
  that where a folder was deleted; unless a version omitted its snapshot); and linked
  folder signals are of the folder's current input. Here one graph is written for all sources, so that a source's own part
  of it must be told from what others write there. Inductive is `GraphInv`:
* *The store* is a set of facets (`Held`): of a document its content and its relations, of a
  folder its node and its signals. The events of one facet replace each other, and those of
  another leave it alone, up to the links that a deletion of a folder removes from its
  documents and signals (`TransactsKeeps`). So a facet holds what the last event of its types
  says, save for folders that were ever deleted (`Gone`), as soon as that event is behind the
  worker's place in the log (`GraphPart`); this is inductive where `GraphNodesCurrent` is not,
  because it speaks of every state of a log half consumed. `Excused` are the two facets of which the
  code does not give it: relations after a version that omits its snapshot, and signals of
  `untold` folders.
* *What holds at every moment* (`StoreOK`): a folder's node says *deleted* only if the folder
  was; its signals were announced by its log and are about the documents announced; the
  relation to a parent and the link to signals start at a node that exists.
* *The workers* (`GraphPlaced`): a late worker is not ahead of the owner; a transaction not
  yet written was checked against the tables of then. What is skipped as stale has a later
  event of the same facet in the log, or of the source's deletion (`StalePart`), so a skip
  keeps `GraphPart`.
* *The logs* (`SaidInv`, next to `FeedInv` of **ProjectionProofs**): relations follow the
  content they belong to; a live document's folders are those its relations event says unless
  the version omitted them; a told folder that was never deleted has the input of its
  last invalidation, so that signals found current are those of the tables.
* *The queries* are monotone in the graph (`SearchWithin`): a graph within another one finds
  nothing that the other does not. So the projected graph and that of the tables, which
  differ in their references, answer alike when each is within the other.

Only model-checked:

* liveness (`ManifestConverges`, `EveryMessageSettled`, `EveryRequestEnds`,
  `ProjectionsConverge`), which needs fairness and ENABLED. Every other property of a passing
  run is a theorem.

## 6. Plan

1. `IndexingManifest`, and the proofs of its tables and its logs: **done**.
2. `OutboxDelivery` refining `AtLeastOnceLog`, and its proofs: **done**.
3. `HostActions`, `TaskWorkflow`, and the proofs of all their safety properties: **done**.
4. `ProjectionFeed`, `VectorProjection`, `GraphProjection`, `GraphSearch`,
   `ProjectionTargets`, and the proofs of all their safety properties for all five targets,
   composed with the manifest: **done**.
5. `IndexingTransactions`, and the proofs of both its properties: **done**.
6. `SourceRequests`, and the proofs of both its properties: **done**.
   `Retrieval`, `WorkflowPlans`, `WorkflowSteps`, `TaskSteps`, and the proofs of all eight
   properties of `TaskSteps`: **done**.
7. Left: the compared instants of periods (section 4).

Runs are kept few: one per question, properties grouped by instance.

## 7. Not modelled

* LLM and embedding calls: their answers are arbitrary values, what the code makes of
  them is modelled. Prompts, clients, and how folder signals are built are left out.
* HTTP routers, error mapping, authentication of the host, the DTOs of tasks: formatting
  around the modelled operations.
* Row mappers, search vectors, and migrations: columns are modelled where an operation
  reads or writes them.
* Job statuses, task events and messages of tasks: no step reads them.
* Graph and keyword scores are inputs (how Postgres, Qdrant and Neo4j score a text is theirs).
* Wiring, settings, telemetry, message keys and headers.

`PROJECT.json` lists every component with its status.
