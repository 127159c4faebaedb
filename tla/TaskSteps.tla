------------------------------ MODULE TaskSteps ------------------------------
(***************************************************************************)
(* One round of a task inside the core: the language model answers with a  *)
(* plan, the compiler makes steps of it, and the steps run one after the   *)
(* other, each against the stores as they are then: between two steps      *)
(* documents are indexed, moved and deleted.  Saving, interrupts and the   *)
(* host's results are in TaskWorkflow and HostActions.                     *)
(***************************************************************************)
EXTENDS WorkflowSteps

CONSTANTS
  Stores,       \* states of the stores, see Retrieval
  Contexts,     \* [document, folder, now]
  Plans,        \* what the language model may answer
  Texts,        \* what it may write
  MaxChanges    \* bound: how often the stores change during the task

ASSUME PlansAssumption ==
  \A p \in Plans : p.actions \in Seq({p.actions[i] : i \in DOMAIN p.actions})

ASSUME StoresAssumption == \A s \in Stores : IsStore(s)

VARIABLES
  store, context,
  plan,         \* the model's answer
  steps, next,  \* the compiled plan, and which step runs next
  work,         \* artifacts, result and host actions, see WorkflowSteps
  phase,        \* "none", "planning", "running", "completed" or "failed"
  changes

taskVars == <<store, context, plan, steps, next, work, phase, changes>>

NoWork ==
  [artifacts |-> NoOptions, result |-> {}, round |-> 0, task |-> [actions |-> <<>>], pending |-> {}]

TaskInit ==
  /\ store \in Stores /\ context \in Contexts
  /\ plan = None /\ steps = <<>> /\ next = 1 /\ work = NoWork
  /\ phase = "planning" /\ changes = 0

\* No task is running.
NoTask ==
  /\ store = None /\ context = None
  /\ plan = None /\ steps = <<>> /\ next = 1 /\ work = NoWork
  /\ phase = "none" /\ changes = 0

\* WorkflowEngine.prepare
Prepare(answer) ==
  /\ phase = "planning"
  /\ plan' = answer
  /\ IF PlanAccepted(answer) /\ PlanCompiles(answer, context)
     THEN phase' = "running" /\ steps' = Compiled(answer, context)
     ELSE phase' = "failed" /\ steps' = steps
  /\ UNCHANGED <<store, context, next, work, changes>>

ExecuteStep(text) ==
  /\ phase = "running"
  /\ ~StepFails(store, work, steps[next], context)
  /\ work' = AfterStep(store, work, steps[next], context, text)
  /\ next' = next + 1
  /\ phase' = IF next = Len(steps) THEN "completed" ELSE "running"
  /\ UNCHANGED <<store, context, plan, steps, changes>>

FailStep ==
  /\ phase = "running"
  /\ StepFails(store, work, steps[next], context)
  /\ phase' = "failed"
  /\ UNCHANGED <<store, context, plan, steps, next, work, changes>>

ChangeStores(s) ==
  /\ phase = "running" /\ changes < MaxChanges
  /\ store' = s
  /\ changes' = changes + 1
  /\ UNCHANGED <<context, plan, steps, next, work, phase>>

TaskNext ==
  \/ \E answer \in Plans : Prepare(answer)
  \/ \E text \in Texts : ExecuteStep(text)
  \/ FailStep
  \/ \E s \in Stores \ {store} : ChangeStores(s)

TaskSpec == TaskInit /\ [][TaskNext]_taskVars

-----------------------------------------------------------------------------
Runs(types) == phase = "running" /\ steps[next].type \in types
LastType == steps[next - 1].type

(***************************************************************************)
(* Whatever the plan and however the stores change, text is generated from *)
(* the answer of a document search, never from nothing: a search has run   *)
(* and its results are there, even if it found none.                       *)
(***************************************************************************)
GroundedInSearch ==
  Runs(Generating \cup {"analyze_documents"}) => Written(work, "document_retrieval")

(***************************************************************************)
(* A task that searched for documents or for signals ends with a result,   *)
(* whether or not the model thought of a step that presents them; only a   *)
(* plan whose one use of its signals is to expand their evidence does not. *)
(***************************************************************************)
FindsEndWithResult ==
  LET types == {steps[i].type : i \in DOMAIN steps}
  IN  phase = "completed" /\ types \cap {"find_documents", "find_signals"} # {}
        => \/ work.result # {}
           \/ types \cap OfSignals = {"expand_signal_evidence"} /\ "find_documents" \notin types

(***************************************************************************)
(* A task about the current document or folder retrieves nothing from      *)
(* outside: every chunk found is of that document, or of one that Neo4j has*)
(* in that folder when the step runs, also when the folder is empty, when  *)
(* the query is restricted in time as well, and whatever candidates vectors*)
(* and graph propose.                                                      *)
(***************************************************************************)
ScopeKept ==
  [][\A n \in DOMAIN ReadList(work', "document_retrieval") :
       LET d == Chunked(Read(work', "document_retrieval")[n])
       IN  Runs({"find_documents"}) /\ next' # next =>
             /\ plan.scope = "current_document" => d = context.document
             /\ plan.scope = "current_folder" =>
                  <<d, context.folder>> \in store.inFolder /\ context.folder \notin store.deleted
    ]_taskVars

\* x is before y in the list, or is in it and y is not.
Precedes(items, x, y) ==
  \E i \in DOMAIN items : items[i].of = x /\ \A j \in 1 .. i : items[j].of # y
Absent(items, x) == \A i \in DOMAIN items : items[i].of # x

(***************************************************************************)
(* Of two chunks of a document, the one that is ahead of the other in one  *)
(* of the two lists (vectors, keywords) and not behind it in the other is  *)
(* ahead of it in the answer, unless the answer is sorted by time.         *)
(***************************************************************************)
HybridKeepsOrder ==
  [][Runs({"find_documents"}) /\ next' # next /\ steps[next].scope.sort = None =>
       LET scope == DocumentSearchScope(store, steps[next].scope)
           lists == ChunkLists(store, CandidateScope(scope, Candidates(store, scope)), FALSE)
           results == Read(work', "document_retrieval")
           Ahead(x, y) == \/ Precedes(lists.dense, x, y) /\ ~Precedes(lists.keyword, y, x)
                          \/ Precedes(lists.keyword, x, y) /\ ~Precedes(lists.dense, y, x)
       IN  scope # None /\ ~Opt(steps[next].options, "require_comprehensive_search", FALSE) =>
             \A n \in DOMAIN results : \A x \in DOMAIN store.worded :
               Document(x) = Chunked(results[n]) /\ Ahead(x, results[n].of)
                 => Precedes(results, x, results[n].of)
    ]_taskVars

(***************************************************************************)
(* No folder is recommended for a document that is already in it: not one  *)
(* the graph lists for it and, if the graph lists none, not one of the     *)
(* membership tables.                                                      *)
(***************************************************************************)
RecommendsElsewhere ==
  [][Runs({"recommend_folder"}) /\ next' # next /\ context.document # None =>
       LET d == SourceDocument(steps[next], context)
           known == FoldersOf(store, d)
       IN  \A n \in DOMAIN Read(work', "folder_recommendation") :
             LET f == Read(work', "folder_recommendation")[n].of
             IN  /\ f # context.folder
                 /\ f \notin known
                 /\ known = {} => <<context.document, f>> \notin store.relations
    ]_taskVars

(***************************************************************************)
(* What is said about signals cites the evidence of these signals, through *)
(* searches, merges with signals made on demand and changes of the stores. *)
(* Signals searched for again after their evidence was expanded are left   *)
(* out: the old evidence is then cited (signal_evidence_or_expand).        *)
(***************************************************************************)
EvidenceOfSignals ==
  LET searchedAgain ==
        \E i, j \in 1 .. next - 1 : i < j /\ steps[j].type = "find_signals"
                                    /\ steps[i].type \in {"expand_signal_evidence", "extract_on_demand_signals"}
      signals == ReadList(work, "signal_retrieval")
  IN  next > 1 /\ signals # <<>> /\ ~searchedAgain /\ LastType \in {"present_signals", "synthesize_signals"}
        => \A result \in work.result : \A n \in DOMAIN result.value.citations :
             LET c == result.value.citations[n]
             IN  \E k \in DOMAIN signals : signals[k].signal.id = c.signal
                                           /\ c.of \in {None} \cup ToSet(signals[k].signal.evidence)

(***************************************************************************)
(* A host action that waits for the output of another one (the folder of a *)
(* document, the source of a link) names an action of the task ahead of it,*)
(* whatever was requested and whatever the builder left out.               *)
(***************************************************************************)
HostActionReferences ==
  LET actions == work.task.actions
  IN  \A i \in DOMAIN actions : actions[i].waitsFor # None =>
        \E j \in 1 .. i - 1 : actions[j].id = actions[i].waitsFor

(***************************************************************************)
(* If the plan, or each of its host action steps, asks for a confirmation, *)
(* no host action is ready before the host has decided, whatever the       *)
(* options of the step say.                                                *)
(***************************************************************************)
ConfirmationKept ==
  plan # None
  /\ (\A i \in DOMAIN plan.actions :
        plan.actions[i].type = "plan_host_actions" => plan.confirm \/ plan.actions[i].confirm)
    => \A i \in DOMAIN work.task.actions : work.task.actions[i].status = "proposed"
=============================================================================
