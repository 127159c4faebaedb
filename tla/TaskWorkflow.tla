---------------------------- MODULE TaskWorkflow ----------------------------
(***************************************************************************)
(* One task: its row in PostgreSQL (db), the LangGraph thread of its       *)
(* workflow (checkpoint), and the requests on it that are under way.  A    *)
(* request reads the task, runs the workflow node by node, each node       *)
(* followed by a checkpoint, and saves the task it got if the row is still *)
(* the one it read.                                                        *)
(*                                                                         *)
(* External: LangGraph, PostgreSQL, the planner and the tools (they end or *)
(* raise), and the host, which may send any request at any time.  A thread *)
(* that waits takes the result a request resumes it with; one left at      *)
(* another node by a request that died goes on from there; an ended one    *)
(* returns its state.  Requests on one thread each go on with their own    *)
(* copy, and the last checkpoint counts.                                   *)
(***************************************************************************)
EXTENDS HostActions

CONSTANTS
  Requests,           \* requests under way at a time
  Plans,              \* what the planner may answer: [steps, types, policy]
  MaxToolRetries      \* WorkflowEngine.max_tool_retries

\* Bounds.
CONSTANTS
  MaxInputs,          \* inputs of the task
  MaxRounds,          \* plans of one workflow run
  MaxReports,         \* results the host reports
  MaxDeaths           \* requests that die

Steps == {"work", "answer", "clarify", "plan_host_actions"}

ASSUME WorkflowAssumption ==
  /\ IsFiniteSet(Requests) /\ None \notin Requests
  /\ MaxToolRetries \in Nat /\ MaxInputs \in Nat \ {0} /\ MaxRounds \in Nat \ {0}
  /\ MaxReports \in Nat /\ MaxDeaths \in Nat
  /\ \A plan \in Plans :
       /\ plan.steps \in Seq(Steps) /\ plan.steps # <<>>
       /\ plan.types \in Seq(STRING)
       /\ \A i, j \in DOMAIN plan.types : plan.types[i] = plan.types[j] => i = j
       /\ plan.policy.maxAttempts \in Nat \ {0}
       /\ {plan.policy.allowSkip, plan.policy.retryable, plan.policy.confirm} \subseteq BOOLEAN

VARIABLES
  db,                 \* the saved task, or None
  checkpoint,         \* external: the newest checkpoint of the thread, or None
  request,            \* per request: where it is, what it read and works on
  reports, deaths,    \* bounded counters
  approved,           \* history: the actions the host has approved
  ended,              \* history: how the last request ended
  faults              \* history: kinds of disturbance so far

vars == <<db, checkpoint, request, reports, deaths, approved, ended, faults>>

Idle == [pc |-> "idle"]

NoActions(task) == [task EXCEPT !.status = "clarification_required", !.current = None,
                                !.result = "none", !.actions = <<>>]

NewTask == [status |-> "clarification_required", inputs |-> <<"active">>, jobs |-> <<>>,
            result |-> "none", actions |-> <<>>, current |-> None]

Fresh(task) == [node |-> "plan", task |-> task, rounds |-> 0, plan |-> None, next |-> 0,
                pending |-> {}, replan |-> FALSE, retry |-> None, failures |-> 0,
                error |-> FALSE, last |-> None]

-----------------------------------------------------------------------------
(***************************************************************************)
(* Requests begin.  A request works on task; kind tells whether it runs a  *)
(* new workflow, reports a result, or only saves.                          *)
(***************************************************************************)
Others(r) == {q \in Requests \ {r} : request[q] # Idle}

Enter(r, req) ==
  /\ request[r] = Idle
  /\ request' = [request EXCEPT ![r] = req]
  /\ faults' = faults \cup {f \in {"overlap", "replanned"} :
       /\ Others(r) # {}
       /\ f = "replanned" => req.kind = "run" \/ \E q \in Others(r) : request[q].kind = "run"}
  /\ UNCHANGED <<checkpoint, deaths, ended>>

Runs(task) == [pc |-> "read", kind |-> "run", read |-> db, task |-> task]

CreateTask(r) ==
  /\ db = None
  /\ db' = NewTask
  /\ Enter(r, [Runs(NewTask) EXCEPT !.read = NewTask])
  /\ UNCHANGED <<reports, approved>>

AppendInput(r) ==
  /\ db # None /\ Len(db.inputs) < MaxInputs
  /\ Enter(r, Runs(NoActions([db EXCEPT !.inputs = Append(@, "active")])))
  /\ UNCHANGED <<db, reports, approved>>

\* The task is planned again from the inputs that are left, if any; removing an
\* input twice changes nothing.
RemoveInput(r, i) ==
  LET removed == NoActions([db EXCEPT !.inputs[i] = "removed"])
      Saves(task) == [pc |-> "save", kind |-> "remove", read |-> db, task |-> task]
  IN  /\ Enter(r, IF db.inputs[i] = "removed" THEN Saves(db)
                  ELSE IF \E j \in DOMAIN db.inputs : removed.inputs[j] = "active"
                  THEN Runs(removed) ELSE Saves(removed))
      /\ UNCHANGED <<db, reports, approved>>

\* A result is accepted by the saved status of its action.
RecordActionResult(r, a, outcome, output) ==
  /\ reports < MaxReports
  /\ outcome \in AllowedOutcomes(a.status)
  /\ output => outcome = "succeeded"
  /\ Enter(r, [pc |-> "read", kind |-> "report", read |-> db,
               result |-> [action |-> a.id, outcome |-> outcome, output |-> output]])
  /\ approved' = IF outcome = "approved" THEN approved \cup {a.id} ELSE approved
  /\ reports' = reports + 1
  /\ UNCHANGED db

\* ainvoke: a run starts the thread again, a report goes on from its checkpoint.
Invoke(r) ==
  LET req == request[r]
      w   == IF req.kind = "run" THEN Fresh(req.task) ELSE checkpoint
  IN  /\ req.pc = "read"
      /\ request' = [request EXCEPT ![r] =
           [pc |-> "running", kind |-> req.kind, read |-> req.read,
            task |-> IF req.kind = "run" THEN req.task ELSE None,
            result |-> IF req.kind = "report" /\ w.node = "wait" THEN req.result ELSE None,
            w |-> w]]
      /\ checkpoint' = w
      /\ UNCHANGED <<db, reports, deaths, approved, ended, faults>>

-----------------------------------------------------------------------------
(***************************************************************************)
(* The nodes of the graph.  route_step changes nothing and is part of the  *)
(* edges.                                                                  *)
(***************************************************************************)
At(r, node) == request[r].pc = "running" /\ request[r].w.node = node

\* A node ends: the next one is where its edge leads, and a checkpoint is written.
Moves(r, w) ==
  /\ request' = [request EXCEPT ![r].w = w, ![r].result = None]
  /\ checkpoint' = w
  /\ UNCHANGED <<db, reports, deaths, approved, ended>>

Goes(r, w) == Moves(r, w) /\ UNCHANGED faults

MovesByPlan(r, w) ==
  /\ Moves(r, w)
  /\ faults' = faults \cup {f \in {"replanned"} : Others(r) # {}}

HasNextStep(w) == w.plan # None /\ w.next < Len(w.plan.steps)

RouteStep(w) == [w EXCEPT !.node = IF HasNextStep(w) THEN "step" ELSE "end"]

\* Mutant: one try too many.
CanRetryStepOnceMore(w) == w.failures <= MaxToolRetries + 1
CanRetryStep(w) == w.failures <= MaxToolRetries

AfterStep(w) ==
  IF w.task.status \in Terminal THEN [w EXCEPT !.node = "end"]
  ELSE IF w.error THEN [w EXCEPT !.node = IF CanRetryStep(w) THEN "step" ELSE "fail"]
  ELSE IF w.pending # {} THEN [w EXCEPT !.node = "wait"]
  ELSE RouteStep(w)

AfterResume(w) ==
  IF w.task.status \in Terminal THEN [w EXCEPT !.node = "end"]
  ELSE IF w.error THEN [w EXCEPT !.node = "fail"]
  ELSE IF w.replan THEN [w EXCEPT !.node = "replan"]
  ELSE IF w.retry # None THEN [w EXCEPT !.node = "retry_host_action"]
  ELSE IF w.pending # {} THEN [w EXCEPT !.node = "wait"]
  ELSE RouteStep(w)

Prepare(w, plan) ==
  [w EXCEPT !.plan = plan, !.next = 0, !.rounds = @ + 1, !.task.jobs = Append(@, w.rounds)]

Cleared(w) ==
  [w EXCEPT !.replan = FALSE, !.retry = None, !.error = FALSE, !.pending = {},
            !.failures = 0, !.task = NoActions(@)]

Plan(r, plan) ==
  /\ At(r, "plan")
  /\ MovesByPlan(r, RouteStep(Prepare(request[r].w, plan)))

Replan(r, plan) ==
  /\ At(r, "replan") /\ request[r].w.rounds < MaxRounds
  /\ MovesByPlan(r, RouteStep(Prepare(Cleared(request[r].w), plan)))

\* The types a document or a link takes an output of, if the plan has them too.
Source(type) ==
  CASE type = "create_document" -> "create_folder"
    [] type = "link_documents"  -> "create_document"
    [] OTHER                    -> None

\* Mutant: the ids of the actions do not tell the rounds apart.
FirstRound(w) == 0
RoundIndex(w) == w.rounds - 1

BuildActions(w) ==
  LET round == RoundIndex(w)
      types == w.plan.types
  IN  [i \in DOMAIN types |->
        [id |-> <<round, types[i]>>, attempts |-> 0, policy |-> w.plan.policy,
         status |-> IF w.plan.policy.confirm THEN "proposed" ELSE "ready",
         waitsFor |-> IF \E j \in DOMAIN types : types[j] = Source(types[i])
                      THEN <<round, Source(types[i])>> ELSE None]]

\* Mutant: the step is over, the index stays.
StaysAtStep(w) == [w EXCEPT !.failures = 0, !.error = FALSE]
NextStep(w) == [w EXCEPT !.next = @ + 1, !.failures = 0, !.error = FALSE]

StepDone(w) ==
  LET step == w.plan.steps[w.next + 1]
      done == NextStep(w)
  IN  CASE step = "work"    -> done
        [] step = "answer"  -> [done EXCEPT !.task.result = "answer"]
        [] step = "clarify" -> [done EXCEPT !.task.result = "clarification"]
        [] step = "plan_host_actions" ->
             MergeActions([done EXCEPT !.task.result = "action_plan"], BuildActions(w))

RunStep(r) ==
  /\ At(r, "step")
  /\ Goes(r, AfterStep(StepDone(request[r].w)))

StepFailed(w) == [w EXCEPT !.failures = @ + 1, !.error = TRUE]

StepRaises(r) ==
  /\ At(r, "step")
  /\ Goes(r, AfterStep(StepFailed(request[r].w)))

Fail(r) ==
  /\ At(r, "fail")
  /\ Goes(r, [request[r].w EXCEPT !.node = "end", !.task.status = "failed", !.task.current = None,
                                  !.pending = {}, !.replan = FALSE, !.retry = None])

WaitForHostAction(r) ==
  /\ At(r, "wait") /\ request[r].result # None
  /\ Goes(r, [request[r].w EXCEPT !.node = "resume", !.last = request[r].result])

ResumeFromActionResult(r) ==
  /\ At(r, "resume")
  /\ Goes(r, AfterResume(ApplyActionResult(request[r].w, request[r].w.last)))

RetryPending(r) ==
  /\ At(r, "retry_host_action")
  /\ Goes(r, [RetryHostAction(request[r].w) EXCEPT !.node = "wait"])

-----------------------------------------------------------------------------
(***************************************************************************)
(* Requests end.                                                           *)
(***************************************************************************)
Saves(r, task) ==
  /\ request' = [request EXCEPT ![r] = [pc |-> "save", kind |-> @.kind, read |-> @.read,
                                        task |-> task]]
  /\ UNCHANGED <<db, checkpoint, reports, deaths, approved, ended, faults>>

Ends(r, how) == request' = [request EXCEPT ![r] = Idle] /\ ended' = how

\* The thread has ended or waits for the host.
Return(r) ==
  LET req == request[r] IN
  /\ At(r, "end") \/ (At(r, "wait") /\ req.result = None)
  /\ Saves(r, IF req.kind = "run" THEN MarkResult(req.w.task) ELSE req.w.task)

\* The planner raises.  The checkpoint stays before the node.
PlanRaises(r) ==
  /\ At(r, "plan") \/ At(r, "replan")
  /\ IF request[r].kind = "run" THEN Saves(r, MarkFailed(request[r].task))
     ELSE /\ Ends(r, "raised")
          /\ UNCHANGED <<db, checkpoint, reports, deaths, approved, faults>>

Unchanged(r) == db = request[r].read

\* UNIQUE (task_id, round_index, position) on task_jobs: every plan has a job at
\* position 0, so no round may be in a task twice.
JobsUnique(task) == \A i, j \in DOMAIN task.jobs : task.jobs[i] = task.jobs[j] => i = j

Save(r) ==
  /\ request[r].pc = "save" /\ Unchanged(r) /\ JobsUnique(request[r].task)
  /\ db' = request[r].task
  /\ Ends(r, request[r].kind)
  /\ UNCHANGED <<checkpoint, reports, deaths, approved, faults>>

SaveConflicts(r) ==
  /\ request[r].pc = "save" /\ ~Unchanged(r)
  /\ Ends(r, "conflict")
  /\ faults' = faults \cup {"conflict"}
  /\ UNCHANGED <<db, checkpoint, reports, deaths, approved>>

SaveViolatesUnique(r) ==
  /\ request[r].pc = "save" /\ Unchanged(r) /\ ~JobsUnique(request[r].task)
  /\ Ends(r, "unique")
  /\ faults' = faults \cup {"unique"}
  /\ UNCHANGED <<db, checkpoint, reports, deaths, approved>>

\* The process of the request dies, or its connection to PostgreSQL does.
Dies(r) ==
  /\ request[r] # Idle /\ deaths < MaxDeaths
  /\ Ends(r, "died")
  /\ deaths' = deaths + 1 /\ faults' = faults \cup {"death"}
  /\ UNCHANGED <<db, checkpoint, reports, approved>>

-----------------------------------------------------------------------------
Begins(r) ==
  \/ CreateTask(r)
  \/ AppendInput(r)
  \/ /\ db # None
     /\ \/ \E i \in DOMAIN db.inputs : RemoveInput(r, i)
        \/ \E i \in DOMAIN db.actions, outcome \in Outcomes, output \in BOOLEAN :
             RecordActionResult(r, db.actions[i], outcome, output)

Works(r) ==
  \/ Invoke(r)
  \/ \E plan \in Plans : Plan(r, plan) \/ Replan(r, plan)
  \/ RunStep(r) \/ StepRaises(r) \/ Fail(r)
  \/ WaitForHostAction(r) \/ ResumeFromActionResult(r) \/ RetryPending(r)
  \/ Return(r) \/ PlanRaises(r)
  \/ Save(r) \/ SaveConflicts(r) \/ SaveViolatesUnique(r)

Init ==
  /\ db = None /\ checkpoint = None
  /\ request = [r \in Requests |-> Idle]
  /\ reports = 0 /\ deaths = 0
  /\ approved = {} /\ ended = "none" /\ faults = {}

Next == \E r \in Requests : Begins(r) \/ Works(r) \/ Dies(r)

Spec == Init /\ [][Next]_vars

\* A handler that lives goes on: the planner, the tools and the stores answer or
\* raise.  This is WF_vars(Works(r)), whose ENABLED is request[r] # Idle.
FairSpec ==
  Spec /\ \A r \in Requests : []<>(request[r] = Idle) \/ []<><<Works(r)>>_vars

-----------------------------------------------------------------------------
Ids == (0..MaxRounds - 1) \X UNION {{plan.types[i] : i \in DOMAIN plan.types} : plan \in Plans}

Action(Attempts) ==
  [id : Ids, status : Statuses, attempts : Attempts, waitsFor : Ids \cup {None},
   policy : {plan.policy : plan \in Plans}]

Task(Attempts) ==
  [status : TaskStatuses, inputs : Seq({"active", "removed"}), jobs : Seq(0..MaxRounds - 1),
   result : {"none", "answer", "clarification", "action_plan"},
   actions : Seq(Action(Attempts)), current : Ids \cup {None}]

Result == [action : Ids, outcome : Outcomes, output : BOOLEAN]

Nodes == {"plan", "step", "fail", "wait", "resume", "replan", "retry_host_action", "end"}

Workflow(Attempts) ==
  [node : Nodes, task : Task(Attempts), rounds : 0..MaxRounds, plan : Plans \cup {None}, next : Nat,
   pending : SUBSET Ids, replan : BOOLEAN, retry : Ids \cup {None},
   failures : 0..MaxToolRetries + 1, error : BOOLEAN, last : Result \cup {None}]

Request(Attempts) ==
  LET T == Task(Attempts) IN
  [pc : {"idle"}]
  \cup [pc : {"read"}, kind : {"run"}, read : T, task : T]
  \cup [pc : {"read"}, kind : {"report"}, read : T, result : Result]
  \cup [pc : {"running"}, kind : {"run", "report"}, read : T, task : T \cup {None},
        result : Result \cup {None}, w : Workflow(Attempts)]
  \cup [pc : {"save"}, kind : {"run", "report", "remove"}, read : T, task : T]

\* None is neither a task nor the state of a workflow.
ASSUME NoneAssumption == None \notin Task(Nat) /\ None \notin Workflow(Nat)

\* Types; among them: a step is tried MaxToolRetries + 1 times at most, and no
\* report is counted as two attempts.
TypeOK ==
  /\ db \in Task(0..MaxReports) \cup {None}
  /\ checkpoint \in Workflow(0..MaxReports) \cup {None}
  /\ request \in [Requests -> Request(0..MaxReports)]
  /\ reports \in 0..MaxReports /\ deaths \in 0..MaxDeaths
  /\ approved \subseteq Ids
  /\ ended \in {"none", "run", "report", "remove", "conflict", "unique", "raised", "died"}
  /\ faults \subseteq {"overlap", "replanned", "conflict", "unique", "death"}

\* What the host reads is one story: a task that waits for a decision or for an
\* execution names an action that is to be decided or executed, any other names
\* none, and a completed task has no open action.  Two places compute the status
\* (mark_result after a run, HostActionResultService after a result).
SavedStatusAgrees ==
  db # None =>
    LET CurrentIs(status) == \E i \in WithId(db.actions, db.current) : db.actions[i].status = status
    IN  /\ db.status = "awaiting_decision" => CurrentIs("proposed")
        /\ db.status = "ready_for_host_action" => CurrentIs("ready")
        /\ db.status \notin {"awaiting_decision", "ready_for_host_action"} => db.current = None
        /\ db.status = "completed" =>
              \A i \in DOMAIN db.actions : db.actions[i].status \in {"succeeded", "skipped"}

\* The host is never told to execute, and never recorded as having executed, an
\* action that needs a confirmation it has not given: not after deaths, retries,
\* conflicts, or reports that overlap.  Only a plan made beside another request is left
\* out: two plans of one round give their actions the same ids, and a report about an
\* action of the one is taken as one about an action of the other.
ExecutesOnlyApproved ==
  db # None /\ "replanned" \notin faults =>
    \A i \in DOMAIN db.actions :
      db.actions[i].policy.confirm /\ db.actions[i].status \in {"ready", "succeeded"}
        => db.actions[i].id \in approved

\* With requests one at a time, and whatever died before: once a run or a report
\* is saved, the saved actions are the ones the thread goes on with.
SavedMatchesCheckpoint ==
  /\ "overlap" \notin faults /\ ended \in {"run", "report"}
  /\ \A r \in Requests : request[r] = Idle
  => db.actions = checkpoint.task.actions

\* If nothing was disturbed, no action is tried more often than its policy allows.
AttemptsBounded ==
  db # None /\ faults = {} =>
    \A i \in DOMAIN db.actions : db.actions[i].attempts <= db.actions[i].policy.maxAttempts

Advances(old, new) ==
  \/ old = new
  \/ old = "proposed"
  \/ old = "ready" /\ new # "proposed"

KeepsDecisions ==
  db # None =>
    /\ \A i \in DOMAIN db.actions, j \in DOMAIN db'.actions :
         db.actions[i].id = db'.actions[j].id => Advances(db.actions[i].status, db'.actions[j].status)
    /\ db.status \in Terminal /\ db.inputs = db'.inputs => db'.status = db.status

\* What was saved is not taken back: a decided action is not proposed again, an
\* action that is over stays as it is, and a task that is over stays over unless
\* its inputs change.  This is said of requests that never overlapped: a report whose
\* save is to be refused has moved the thread already, and the next report starts there.
DecisionsKeptInTurn == [][("overlap" \notin faults) => KeepsDecisions]_db

\* README: an appended input is planned; removing one plans from those left.  The
\* database does not refuse a task that was planned.
InputsArePlanned == "unique" \notin faults

\* A request that does not die ends: tool retries, replans and waits do not loop.
EveryRequestEnds == \A r \in Requests : request[r] # Idle ~> request[r] = Idle
=============================================================================
