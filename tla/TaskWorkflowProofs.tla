------------------------- MODULE TaskWorkflowProofs -------------------------
(***************************************************************************)
(* Theorems about TaskWorkflow.  First what the operators of HostActions do*)
(* to the actions of a task: they are merged into a plan without changing  *)
(* their ids and policies, a result of the host changes the status of one  *)
(* of them, and the status the task is left with, and the action it names, *)
(* are read off the actions.  Then what holds of a thread after every node,*)
(* whoever ran it; then what holds of the task, its thread and the requests*)
(* together; then the properties, each from an invariant of its own on top *)
(* of that.                                                                *)
(***************************************************************************)
EXTENDS TaskWorkflow, SequencePlacesProofs

-----------------------------------------------------------------------------
(* Actions.                                                                *)

\* No action waits for a confirmation it does not need.
Confirmed(actions) ==
  \A i \in DOMAIN actions : actions[i].status = "proposed" => actions[i].policy.confirm

\* The same actions, with another status or other attempts.
SameActions(old, new) ==
  /\ DOMAIN new = DOMAIN old
  /\ \A i \in DOMAIN old : new[i].id = old[i].id /\ new[i].policy = old[i].policy

\* The first action that is open is the one to be asked for.
Asked(actions) ==
  LET open == WithStatus(actions, {"proposed", "ready"})
  IN  IF open = {} THEN {} ELSE {actions[Least(open)].id}

\* Writing an action keeps a sequence of actions.
LEMMA Rewritten ==
  ASSUME NEW X, NEW actions \in Seq(X), NEW i \in DOMAIN actions, NEW a \in X
  PROVE  /\ [actions EXCEPT ![i] = a] \in Seq(X)
         /\ DOMAIN [actions EXCEPT ![i] = a] = DOMAIN actions
         /\ [actions EXCEPT ![i] = a][i] = a
         /\ \A j \in DOMAIN actions : j # i => [actions EXCEPT ![i] = a][j] = actions[j]
  BY ExceptSeq

-----------------------------------------------------------------------------
\* The types of a workflow's fields.
LEMMA WorkflowFields ==
  ASSUME NEW w \in Workflow(Nat)
  PROVE  /\ w.task \in Task(Nat) /\ w.task.actions \in Seq(Action(Nat))
         /\ w.pending \in SUBSET Ids /\ w.retry \in Ids \cup {None}
         /\ w.task.status \in TaskStatuses
  BY DEF Workflow, Task

-----------------------------------------------------------------------------
(* ScheduleNext and MarkResult: where no action is proposed without need   *)
(* they change no action.                                                  *)

LEMMA ScheduleNextIs ==
  ASSUME NEW w \in Workflow(Nat), Confirmed(w.task.actions)
  PROVE  /\ ScheduleNext(w) = [w EXCEPT !.pending = Asked(w.task.actions)]
         /\ Asked(w.task.actions) \in SUBSET Ids
<1> DEFINE A == w.task.actions
           open == WithStatus(A, {"proposed", "ready"})
           i == Least(open)
<1>1. A \in Seq(Action(Nat)) /\ w.task \in Task(Nat)
  BY WorkflowFields
<1>2. CASE open = {}
  BY <1>2 DEF ScheduleNext, Asked
<1>3. CASE open # {}
  <2>1. open \subseteq DOMAIN A
    BY DEF WithStatus
  <2>2. i \in open /\ i \in DOMAIN A /\ A[i] \in Action(Nat)
    BY <1>1, <1>3, <2>1, AllPlaces
  <2>3. i \notin Unconfirmed(A)
    BY <2>2 DEF Unconfirmed, WithStatus, Confirmed
  <2> DEFINE a == [A[i] EXCEPT !.status = A[i].status]
             B == [A EXCEPT ![i] = a]
             t == [w.task EXCEPT !.actions = B]
  <2>4. a = A[i]
    BY <2>2 DEF Action
  <2> HIDE DEF a
  <2>5. B = A
    <3>1. [A EXCEPT ![i] = A[i]] = A
      BY <1>1, <2>2
    <3> QED BY <2>4, <3>1
  <2> HIDE DEF B
  <2>6. t = w.task
    BY <1>1, <2>5 DEF Task
  <2> HIDE DEF t
  <2>7. [w EXCEPT !.pending = {A[i].id}, !.task = t] = [w EXCEPT !.pending = {A[i].id}]
    BY <2>6 DEF Workflow
  <2>8. ScheduleNext(w) = [w EXCEPT !.pending = {A[i].id}, !.task = t]
    BY <1>3, <2>3 DEF ScheduleNext, t, B, a
  <2>9. A[i].id \in Ids
    BY <2>2 DEF Action
  <2> QED BY <1>3, <2>7, <2>8, <2>9 DEF Asked
<1> QED BY <1>2, <1>3

\* What a task tells the host is one story: see SavedStatusAgrees.
Story(task) ==
  LET CurrentIs(status) ==
        \E i \in WithId(task.actions, task.current) : task.actions[i].status = status
  IN  /\ task.status = "awaiting_decision" => CurrentIs("proposed")
      /\ task.status = "ready_for_host_action" => CurrentIs("ready")
      /\ task.status \notin {"awaiting_decision", "ready_for_host_action"} => task.current = None
      /\ task.status = "completed" =>
            \A i \in DOMAIN task.actions : task.actions[i].status \in {"succeeded", "skipped"}

LEMMA MarkResultIs ==
  ASSUME NEW task \in Task(Nat), Confirmed(task.actions),
         task.status \in Terminal => Story(task)
  PROVE  LET marked == MarkResult(task) IN
         /\ marked \in Task(Nat) /\ Story(marked)
         /\ marked.actions = task.actions /\ marked.jobs = task.jobs /\ marked.inputs = task.inputs
         /\ marked.status \in Terminal =>
              \/ marked.status = task.status
              \/ \A i \in DOMAIN task.actions : task.actions[i].status \notin {"proposed", "ready"}
              \/ marked.status = "failed" /\ \E i \in DOMAIN task.actions : task.actions[i].status = "failed"
<1> DEFINE A == task.actions
           proposed == WithStatus(A, {"proposed"})
           stops == Stops(A)
           i == Least(stops)
           p == Least(proposed)
           Closed(status) == [task EXCEPT !.status = status, !.current = None]
<1>1. A \in Seq(Action(Nat)) /\ DOMAIN task = {"status", "inputs", "jobs", "result", "actions", "current"}
  BY DEF Task
<1>2. \A j \in DOMAIN A : A[j].status \in Statuses /\ A[j].id \in Ids
  <2>1. \A j \in DOMAIN A : A[j] \in Action(Nat)
    BY <1>1
  <2> QED BY <2>1 DEF Action
<1>3. stops = WithStatus(A, {"failed", "ready"})
  BY DEF Confirmed, Stops, Unconfirmed, WithStatus
<1>4. stops # {} => i \in stops
  <2>1. stops \subseteq DOMAIN A
    BY <1>3 DEF WithStatus
  <2> HIDE DEF stops
  <2> QED BY <1>1, <2>1, AllPlaces
<1>5. proposed # {} => p \in proposed
  <2>1. proposed \subseteq DOMAIN A
    BY DEF WithStatus
  <2> HIDE DEF proposed
  <2> QED BY <1>1, <2>1, AllPlaces
<1>6. ASSUME NEW s \in TaskStatuses \ {"awaiting_decision", "ready_for_host_action"},
             s = "completed" => \A j \in DOMAIN A : A[j].status \in {"succeeded", "skipped"}
      PROVE  /\ Closed(s) \in Task(Nat) /\ Story(Closed(s)) /\ Closed(s).actions = A
             /\ Closed(s).jobs = task.jobs /\ Closed(s).inputs = task.inputs /\ Closed(s).status = s
  BY <1>6 DEF Task, Story
<1>7. CASE task.status \in Terminal
  BY <1>7 DEF MarkResult
<1>8. CASE task.status \notin Terminal /\ task.result = "clarification"
  <2>1. MarkResult(task) = Closed("clarification_required")
    BY <1>8 DEF MarkResult
  <2> HIDE DEF Closed
  <2> QED BY <1>6, <2>1 DEF TaskStatuses, Terminal
<1>9. CASE task.status \notin Terminal /\ task.result # "clarification" /\ stops # {} /\ A[i].status = "failed"
  <2>1. MarkResult(task) = Closed("failed")
    BY <1>9 DEF MarkResult
  <2>2. i \in DOMAIN A
    BY <1>3, <1>4, <1>9 DEF WithStatus
  <2> HIDE DEF Closed, i
  <2> QED BY <1>6, <1>9, <2>1, <2>2 DEF TaskStatuses, Terminal
<1>10. CASE task.status \notin Terminal /\ task.result # "clarification" /\ stops # {} /\ A[i].status # "failed"
  <2>1. i \in DOMAIN A /\ A[i].status = "ready"
    BY <1>3, <1>4, <1>10 DEF WithStatus
  <2> DEFINE a == [A[i] EXCEPT !.status = "ready"]
             B == [A EXCEPT ![i] = a]
  <2>2. MarkResult(task) = [task EXCEPT !.actions = B, !.current = A[i].id, !.status = "ready_for_host_action"]
    BY <1>10 DEF MarkResult
  <2>3. a = A[i]
    <3>1. A[i] \in Action(Nat)
      BY <1>1, <2>1
    <3> QED BY <2>1, <3>1 DEF Action
  <2> HIDE DEF a
  <2>4. B = A
    <3>1. [A EXCEPT ![i] = A[i]] = A
      BY <1>1, <2>1
    <3> QED BY <2>3, <3>1
  <2> HIDE DEF B, i
  <2>5. MarkResult(task) = [task EXCEPT !.actions = A, !.current = A[i].id, !.status = "ready_for_host_action"]
    BY <2>2, <2>4
  <2> DEFINE m == MarkResult(task)
  <2>6. /\ m \in Task(Nat) /\ m.actions = A /\ m.jobs = task.jobs /\ m.inputs = task.inputs
        /\ m.status = "ready_for_host_action" /\ m.current = A[i].id
    BY <1>2, <2>1, <2>5 DEF Task, TaskStatuses
  <2> HIDE DEF m
  <2>7. Story(m)
    BY <2>1, <2>6 DEF Story, WithId
  <2> QED BY <2>6, <2>7 DEF Terminal, m
<1>11. CASE task.status \notin Terminal /\ task.result # "clarification" /\ stops = {} /\ proposed # {}
  <2>1. p \in DOMAIN A /\ A[p].status = "proposed"
    BY <1>5, <1>11 DEF WithStatus
  <2> DEFINE m == MarkResult(task)
  <2>2. m = [task EXCEPT !.status = "awaiting_decision", !.current = A[p].id]
    BY <1>11 DEF MarkResult
  <2> HIDE DEF p
  <2>3. /\ m \in Task(Nat) /\ m.actions = A /\ m.jobs = task.jobs /\ m.inputs = task.inputs
        /\ m.status = "awaiting_decision" /\ m.current = A[p].id
    BY <1>2, <2>1, <2>2 DEF Task, TaskStatuses
  <2> HIDE DEF m
  <2>4. Story(m)
    BY <2>1, <2>3 DEF Story, WithId
  <2> QED BY <2>3, <2>4 DEF Terminal, m
<1>12. CASE task.status \notin Terminal /\ task.result # "clarification" /\ stops = {} /\ proposed = {}
  <2>1. MarkResult(task) = Closed("completed")
    BY <1>12 DEF MarkResult
  <2>2. \A j \in DOMAIN A : A[j].status \in {"succeeded", "skipped"}
    BY <1>2, <1>3, <1>12 DEF WithStatus, Statuses
  <2> HIDE DEF Closed
  <2> QED BY <1>6, <2>1, <2>2 DEF TaskStatuses, Terminal
<1> QED BY <1>7, <1>8, <1>9, <1>10, <1>11, <1>12

LEMMA MarkFailedIs ==
  ASSUME NEW task \in Task(Nat)
  PROVE  LET marked == MarkFailed(task) IN
         /\ marked \in Task(Nat) /\ Story(marked)
         /\ marked.status = "failed" /\ marked.jobs = task.jobs /\ marked.inputs = task.inputs
         /\ SameActions(task.actions, marked.actions)
<1> DEFINE A == task.actions
           Shut(a) == [a EXCEPT !.status = IF @ \in {"proposed", "ready"} THEN "failed" ELSE @]
           B == [j \in DOMAIN A |-> Shut(A[j])]
<1>1. A \in Seq(Action(Nat)) /\ DOMAIN A = 1..Len(A) /\ Len(A) \in Nat
  BY DEF Task
<1>2. \A a \in Action(Nat) : Shut(a) \in Action(Nat) /\ Shut(a).id = a.id /\ Shut(a).policy = a.policy
  BY DEF Action, Statuses
<1> HIDE DEF Shut
<1>3. \A j \in DOMAIN A : A[j] \in Action(Nat)
  BY <1>1
<1>4. B \in Seq(Action(Nat)) /\ DOMAIN B = DOMAIN A /\ \A j \in DOMAIN A : B[j] = Shut(A[j])
  <2>1. B \in [1..Len(A) -> Action(Nat)]
    BY <1>1, <1>2, <1>3
  <2> QED BY <1>1, <2>1
<1>5. SameActions(A, B)
  BY <1>2, <1>3, <1>4 DEF SameActions
<1>6. MarkFailed(task) = [task EXCEPT !.status = "failed", !.current = None, !.actions = B]
  BY DEF MarkFailed, Shut
<1> HIDE DEF B
<1> QED BY <1>4, <1>5, <1>6 DEF Task, TaskStatuses, Story

-----------------------------------------------------------------------------
(* A result of the host.                                                   *)

\* Outcomes that count as an attempt.
Tries == {"succeeded", "failed", "retry"}

\* What a result makes of its action.
LEMMA AttemptedIs ==
  ASSUME NEW a \in Action(Nat), NEW outcome \in Outcomes
  PROVE  LET b == Attempted(a, outcome) IN
         /\ b \in Action(Nat) /\ b.id = a.id /\ b.policy = a.policy /\ b.waitsFor = a.waitsFor
         /\ b.attempts = IF outcome \in Tries THEN a.attempts + 1 ELSE a.attempts
         /\ b.status # "proposed"
         /\ b.status = "ready" <=> Schedules(b, outcome)
         /\ b.status = "ready" => outcome \in {"approved", "failed", "retry"}
         /\ b.status = "ready" /\ outcome # "approved" => b.attempts < b.policy.maxAttempts
         /\ b.status = "succeeded" => outcome = "succeeded"
<1> DEFINE c == [a EXCEPT !.attempts = IF outcome \in Tries THEN @ + 1 ELSE @]
<1>1. /\ c \in Action(Nat) /\ c.id = a.id /\ c.policy = a.policy /\ c.waitsFor = a.waitsFor
      /\ c.attempts = IF outcome \in Tries THEN a.attempts + 1 ELSE a.attempts
  BY DEF Action
<1>2. Attempted(a, outcome) = [c EXCEPT !.status = StatusFor(c, outcome)]
  BY DEF Attempted, Tries
<1> HIDE DEF c
<1>3. StatusFor(c, outcome) \in Statuses \ {"proposed"}
  BY DEF StatusFor, Statuses, Outcomes
<1> DEFINE b == Attempted(a, outcome)
<1>4. /\ b \in Action(Nat) /\ b.id = c.id /\ b.policy = c.policy /\ b.waitsFor = c.waitsFor
      /\ b.attempts = c.attempts /\ b.status = StatusFor(c, outcome)
  BY <1>1, <1>2, <1>3 DEF Action
<1> HIDE DEF b
<1>5. CanRetry(b, outcome) <=> CanRetry(c, outcome)
  BY <1>4 DEF CanRetry
<1>6. b.status = "ready" <=> Schedules(b, outcome)
  BY <1>4, <1>5 DEF StatusFor, Schedules, Outcomes
<1>7. b.status = "ready" => outcome \in {"approved", "failed", "retry"}
  BY <1>6 DEF Schedules
<1>8. b.status = "ready" /\ outcome # "approved" => b.attempts < b.policy.maxAttempts
  BY <1>6, <1>7 DEF Schedules, CanRetry
<1>9. b.status = "succeeded" => outcome = "succeeded"
  BY <1>4 DEF StatusFor, Outcomes
<1> QED BY <1>1, <1>3, <1>4, <1>6, <1>7, <1>8, <1>9 DEF b

\* A result changes one action: new is old but for the action at i and for outputs given.
Took(old, new, i, outcome) ==
  LET b == Attempted(old[i], outcome) IN
  /\ new \in Seq(Action(Nat)) /\ SameActions(old, new)
  /\ \A j \in DOMAIN old \ {i} : new[j].status = old[j].status /\ new[j].attempts = old[j].attempts
  /\ new[i].attempts = b.attempts
  /\ \/ new[i].status = b.status
     \/ new[i].status = "failed" /\ outcome = "succeeded"

LEMMA GiveOutputIs ==
  ASSUME NEW old \in Seq(Action(Nat)), NEW i \in DOMAIN old, NEW result \in Result
  PROVE  LET a == Attempted(old[i], result.outcome)
         IN  Took(old, GiveOutput([old EXCEPT ![i] = a], i, result), i, result.outcome)
<1> DEFINE a == Attempted(old[i], result.outcome)
           mid == [old EXCEPT ![i] = a]
           new == GiveOutput(mid, i, result)
           waiting == {j \in DOMAIN mid : j > i /\ mid[j].waitsFor = mid[i].id}
           Given(j) == [mid[j] EXCEPT !.waitsFor = IF j \in waiting THEN None ELSE @]
<1>1. old[i] \in Action(Nat) /\ result.outcome \in Outcomes
  BY DEF Result
<1>2. a \in Action(Nat) /\ a.id = old[i].id /\ a.policy = old[i].policy
  BY <1>1, AttemptedIs
<1> HIDE DEF a
<1>3. /\ mid \in Seq(Action(Nat)) /\ DOMAIN mid = DOMAIN old /\ mid[i] = a
      /\ \A j \in DOMAIN old : j # i => mid[j] = old[j]
  BY <1>2, Rewritten
<1> HIDE DEF mid
<1>4. Took(old, mid, i, result.outcome)
  BY <1>2, <1>3 DEF Took, SameActions, a
<1>5. CASE result.outcome # "succeeded" \/ waiting = {}
  BY <1>4, <1>5 DEF GiveOutput, mid, a
<1>6. CASE result.outcome = "succeeded" /\ waiting # {} /\ result.output
  <2>1. new = [j \in DOMAIN mid |-> Given(j)]
    BY <1>6 DEF GiveOutput
  <2>2. \A j \in DOMAIN mid : /\ Given(j) \in Action(Nat) /\ Given(j).id = mid[j].id
                              /\ Given(j).policy = mid[j].policy /\ Given(j).status = mid[j].status
                              /\ Given(j).attempts = mid[j].attempts
    <3> TAKE j \in DOMAIN mid
    <3>1. mid[j] \in Action(Nat)
      BY <1>3
    <3> QED BY <3>1 DEF Action
  <2> HIDE DEF Given
  <2>3. new \in Seq(Action(Nat)) /\ DOMAIN new = DOMAIN mid /\ \A j \in DOMAIN mid : new[j] = Given(j)
    <3>1. DOMAIN mid = 1..Len(mid) /\ Len(mid) \in Nat
      BY <1>3
    <3>2. new \in [1..Len(mid) -> Action(Nat)]
      BY <2>1, <2>2, <3>1
    <3>3. \A j \in DOMAIN mid : new[j] = Given(j)
      BY <2>1
    <3> QED BY <3>1, <3>2, <3>3
  <2> HIDE DEF new
  <2>4. Took(old, new, i, result.outcome)
    BY <1>3, <1>4, <2>2, <2>3 DEF Took, SameActions
  <2> QED BY <2>4 DEF new, mid, a
<1>7. CASE result.outcome = "succeeded" /\ waiting # {} /\ ~result.output
  <2> DEFINE f == [mid[i] EXCEPT !.status = "failed"]
  <2>1. new = [mid EXCEPT ![i] = f]
    BY <1>7 DEF GiveOutput
  <2>2. f \in Action(Nat) /\ f.id = a.id /\ f.policy = a.policy /\ f.attempts = a.attempts /\ f.status = "failed"
    BY <1>2, <1>3 DEF Action, Statuses
  <2> HIDE DEF f
  <2>3. /\ new \in Seq(Action(Nat)) /\ DOMAIN new = DOMAIN mid /\ new[i] = f
        /\ \A j \in DOMAIN mid : j # i => new[j] = mid[j]
    BY <1>3, <2>1, <2>2, Rewritten
  <2> HIDE DEF new
  <2>4. Took(old, new, i, result.outcome)
    BY <1>2, <1>3, <1>7, <2>2, <2>3 DEF Took, SameActions, a
  <2> QED BY <2>4 DEF new, mid, a
<1> QED BY <1>5, <1>6, <1>7

\* What a result leaves of a workflow and its task.
KeepsRun(w, v) ==
  /\ v.node = w.node /\ v.rounds = w.rounds /\ v.plan = w.plan /\ v.next = w.next
  /\ v.failures = w.failures /\ v.last = w.last
  /\ v.task.jobs = w.task.jobs /\ v.task.inputs = w.task.inputs /\ v.task.result = w.task.result

\* The action a result is about has changed, if the workflow has it.
Taken(w, v, result) ==
  LET old == w.task.actions
      new == v.task.actions
      own == WithId(old, result.action)
      i   == Least(own)
  IN  /\ own = {} => new = old /\ ~v.replan /\ v.retry = None
      /\ own # {} => /\ i \in own /\ Took(old, new, i, result.outcome)
                     /\ v.replan = (result.outcome = "modified")
                     /\ v.retry # None => /\ v.retry = result.action /\ new[i].status = "ready"
                                          /\ result.outcome \in {"approved", "failed", "retry"}

LEMMA TakeResultIs ==
  ASSUME NEW w \in Workflow(Nat), NEW result \in Result
  PROVE  LET v == TakeResult(w, result) IN
         /\ v \in Workflow(Nat) /\ KeepsRun(w, v) /\ ~v.error /\ Taken(w, v, result)
<1> DEFINE A == w.task.actions
           own == WithId(A, result.action)
           i == Least(own)
           a == Attempted(A[i], result.outcome)
           cleared == [w EXCEPT !.replan = FALSE, !.retry = None, !.error = FALSE]
           v == TakeResult(w, result)
<1>1. A \in Seq(Action(Nat)) /\ w.task \in Task(Nat)
  BY WorkflowFields
<1>2. CASE own = {}
  <2>1. v = cleared
    BY <1>2 DEF TakeResult
  <2> QED BY <1>2, <2>1 DEF Workflow, KeepsRun, Taken
<1>3. CASE own # {}
  <2>1. own \subseteq DOMAIN A
    BY DEF WithId
  <2>2. i \in own /\ i \in DOMAIN A /\ A[i] \in Action(Nat) /\ A[i].id = result.action
    <3>1. i \in own
      <4> HIDE DEF own
      <4> QED BY <1>1, <1>3, <2>1, AllPlaces
    <3> HIDE DEF i
    <3>2. i \in DOMAIN A /\ A[i].id = result.action
      BY <3>1 DEF WithId
    <3> QED BY <1>1, <3>1, <3>2
  <2>3. /\ a.id = result.action /\ a.status # "proposed"
        /\ Schedules(a, result.outcome) =>
             a.status = "ready" /\ result.outcome \in {"approved", "failed", "retry"}
    BY <2>2, AttemptedIs DEF Result
  <2> DEFINE mid == [A EXCEPT ![i] = a]
             B == GiveOutput(mid, i, result)
             retry == IF Schedules(a, result.outcome) THEN a.id ELSE None
             replan == result.outcome = "modified"
             task == [w.task EXCEPT !.actions = B, !.current = a.id]
  <2>4. Took(A, B, i, result.outcome)
    BY <1>1, <2>2, GiveOutputIs
  <2>5. v = [cleared EXCEPT !.task = task, !.replan = replan, !.retry = retry]
    BY <1>3 DEF TakeResult
  <2>6. B \in Seq(Action(Nat)) /\ a.id \in Ids
    BY <2>3, <2>4 DEF Took, Result
  <2>7. Schedules(a, result.outcome) => B[i].status = "ready"
    BY <2>3, <2>4 DEF Took
  <2> HIDE DEF B, a, own, i
  <2>8. task \in Task(Nat) /\ task.actions = B /\ task.current = a.id /\ task.jobs = w.task.jobs
        /\ task.inputs = w.task.inputs /\ task.result = w.task.result
    BY <1>1, <2>6 DEF Task
  <2> HIDE DEF task
  <2>9. retry \in Ids \cup {None} /\ replan \in BOOLEAN
    BY <2>6
  <2> HIDE DEF retry, replan
  <2>10. /\ v \in Workflow(Nat) /\ v.task = task /\ v.replan = replan /\ v.retry = retry /\ ~v.error
         /\ v.node = w.node /\ v.rounds = w.rounds /\ v.plan = w.plan /\ v.next = w.next
         /\ v.failures = w.failures /\ v.last = w.last
    BY <2>5, <2>8, <2>9 DEF Workflow
  <2> HIDE DEF v
  <2>11. KeepsRun(w, v)
    BY <2>8, <2>10 DEF KeepsRun
  <2>12. v.retry # None => /\ v.retry = result.action /\ B[i].status = "ready"
                           /\ result.outcome \in {"approved", "failed", "retry"}
    BY <2>3, <2>7, <2>10 DEF retry
  <2>13. Taken(w, v, result)
    BY <1>3, <2>2, <2>4, <2>8, <2>10, <2>12 DEF Taken, own, i, replan
  <2> QED BY <2>10, <2>11, <2>13 DEF v
<1> QED BY <1>2, <1>3

\* The status of the task once the pending action is the first open one.
LEMMA ApplyTaskStatusIs ==
  ASSUME NEW w \in Workflow(Nat), NEW outcome \in Outcomes,
         w.task.actions # <<>>, w.pending = Asked(w.task.actions)
  PROVE  LET v == ApplyTaskStatus(w, outcome) IN
         /\ v \in Workflow(Nat) /\ KeepsRun(w, v)
         /\ v.task.actions = w.task.actions
         /\ v.replan = w.replan /\ v.retry = w.retry /\ v.error = w.error
         /\ w.replan => v.task.status = "clarification_required"
         /\ v.task.status \notin Terminal /\ ~w.replan => v.pending = w.pending /\ v.pending # {}
         /\ w.retry = None \/ v.task.status \in Terminal \/ w.replan => Story(v.task)
<1> DEFINE A == w.task.actions
           open == WithStatus(A, {"proposed", "ready"})
           k == Least(open)
           proposed == WithStatus(A, {"proposed"})
           ready == {j \in WithStatus(A, {"ready"}) : A[j].id \in w.pending}
           asked == {j \in proposed : A[j].id \in w.pending}
           first == Least(IF asked # {} THEN asked ELSE proposed)
           v == ApplyTaskStatus(w, outcome)
           Closes(s) == [w EXCEPT !.pending = {}, !.task.current = None, !.task.status = s]
           Shows(s, id) == [w EXCEPT !.task.status = s, !.task.current = id]
           Goal(x) == /\ x \in Workflow(Nat) /\ KeepsRun(w, x) /\ x.task.actions = A
                      /\ x.replan = w.replan /\ x.retry = w.retry /\ x.error = w.error
<1>1. A \in Seq(Action(Nat)) /\ w.task \in Task(Nat)
  BY WorkflowFields
<1>2. /\ DOMAIN A \in SUBSET Nat /\ DOMAIN A # {}
      /\ \A j \in DOMAIN A : A[j].status \in Statuses /\ A[j].id \in Ids
  <2>1. \A j \in DOMAIN A : A[j] \in Action(Nat)
    BY <1>1
  <2>2. DOMAIN A = 1..Len(A) /\ Len(A) \in Nat /\ Len(A) # 0
    BY <1>1
  <2>3. DOMAIN A \in SUBSET Nat /\ 1 \in DOMAIN A
    <3> HIDE DEF A
    <3> QED BY <2>2
  <2>4. \A j \in DOMAIN A : A[j].status \in Statuses /\ A[j].id \in Ids
    BY <2>1 DEF Action
  <2> QED BY <2>3, <2>4
<1>3. open # {} => k \in open /\ w.pending = {A[k].id}
  <2>1. open \subseteq DOMAIN A
    BY DEF WithStatus
  <2>2. open # {} => k \in open
    <3> HIDE DEF open
    <3> QED BY <1>1, <2>1, AllPlaces
  <2>3. open # {} => w.pending = {A[k].id}
    BY DEF Asked
  <2> QED BY <2>2, <2>3
<1>4. ASSUME NEW s \in TaskStatuses \ {"awaiting_decision", "ready_for_host_action"}
      PROVE  /\ Goal(Closes(s)) /\ Closes(s).task.status = s /\ Closes(s).pending = {}
             /\ s # "completed" => Story(Closes(s).task)
  <2> DEFINE t == [w.task EXCEPT !.current = None, !.status = s]
  <2>1. /\ t \in Task(Nat) /\ t.actions = A /\ t.status = s /\ t.current = None
        /\ t.jobs = w.task.jobs /\ t.inputs = w.task.inputs /\ t.result = w.task.result
    BY <1>1 DEF Task
  <2>2. s # "completed" => Story(t)
    BY <1>4, <2>1 DEF Story
  <2>3. Closes(s) = [w EXCEPT !.pending = {}, !.task = t]
    OBVIOUS
  <2> HIDE DEF t
  <2> QED BY <2>1, <2>2, <2>3 DEF Workflow, KeepsRun
<1>5. ASSUME NEW s \in TaskStatuses, NEW id \in Ids \cup {None}
      PROVE  /\ Goal(Shows(s, id)) /\ Shows(s, id).task.status = s /\ Shows(s, id).task.current = id
             /\ Shows(s, id).pending = w.pending
  <2> DEFINE t == [w.task EXCEPT !.status = s, !.current = id]
  <2>1. /\ t \in Task(Nat) /\ t.actions = A /\ t.status = s /\ t.current = id
        /\ t.jobs = w.task.jobs /\ t.inputs = w.task.inputs /\ t.result = w.task.result
    BY <1>1 DEF Task
  <2>2. Shows(s, id) = [w EXCEPT !.task = t]
    OBVIOUS
  <2> HIDE DEF t
  <2> QED BY <2>1, <2>2 DEF Workflow, KeepsRun
<1> HIDE DEF Closes, Shows
<1>6. CASE w.replan
  <2>1. v = Closes("clarification_required")
    BY <1>6 DEF ApplyTaskStatus, Closes
  <2>2. Goal(v) /\ v.task.status = "clarification_required" /\ Story(v.task)
    BY <1>4, <2>1 DEF TaskStatuses
  <2> HIDE DEF v
  <2> QED BY <1>6, <2>2 DEF Terminal, v
<1>7. CASE ~w.replan /\ outcome = "rejected"
  <2>1. v = Closes("rejected")
    BY <1>7 DEF ApplyTaskStatus, Closes
  <2> QED BY <1>4, <1>7, <2>1 DEF TaskStatuses, Terminal
<1>8. CASE ~w.replan /\ outcome # "rejected" /\ WithStatus(A, {"failed"}) # {}
  <2>1. v = Closes("failed")
    BY <1>8 DEF ApplyTaskStatus, Closes
  <2> QED BY <1>4, <1>8, <2>1 DEF TaskStatuses, Terminal
<1> DEFINE Going == ~w.replan /\ outcome # "rejected" /\ WithStatus(A, {"failed"}) = {}
           over == \A j \in DOMAIN A : Completed(A[j].status)
<1>9. CASE Going /\ over
  <2>1. v = Shows("completed", None)
    BY <1>9 DEF ApplyTaskStatus, Shows
  <2>2. /\ Goal(v) /\ v.task.status = "completed" /\ v.task.current = None
    BY <1>5, <2>1 DEF TaskStatuses
  <2> HIDE DEF v
  <2>3. Story(v.task)
    BY <1>9, <2>2 DEF Story, Completed
  <2> QED BY <1>9, <2>2, <2>3 DEF Terminal, v
<1>10. Going /\ ~over => open # {}
  BY <1>2 DEF WithStatus, Statuses, Completed
<1>11. CASE Going /\ ~over /\ ready # {}
  <2> DEFINE j == Least(ready)
  <2>1. j \in ready
    <3>1. ready \subseteq DOMAIN A
      BY DEF WithStatus
    <3> HIDE DEF ready
    <3> QED BY <1>1, <1>11, <3>1, AllPlaces
  <2>2. j \in DOMAIN A /\ A[j].status = "ready"
    <3> HIDE DEF j
    <3> QED BY <2>1 DEF WithStatus
  <2>3. v = Shows("ready_for_host_action", A[j].id)
    BY <1>11 DEF ApplyTaskStatus, Shows
  <2> HIDE DEF j
  <2>4. /\ Goal(v) /\ v.task.status = "ready_for_host_action" /\ v.task.current = A[j].id
        /\ v.pending = w.pending
    BY <1>2, <1>5, <2>2, <2>3 DEF TaskStatuses
  <2> HIDE DEF v
  <2>5. Story(v.task)
    BY <2>2, <2>4 DEF Story, WithId
  <2>6. w.pending # {}
    <3> HIDE DEF open, k, ready
    <3> QED BY <1>3, <1>10, <1>11
  <2>7. ~w.replan
    BY <1>11
  <2> QED BY <2>4, <2>5, <2>6, <2>7 DEF Terminal, v
<1>12. CASE Going /\ ~over /\ ready = {} /\ w.retry # None
  <2>1. v = [w EXCEPT !.task.status = "ready_for_host_action", !.task.current = w.task.current]
    BY <1>12 DEF ApplyTaskStatus
  <2>2. v = Shows("ready_for_host_action", w.task.current)
    BY <2>1 DEF Shows
  <2>3. w.task.current \in Ids \cup {None}
    BY <1>1 DEF Task
  <2>4. Goal(v) /\ v.task.status = "ready_for_host_action" /\ v.pending = w.pending
    BY <1>5, <2>2, <2>3 DEF TaskStatuses
  <2> HIDE DEF v
  <2> QED BY <1>3, <1>10, <1>12, <2>4 DEF Terminal, v
<1>13. CASE Going /\ ~over /\ ready = {} /\ w.retry = None
  <2>1. k \in open /\ w.pending = {A[k].id}
    BY <1>3, <1>10, <1>13
  <2>2. k \in DOMAIN A /\ A[k].status = "proposed"
    <3> HIDE DEF k
    <3> QED BY <1>13, <2>1 DEF WithStatus
  <2>3. k \in asked
    <3> HIDE DEF k
    <3> QED BY <2>1, <2>2 DEF WithStatus
  <2>4. first \in DOMAIN A /\ A[first].status = "proposed"
    <3>1. asked \subseteq DOMAIN A /\ asked # {}
      BY <2>3 DEF WithStatus
    <3>2. first = Least(asked)
      BY <3>1
    <3>3. first \in asked
      <4> HIDE DEF asked
      <4> QED BY <1>1, <3>1, <3>2, AllPlaces
    <3> HIDE DEF first
    <3> QED BY <3>3 DEF WithStatus
  <2>5. proposed # {}
    BY <2>3
  <2>6. v = Shows("awaiting_decision", A[first].id)
    BY <1>13, <2>5 DEF ApplyTaskStatus, Shows
  <2> HIDE DEF first
  <2>7. /\ Goal(v) /\ v.task.status = "awaiting_decision" /\ v.task.current = A[first].id
        /\ v.pending = w.pending
    BY <1>2, <1>5, <2>4, <2>6 DEF TaskStatuses
  <2> HIDE DEF v
  <2>8. Story(v.task)
    BY <2>4, <2>7 DEF Story, WithId
  <2> QED BY <1>13, <2>1, <2>7, <2>8 DEF Terminal, v
<1> QED BY <1>6, <1>7, <1>8, <1>9, <1>11, <1>12, <1>13

\* A result, as a whole: the action it is about has changed, no other; the thread goes
\* on to another action, tries this one again, plans again, or the task is over.
LEMMA ApplyActionResultIs ==
  ASSUME NEW w \in Workflow(Nat), NEW result \in Result,
         w.task.actions # <<>>, Confirmed(w.task.actions)
  PROVE  LET v == ApplyActionResult(w, result) IN
         /\ v \in Workflow(Nat) /\ KeepsRun(w, v) /\ ~v.error /\ Taken(w, v, result)
         /\ v.task.actions # <<>> /\ SameActions(w.task.actions, v.task.actions)
         /\ Confirmed(v.task.actions)
         /\ v.replan => v.task.status = "clarification_required"
         /\ v.task.status \notin Terminal /\ ~v.replan => v.pending # {}
         /\ v.retry = None \/ v.task.status \in Terminal \/ v.replan => Story(v.task)
<1> DEFINE u == TakeResult(w, result)
           A == w.task.actions
           B == u.task.actions
           p == ScheduleNext(u)
           current == IF p.pending = {} THEN p.task.current ELSE CHOOSE id \in p.pending : TRUE
           q == [p EXCEPT !.task.current = current]
           v == ApplyActionResult(w, result)
<1>1. u \in Workflow(Nat) /\ KeepsRun(w, u) /\ ~u.error /\ Taken(w, u, result)
  BY TakeResultIs
<1> HIDE DEF u
<1>2. A \in Seq(Action(Nat)) /\ B \in Seq(Action(Nat)) /\ u.task \in Task(Nat)
  BY <1>1, WorkflowFields
<1>3. result.outcome \in Outcomes
  BY DEF Result
<1>4. SameActions(A, B)
  BY <1>1 DEF Taken, Took, SameActions
<1>5. B # <<>>
  <2>1. Len(A) \in Nat /\ Len(B) \in Nat /\ DOMAIN A = 1..Len(A) /\ DOMAIN B = 1..Len(B) /\ Len(A) # 0
    BY <1>2
  <2>2. 1 \in DOMAIN B
    <3> HIDE DEF A, B
    <3> QED BY <1>4, <2>1 DEF SameActions
  <2> QED BY <2>1, <2>2
<1>6. Confirmed(B)
  <2> DEFINE own == WithId(A, result.action)
             i == Least(own)
  <2>1. CASE own = {}
    BY <1>1, <2>1 DEF Taken
  <2>2. CASE own # {}
    <3>1. i \in DOMAIN A /\ Took(A, B, i, result.outcome)
      <4>1. i \in own /\ Took(A, B, i, result.outcome)
        BY <1>1, <2>2 DEF Taken
      <4> HIDE DEF i
      <4> QED BY <4>1 DEF WithId
    <3> HIDE DEF i
    <3>2. A[i] \in Action(Nat)
      BY <1>2, <3>1
    <3>3. B[i].status # "proposed"
      BY <1>3, <3>1, <3>2, AttemptedIs DEF Took
    <3> QED BY <3>1, <3>3 DEF Took, SameActions, Confirmed
  <2> QED BY <2>1, <2>2
<1>7. p = [u EXCEPT !.pending = Asked(B)] /\ Asked(B) \in SUBSET Ids
  BY <1>1, <1>6, ScheduleNextIs
<1> HIDE DEF p
<1>8. /\ p \in Workflow(Nat) /\ p.pending = Asked(B) /\ p.task = u.task /\ p.retry = u.retry
      /\ p.replan = u.replan /\ ~p.error /\ KeepsRun(w, p)
  BY <1>1, <1>7 DEF Workflow, KeepsRun
<1>9. current \in Ids \cup {None}
  BY <1>2, <1>7, <1>8 DEF Task
<1> HIDE DEF current
<1>10. /\ q \in Workflow(Nat) /\ q.pending = Asked(B) /\ q.task.actions = B /\ q.retry = u.retry
       /\ q.replan = u.replan /\ ~q.error /\ KeepsRun(w, q)
  <2> DEFINE t == [u.task EXCEPT !.current = current]
  <2>1. /\ t \in Task(Nat) /\ t.actions = B /\ t.jobs = u.task.jobs /\ t.inputs = u.task.inputs
        /\ t.result = u.task.result
    BY <1>2, <1>9 DEF Task
  <2>2. q = [p EXCEPT !.task = t]
    BY <1>8
  <2> HIDE DEF t, q
  <2> QED BY <1>8, <2>1, <2>2 DEF Workflow, KeepsRun
<1>11. v = ApplyTaskStatus(q, result.outcome)
  BY DEF ApplyActionResult, p, u, q, current
<1> HIDE DEF q
<1>12. /\ v \in Workflow(Nat) /\ KeepsRun(q, v) /\ v.task.actions = B
       /\ v.replan = q.replan /\ v.retry = q.retry /\ v.error = q.error
       /\ q.replan => v.task.status = "clarification_required"
       /\ v.task.status \notin Terminal /\ ~q.replan => v.pending = q.pending /\ v.pending # {}
       /\ q.retry = None \/ v.task.status \in Terminal \/ q.replan => Story(v.task)
  BY <1>3, <1>5, <1>10, <1>11, ApplyTaskStatusIs
<1> HIDE DEF v
<1>13. KeepsRun(w, v)
  BY <1>10, <1>12 DEF KeepsRun
<1>14. Taken(w, v, result)
  BY <1>1, <1>10, <1>12 DEF Taken
<1>15. ~v.error /\ v.replan = q.replan /\ v.retry = q.retry
  BY <1>10, <1>12
<1> QED BY <1>4, <1>5, <1>6, <1>12, <1>13, <1>14, <1>15 DEF v

-----------------------------------------------------------------------------
(* A retry, and the actions of a new plan.                                 *)

\* What is tried again is ready already: the actions stay, and the task names it.
LEMMA RetryHostActionIs ==
  ASSUME NEW w \in Workflow(Nat), w.retry \in Ids, WithId(w.task.actions, w.retry) # {},
         w.task.actions[Least(WithId(w.task.actions, w.retry))].status = "ready"
  PROVE  LET v == RetryHostAction(w) IN
         /\ v \in Workflow(Nat) /\ KeepsRun(w, v)
         /\ v.task.actions = w.task.actions /\ v.retry = None
         /\ v.replan = w.replan /\ v.error = w.error
         /\ v.task.status = "ready_for_host_action" /\ Story(v.task)
<1> DEFINE A == w.task.actions
           own == WithId(A, w.retry)
           i == Least(own)
           a == [A[i] EXCEPT !.status = "ready"]
           B == [A EXCEPT ![i] = a]
           t == [w.task EXCEPT !.actions = B, !.current = w.retry, !.status = "ready_for_host_action"]
           pending == w.pending \cup {w.retry}
<1>1. A \in Seq(Action(Nat)) /\ w.task \in Task(Nat)
  BY WorkflowFields
<1>2. i \in own /\ i \in DOMAIN A /\ A[i] \in Action(Nat) /\ A[i].status = "ready"
  <2>1. own \subseteq DOMAIN A
    BY DEF WithId
  <2>2. own # {}
    OBVIOUS
  <2>3. i \in own
    <3> HIDE DEF own
    <3> QED BY <1>1, <2>1, <2>2, AllPlaces
  <2> QED BY <1>1, <2>1, <2>3
<1>3. RetryHostAction(w) = [w EXCEPT !.retry = None, !.pending = pending, !.task = t]
  BY DEF RetryHostAction
<1>4. a = A[i]
  BY <1>2 DEF Action
<1> HIDE DEF a
<1>5. B = A
  <2>1. [A EXCEPT ![i] = A[i]] = A
    BY <1>1, <1>2
  <2> QED BY <1>4, <2>1
<1> HIDE DEF B
<1>6. /\ t \in Task(Nat) /\ t.actions = A /\ t.current = w.retry
      /\ t.status = "ready_for_host_action" /\ t.jobs = w.task.jobs /\ t.inputs = w.task.inputs
      /\ t.result = w.task.result
  BY <1>1, <1>5 DEF Task, TaskStatuses
<1>7. pending \in SUBSET Ids
  BY DEF Workflow
<1> HIDE DEF t, pending
<1>8. Story(t)
  BY <1>2, <1>6 DEF Story, WithId
<1> QED BY <1>3, <1>6, <1>7, <1>8 DEF Workflow, KeepsRun

\* The actions of round n of a plan, each of an id of its own.
OfPlan(actions, n, plan) ==
  /\ \A i \in DOMAIN actions : actions[i].id[1] = n /\ actions[i].policy = plan.policy
  /\ \A i, j \in DOMAIN actions : actions[i].id = actions[j].id => i = j

\* Not tried, and open: proposed exactly if the host has to confirm.
Untried(actions) ==
  \A i \in DOMAIN actions :
    /\ actions[i].attempts = 0
    /\ actions[i].status = IF actions[i].policy.confirm THEN "proposed" ELSE "ready"

LEMMA BuildActionsIs ==
  ASSUME NEW w \in Workflow(Nat), w.plan \in Plans, w.rounds \in 1..MaxRounds
  PROVE  /\ BuildActions(w) \in Seq(Action(Nat))
         /\ OfPlan(BuildActions(w), w.rounds - 1, w.plan)
         /\ Untried(BuildActions(w))
<1> DEFINE types == w.plan.types
           B == BuildActions(w)
           round == RoundIndex(w)
           kinds == UNION {{plan.types[i] : i \in DOMAIN plan.types} : plan \in Plans}
<1>1. /\ types \in Seq(STRING) /\ MaxRounds \in Nat
      /\ \A i, j \in DOMAIN types : types[i] = types[j] => i = j
  BY WorkflowAssumption
<1>2. DOMAIN B = DOMAIN types /\ DOMAIN B = 1..Len(types) /\ Len(types) \in Nat
  BY <1>1 DEF BuildActions
<1>3. round \in 0..MaxRounds - 1 /\ round = w.rounds - 1
  BY <1>1 DEF RoundIndex
<1>4. \A i \in DOMAIN types : types[i] \in kinds
  OBVIOUS
<1> HIDE DEF kinds
<1>5. \A i \in DOMAIN types : <<round, types[i]>> \in Ids
  BY <1>3, <1>4 DEF Ids, kinds
<1>6. ASSUME NEW i \in DOMAIN types
      PROVE  /\ B[i] \in Action(Nat) /\ B[i].id = <<round, types[i]>> /\ B[i].policy = w.plan.policy
             /\ B[i].attempts = 0 /\ B[i].status = IF w.plan.policy.confirm THEN "proposed" ELSE "ready"
  <2> DEFINE waitsFor == IF \E j \in DOMAIN types : types[j] = Source(types[i])
                         THEN <<round, Source(types[i])>> ELSE None
             status == IF w.plan.policy.confirm THEN "proposed" ELSE "ready"
             b == [id |-> <<round, types[i]>>, attempts |-> 0, policy |-> w.plan.policy,
                   status |-> status, waitsFor |-> waitsFor]
  <2>1. B[i] = b
    BY DEF BuildActions
  <2>2. waitsFor \in Ids \cup {None}
    <3> HIDE DEF round, types
    <3> QED BY <1>5
  <2>3. status \in Statuses /\ w.plan.policy \in {plan.policy : plan \in Plans}
    BY DEF Statuses
  <2> HIDE DEF B, waitsFor
  <2> QED BY <1>5, <2>1, <2>2, <2>3 DEF Action
<1> HIDE DEF B
<1>7. B \in Seq(Action(Nat))
  <2>1. B \in [1..Len(types) -> Action(Nat)]
    BY <1>2, <1>6 DEF B, BuildActions
  <2> QED BY <1>2, <2>1
<1>8. OfPlan(B, w.rounds - 1, w.plan)
  <2>1. \A i \in DOMAIN types : B[i].id[1] = round /\ B[i].id[2] = types[i]
    BY <1>6
  <2> QED BY <1>1, <1>2, <1>3, <1>6, <2>1 DEF OfPlan
<1>9. Untried(B)
  BY <1>2, <1>6 DEF Untried
<1> QED BY <1>7, <1>8, <1>9 DEF B

\* The first actions of a run are taken over as they are built.
LEMMA MergeActionsIs ==
  ASSUME NEW w \in Workflow(Nat), w.plan \in Plans, w.rounds \in 1..MaxRounds,
         w.task.actions = <<>>
  PROVE  LET v == MergeActions(w, BuildActions(w)) IN
         /\ v \in Workflow(Nat) /\ KeepsRun(w, v)
         /\ OfPlan(v.task.actions, w.rounds - 1, w.plan) /\ Untried(v.task.actions)
         /\ v.task.status = w.task.status /\ v.task.current = w.task.current
         /\ v.pending = Asked(v.task.actions)
         /\ v.replan = w.replan /\ v.retry = w.retry /\ v.error = w.error
<1> DEFINE B == BuildActions(w)
           known == {w.task.actions[i].id : i \in DOMAIN w.task.actions}
           new == {i \in DOMAIN B : B[i].id \notin known}
           A == Only(B, DOMAIN B)
           t == [w.task EXCEPT !.actions = A]
           u == [w EXCEPT !.task = t]
<1>1. B \in Seq(Action(Nat)) /\ OfPlan(B, w.rounds - 1, w.plan) /\ Untried(B)
  BY BuildActionsIs
<1>2. known = {}
  OBVIOUS
<1>3. new = DOMAIN B
  <2> HIDE DEF known, B
  <2> QED BY <1>2
<1> HIDE DEF B
<1>4. /\ A \in Seq(Action(Nat))
      /\ \A k \in DOMAIN A : Place(DOMAIN B, k) \in DOMAIN B /\ A[k] = B[Place(DOMAIN B, k)]
      /\ \A k, l \in DOMAIN A : Place(DOMAIN B, k) = Place(DOMAIN B, l) => k = l
  BY <1>1, OnlyKeeps
<1> HIDE DEF A
<1>5. <<>> \o A = A
  BY <1>4
<1>6. [w EXCEPT !.task.actions = @ \o A] = u
  <2>1. w.task.actions \o A = A
    BY <1>5
  <2> QED BY <2>1
<1>7. MergeActions(w, B) = ScheduleNext(u)
  <2>1. MergeActions(w, B) = ScheduleNext([w EXCEPT !.task.actions = @ \o Only(B, new)])
    BY DEF MergeActions
  <2> HIDE DEF new
  <2> QED BY <1>3, <1>6, <2>1 DEF A
<1>8. /\ t \in Task(Nat) /\ t.actions = A /\ t.jobs = w.task.jobs /\ t.inputs = w.task.inputs
      /\ t.result = w.task.result /\ t.status = w.task.status /\ t.current = w.task.current
  <2>1. w.task \in Task(Nat)
    BY WorkflowFields
  <2> QED BY <1>4, <2>1 DEF Task
<1> HIDE DEF t
<1>9. /\ u \in Workflow(Nat) /\ u.task = t /\ KeepsRun(w, u)
      /\ u.replan = w.replan /\ u.retry = w.retry /\ u.error = w.error
  BY <1>8 DEF Workflow, KeepsRun
<1> HIDE DEF u
<1>10. OfPlan(A, w.rounds - 1, w.plan) /\ Untried(A)
  BY <1>1, <1>4 DEF OfPlan, Untried
<1>11. Confirmed(A)
  BY <1>10 DEF Untried, Confirmed
<1>12. /\ ScheduleNext(u) = [u EXCEPT !.pending = Asked(A)] /\ Asked(A) \in SUBSET Ids
  BY <1>8, <1>9, <1>11, ScheduleNextIs
<1> QED BY <1>7, <1>8, <1>9, <1>10, <1>12 DEF Workflow, KeepsRun, B

-----------------------------------------------------------------------------
(* Threads.                                                                *)

\* A task whose actions were cleared, as a run starts with it.
Emptied(task) ==
  task.actions = <<>> /\ task.current = None /\ task.status = "clarification_required"

\* The first plan of a run is of round 0, so a task that was ever planned has its job.
FirstJob(task) == task.jobs # <<>> => task.jobs[1] = 0

\* The action a thread is to try again is ready.
RetryIsReady(w) ==
  LET own == WithId(w.task.actions, w.retry)
  IN  w.retry \in Ids /\ own # {} /\ w.task.actions[Least(own)].status = "ready"

\* What holds of a thread between two nodes.
ThreadOK(w) ==
  /\ w \in Workflow(Nat)
  /\ w.node = "plan" => w.rounds = 0
  /\ w.node # "plan" => w.plan \in Plans /\ w.rounds # 0 /\ w.task.jobs # <<>>
  /\ FirstJob(w.task)
  /\ w.node \in {"plan", "step", "fail"} => Emptied(w.task)
  /\ w.node \in {"plan", "step"} => w.pending = {}
  /\ w.node = "step" => HasNextStep(w)
  /\ w.node \notin {"fail", "end"} => w.failures <= MaxToolRetries
  /\ Confirmed(w.task.actions) /\ OfPlan(w.task.actions, w.rounds - 1, w.plan)
  /\ w.node \in {"wait", "resume", "replan", "retry_host_action"} => w.task.actions # <<>>
  /\ w.node \in {"wait", "end"} => Story(w.task)
  /\ w.node = "wait" => w.task.status \notin Terminal
  /\ w.node = "resume" => w.last \in Result
  /\ w.node = "retry_host_action" => RetryIsReady(w)

\* The same run and the same plan.
SameRun(w, v) ==
  /\ v.rounds = w.rounds /\ v.plan = w.plan
  /\ v.task.jobs = w.task.jobs /\ v.task.inputs = w.task.inputs

\* An emptied task is one story, and so is a thread that got no further than that.
LEMMA EmptiedIs ==
  ASSUME NEW task, Emptied(task), NEW n, NEW plan
  PROVE  Story(task) /\ Confirmed(task.actions) /\ OfPlan(task.actions, n, plan)
  BY DEF Emptied, Story, Confirmed, OfPlan, Terminal

LEMMA NoActionsIs ==
  ASSUME NEW task \in Task(Nat)
  PROVE  /\ NoActions(task) \in Task(Nat) /\ Emptied(NoActions(task))
         /\ NoActions(task).jobs = task.jobs /\ NoActions(task).inputs = task.inputs
<1>1. <<>> \in Seq(Action(Nat)) /\ "clarification_required" \in TaskStatuses
  BY DEF TaskStatuses
<1>2. NoActions(task) = [task EXCEPT !.status = "clarification_required", !.current = None,
                                     !.result = "none", !.actions = <<>>]
  BY DEF NoActions
<1> QED BY <1>1, <1>2 DEF Task, Emptied

LEMMA FreshIs ==
  ASSUME NEW task \in Task(Nat), Emptied(task), FirstJob(task)
  PROVE  ThreadOK(Fresh(task)) /\ Fresh(task).node = "plan" /\ Fresh(task).task = task
<1>1. MaxToolRetries \in Nat /\ MaxRounds \in Nat
  BY WorkflowAssumption
<1>2. Fresh(task) \in Workflow(Nat)
  BY <1>1 DEF Fresh, Workflow, Nodes
<1>3. \A n, plan : Confirmed(task.actions) /\ OfPlan(task.actions, n, plan)
  BY EmptiedIs
<1> QED BY <1>1, <1>2, <1>3 DEF Fresh, ThreadOK

\* The planner answers: a new round, no actions yet.
LEMMA PrepareIs ==
  ASSUME NEW u \in Workflow(Nat), NEW plan \in Plans,
         Emptied(u.task), u.pending = {}, u.failures <= MaxToolRetries, u.rounds < MaxRounds,
         FirstJob(u.task), u.rounds # 0 => u.task.jobs # <<>>
  PROVE  LET v == RouteStep(Prepare(u, plan)) IN
         /\ ThreadOK(v) /\ v.node \in {"step", "end"} /\ Emptied(v.task)
         /\ v.rounds = u.rounds + 1 /\ v.plan = plan /\ v.task.inputs = u.task.inputs
         /\ v.task.jobs = Append(u.task.jobs, u.rounds)
<1> DEFINE jobs == Append(u.task.jobs, u.rounds)
           t == [u.task EXCEPT !.jobs = jobs]
           p == Prepare(u, plan)
           v == RouteStep(p)
<1>1. u.task \in Task(Nat) /\ u.rounds \in Nat /\ MaxRounds \in Nat /\ MaxToolRetries \in Nat
  BY WorkflowAssumption, WorkflowFields DEF Workflow
<1>2. jobs \in Seq(0..MaxRounds - 1) /\ jobs # <<>> /\ jobs[1] = 0
  <2>1. u.task.jobs \in Seq(0..MaxRounds - 1) /\ u.rounds \in 0..MaxRounds - 1
    BY <1>1 DEF Task
  <2>2. CASE u.task.jobs = <<>>
    BY <1>1, <2>1, <2>2
  <2>3. CASE u.task.jobs # <<>>
    <3>1. Len(u.task.jobs) \in Nat \ {0} /\ u.task.jobs[1] = 0
      BY <2>1, <2>3 DEF FirstJob
    <3> QED BY <2>1, <3>1
  <2> QED BY <2>2, <2>3
<1> HIDE DEF jobs
<1>3. /\ t \in Task(Nat) /\ t.actions = <<>> /\ t.current = None /\ t.jobs = jobs
      /\ t.status = "clarification_required" /\ t.inputs = u.task.inputs
  BY <1>1, <1>2 DEF Task, Emptied
<1>4. p = [u EXCEPT !.plan = plan, !.next = 0, !.rounds = u.rounds + 1, !.task = t]
  BY DEF Prepare, jobs
<1> HIDE DEF t
<1>5. /\ p \in Workflow(Nat) /\ p.task = t /\ p.rounds = u.rounds + 1 /\ p.plan = plan
      /\ p.pending = {} /\ p.failures <= MaxToolRetries
  <2>1. u.rounds + 1 \in 0..MaxRounds /\ 0 \in Nat /\ plan \in Plans \cup {None}
    BY <1>1
  <2>2. p \in Workflow(Nat)
    BY <1>3, <1>4, <2>1 DEF Workflow
  <2>3. /\ p.task = t /\ p.rounds = u.rounds + 1 /\ p.plan = plan
        /\ p.pending = u.pending /\ p.failures = u.failures
    BY <1>4 DEF Workflow
  <2> QED BY <2>2, <2>3
<1> HIDE DEF p
<1>6. /\ v \in Workflow(Nat) /\ v.task = t /\ v.rounds = u.rounds + 1 /\ v.plan = plan
      /\ v.pending = {} /\ v.failures <= MaxToolRetries /\ v.node \in {"step", "end"}
      /\ v.node = "step" => HasNextStep(v)
  BY <1>5 DEF RouteStep, HasNextStep, Workflow, Nodes
<1> HIDE DEF v
<1>7. Emptied(v.task) /\ FirstJob(v.task)
  BY <1>2, <1>3, <1>6 DEF Emptied, FirstJob
<1>8. Story(v.task) /\ Confirmed(v.task.actions) /\ OfPlan(v.task.actions, v.rounds - 1, v.plan)
  BY <1>7, EmptiedIs
<1>9. ThreadOK(v)
  BY <1>1, <1>2, <1>3, <1>6, <1>7, <1>8 DEF ThreadOK
<1>10. v.task.inputs = u.task.inputs /\ v.task.jobs = jobs
  BY <1>3, <1>6
<1> QED BY <1>6, <1>7, <1>9, <1>10 DEF v, p, jobs

LEMMA ReplanIs ==
  ASSUME NEW w, ThreadOK(w), w.node = "replan", NEW plan \in Plans, w.rounds < MaxRounds
  PROVE  LET v == RouteStep(Prepare(Cleared(w), plan)) IN
         /\ ThreadOK(v) /\ v.node \in {"step", "end"} /\ Emptied(v.task)
         /\ v.rounds = w.rounds + 1 /\ v.plan = plan /\ v.task.inputs = w.task.inputs
         /\ v.task.jobs = Append(w.task.jobs, w.rounds)
<1> DEFINE u == Cleared(w)
           t == NoActions(w.task)
<1>1. w \in Workflow(Nat) /\ w.task \in Task(Nat) /\ MaxToolRetries \in Nat
  BY WorkflowAssumption, WorkflowFields DEF ThreadOK
<1>2. t \in Task(Nat) /\ Emptied(t) /\ t.jobs = w.task.jobs /\ t.inputs = w.task.inputs
  BY <1>1, NoActionsIs
<1> HIDE DEF t
<1>3. u = [w EXCEPT !.replan = FALSE, !.retry = None, !.error = FALSE, !.pending = {},
                    !.failures = 0, !.task = t]
  BY DEF Cleared, t
<1> HIDE DEF u
<1>4. /\ u \in Workflow(Nat) /\ u.task = t /\ u.pending = {} /\ u.failures = 0
      /\ u.rounds = w.rounds
  <2>1. 0 \in 0..MaxToolRetries + 1
    BY <1>1
  <2>2. u \in Workflow(Nat)
    BY <1>1, <1>2, <1>3, <2>1 DEF Workflow
  <2>3. u.task = t /\ u.pending = {} /\ u.failures = 0 /\ u.rounds = w.rounds
    BY <1>1, <1>3 DEF Workflow
  <2> QED BY <2>2, <2>3
<1>5. FirstJob(t) /\ t.jobs # <<>>
  BY <1>2 DEF ThreadOK, FirstJob
<1>6. u.failures <= MaxToolRetries
  BY <1>1, <1>4
<1>7. Emptied(u.task) /\ FirstJob(u.task) /\ u.task.jobs # <<>> /\ u.rounds < MaxRounds
  BY <1>2, <1>4, <1>5
<1>8. LET v == RouteStep(Prepare(u, plan)) IN
      /\ ThreadOK(v) /\ v.node \in {"step", "end"} /\ Emptied(v.task)
      /\ v.rounds = u.rounds + 1 /\ v.plan = plan /\ v.task.inputs = u.task.inputs
      /\ v.task.jobs = Append(u.task.jobs, u.rounds)
  BY <1>4, <1>6, <1>7, PrepareIs
<1> QED BY <1>2, <1>4, <1>8 DEF u

\* Actions none of which is open are no actions, where none was tried.
LEMMA AskedIs ==
  ASSUME NEW actions \in Seq(Action(Nat))
  PROVE  /\ actions = <<>> => Asked(actions) = {}
         /\ Untried(actions) /\ Asked(actions) = {} => actions = <<>>
         /\ Untried(actions) => Confirmed(actions)
<1>1. DOMAIN actions = 1..Len(actions) /\ Len(actions) \in Nat
  OBVIOUS
<1>2. ASSUME actions = <<>> PROVE Asked(actions) = {}
  BY <1>2 DEF Asked, WithStatus
<1>3. ASSUME Untried(actions), Asked(actions) = {} PROVE actions = <<>>
  <2>1. \A i \in DOMAIN actions : actions[i].status \in {"proposed", "ready"}
    BY <1>3 DEF Untried
  <2>2. \A i \in DOMAIN actions : i \in WithStatus(actions, {"proposed", "ready"})
    BY <2>1 DEF WithStatus
  <2>3. WithStatus(actions, {"proposed", "ready"}) = {}
    BY <1>3 DEF Asked
  <2>4. 1 \notin 1..Len(actions)
    BY <1>1, <2>2, <2>3
  <2> QED BY <1>1, <2>4
<1>4. Untried(actions) => Confirmed(actions)
  BY DEF Untried, Confirmed
<1> QED BY <1>2, <1>3, <1>4

\* A step is done: it leaves the task without actions, or with those of its plan.
LEMMA StepDoneIs ==
  ASSUME NEW w, ThreadOK(w), w.node = "step"
  PROVE  LET u == StepDone(w) IN
         /\ u \in Workflow(Nat) /\ SameRun(w, u) /\ u.failures = 0 /\ ~u.error
         /\ u.task.status = "clarification_required" /\ u.task.current = None
         /\ OfPlan(u.task.actions, w.rounds - 1, w.plan) /\ Untried(u.task.actions)
         /\ u.pending = Asked(u.task.actions)
<1> DEFINE step == w.plan.steps[w.next + 1]
           done == NextStep(w)
           With(result) == [done EXCEPT !.task.result = result]
           Goal(u) == /\ u \in Workflow(Nat) /\ SameRun(w, u) /\ u.failures = 0 /\ ~u.error
                      /\ u.task.status = "clarification_required" /\ u.task.current = None
                      /\ OfPlan(u.task.actions, w.rounds - 1, w.plan) /\ Untried(u.task.actions)
                      /\ u.pending = Asked(u.task.actions)
<1>1. /\ w \in Workflow(Nat) /\ w.task \in Task(Nat) /\ MaxToolRetries \in Nat /\ MaxRounds \in Nat
      /\ Emptied(w.task) /\ HasNextStep(w) /\ w.plan \in Plans /\ w.rounds # 0 /\ w.pending = {}
  BY WorkflowAssumption, WorkflowFields DEF ThreadOK
<1>2. step \in Steps
  <2>1. w.plan.steps \in Seq(Steps) /\ w.next \in Nat /\ w.next < Len(w.plan.steps)
    BY <1>1, WorkflowAssumption DEF HasNextStep, Workflow
  <2> QED BY <2>1
<1>3. /\ done \in Workflow(Nat) /\ done.task = w.task /\ done.rounds = w.rounds /\ done.plan = w.plan
      /\ done.failures = 0 /\ ~done.error /\ done.pending = {}
  <2>1. 0 \in 0..MaxToolRetries + 1 /\ w.next + 1 \in Nat
    BY <1>1 DEF Workflow
  <2>2. done = [w EXCEPT !.next = w.next + 1, !.failures = 0, !.error = FALSE]
    BY DEF NextStep
  <2>3. done \in Workflow(Nat)
    BY <1>1, <2>1, <2>2 DEF Workflow
  <2> QED BY <1>1, <2>2, <2>3 DEF Workflow
<1> HIDE DEF done
<1>4. /\ Asked(w.task.actions) = {} /\ Untried(w.task.actions)
      /\ OfPlan(w.task.actions, w.rounds - 1, w.plan)
  <2>1. Asked(<<>>) = {} /\ Untried(<<>>)
    BY DEF Asked, WithStatus, Untried
  <2>2. w.task.actions = <<>>
    BY <1>1 DEF Emptied
  <2> QED BY <1>1, <2>1, <2>2, EmptiedIs
<1>5. ASSUME NEW result \in {"none", "answer", "clarification", "action_plan"}
      PROVE  /\ With(result) \in Workflow(Nat) /\ With(result).rounds = w.rounds
             /\ With(result).plan = w.plan /\ With(result).pending = {}
             /\ With(result).failures = 0 /\ ~With(result).error
             /\ With(result).task.actions = w.task.actions /\ With(result).task.jobs = w.task.jobs
             /\ With(result).task.inputs = w.task.inputs /\ With(result).task.status = w.task.status
             /\ With(result).task.current = w.task.current
  <2> DEFINE t == [w.task EXCEPT !.result = result]
  <2>1. /\ t \in Task(Nat) /\ t.actions = w.task.actions /\ t.jobs = w.task.jobs
        /\ t.inputs = w.task.inputs /\ t.status = w.task.status /\ t.current = w.task.current
    BY <1>1 DEF Task
  <2>2. With(result) = [done EXCEPT !.task = t]
    BY <1>3
  <2> HIDE DEF t, With
  <2> QED BY <1>3, <2>1, <2>2 DEF Workflow
<1>6. ASSUME NEW result \in {"none", "answer", "clarification", "action_plan"}
      PROVE  Goal(With(result))
  <2> HIDE DEF With
  <2> QED BY <1>1, <1>4, <1>5 DEF SameRun, Emptied
<1>7. CASE step = "work"
  <2>1. StepDone(w) = done
    BY <1>7 DEF StepDone, done
  <2>2. Goal(done)
    BY <1>1, <1>3, <1>4 DEF SameRun, Emptied
  <2> HIDE DEF Goal
  <2>3. Goal(StepDone(w))
    BY <2>1, <2>2
  <2> QED BY <2>3 DEF Goal
<1>8. CASE step = "answer"
  <2>1. StepDone(w) = With("answer")
    BY <1>8 DEF StepDone, done
  <2> HIDE DEF Goal, With
  <2>2. Goal(StepDone(w))
    BY <1>6, <2>1
  <2> QED BY <2>2 DEF Goal
<1>9. CASE step = "clarify"
  <2>1. StepDone(w) = With("clarification")
    BY <1>9 DEF StepDone, done
  <2> HIDE DEF Goal, With
  <2>2. Goal(StepDone(w))
    BY <1>6, <2>1
  <2> QED BY <2>2 DEF Goal
<1>10. CASE step = "plan_host_actions"
  <2> DEFINE u == With("action_plan")
             v == MergeActions(u, BuildActions(u))
  <2>1. /\ u \in Workflow(Nat) /\ u.rounds = w.rounds /\ u.plan = w.plan /\ u.pending = {}
        /\ u.failures = 0 /\ ~u.error /\ u.task.actions = w.task.actions
        /\ u.task.jobs = w.task.jobs /\ u.task.inputs = w.task.inputs
        /\ u.task.status = w.task.status /\ u.task.current = w.task.current
    <3> HIDE DEF With
    <3> QED BY <1>5
  <2>2. BuildActions(w) = BuildActions(u)
    <3> HIDE DEF u
    <3> QED BY <2>1 DEF BuildActions, RoundIndex
  <2>3. StepDone(w) = v
    <3>1. StepDone(w) = MergeActions(u, BuildActions(w))
      BY <1>10 DEF StepDone, done
    <3> HIDE DEF u
    <3> QED BY <2>2, <3>1
  <2> HIDE DEF u
  <2>4. u.rounds \in 1..MaxRounds /\ u.task.actions = <<>> /\ u.plan \in Plans
    <3>1. u.task.actions = <<>> /\ u.plan \in Plans
      BY <1>1, <2>1 DEF Emptied
    <3>2. w.rounds \in 0..MaxRounds
      BY <1>1 DEF Workflow
    <3>3. w.rounds \in 1..MaxRounds
      BY <1>1, <3>2
    <3> QED BY <2>1, <3>1, <3>3
  <2>5. /\ v \in Workflow(Nat) /\ KeepsRun(u, v)
        /\ OfPlan(v.task.actions, u.rounds - 1, u.plan) /\ Untried(v.task.actions)
        /\ v.task.status = u.task.status /\ v.task.current = u.task.current
        /\ v.pending = Asked(v.task.actions) /\ v.error = u.error
    BY <2>1, <2>4, MergeActionsIs
  <2> HIDE DEF v
  <2>6. Goal(v)
    BY <1>1, <2>1, <2>5 DEF SameRun, KeepsRun, Emptied
  <2> HIDE DEF Goal
  <2>7. Goal(StepDone(w))
    BY <2>3, <2>6
  <2> QED BY <2>7 DEF Goal
<1> QED BY <1>2, <1>7, <1>8, <1>9, <1>10 DEF Steps

LEMMA RunStepIs ==
  ASSUME NEW w, ThreadOK(w), w.node = "step"
  PROVE  LET v == AfterStep(StepDone(w)) IN
         /\ ThreadOK(v) /\ SameRun(w, v) /\ v.node \in {"step", "wait", "end"}
         /\ Untried(v.task.actions)
         /\ v.task.status = "clarification_required" /\ v.task.current = None
         /\ v.node # "wait" => Emptied(v.task)
<1> DEFINE u == StepDone(w)
           v == AfterStep(u)
<1>1. /\ u \in Workflow(Nat) /\ SameRun(w, u) /\ u.failures = 0 /\ ~u.error
      /\ u.task.status = "clarification_required" /\ u.task.current = None
      /\ OfPlan(u.task.actions, w.rounds - 1, w.plan) /\ Untried(u.task.actions)
      /\ u.pending = Asked(u.task.actions)
  BY StepDoneIs
<1> HIDE DEF u
<1>2. MaxToolRetries \in Nat /\ w.plan \in Plans /\ w.rounds # 0 /\ w.task.jobs # <<>> /\ FirstJob(w.task)
  BY WorkflowAssumption DEF ThreadOK
<1>3. /\ u.task.actions \in Seq(Action(Nat)) /\ Confirmed(u.task.actions)
      /\ u.task.actions = <<>> <=> u.pending = {}
  <2>1. u.task.actions \in Seq(Action(Nat))
    BY <1>1, WorkflowFields
  <2> QED BY <1>1, <2>1, AskedIs
<1>4. /\ v \in Workflow(Nat) /\ v.task = u.task /\ v.rounds = u.rounds /\ v.plan = u.plan
      /\ v.failures = 0 /\ v.pending = u.pending
      /\ IF u.pending # {} THEN v.node = "wait"
         ELSE v.node \in {"step", "end"} /\ (v.node = "step" => HasNextStep(v))
  <2>1. u.task.status \notin Terminal
    BY <1>1 DEF Terminal
  <2>2. CASE u.pending # {}
    <3>1. v = [u EXCEPT !.node = "wait"]
      BY <1>1, <2>1, <2>2 DEF AfterStep
    <3> QED BY <1>1, <2>2, <3>1 DEF Workflow, Nodes
  <2>3. CASE u.pending = {}
    <3>1. v = RouteStep(u)
      BY <1>1, <2>1, <2>3 DEF AfterStep
    <3> QED BY <1>1, <2>3, <3>1 DEF RouteStep, HasNextStep, Workflow, Nodes
  <2> QED BY <2>2, <2>3
<1> HIDE DEF v
<1>5. SameRun(w, v)
  BY <1>1, <1>4 DEF SameRun
<1>6. Story(v.task)
  BY <1>1, <1>4 DEF Story
<1>7. v.node # "wait" => Emptied(v.task)
  BY <1>1, <1>3, <1>4 DEF Emptied
<1>8. /\ v.plan \in Plans /\ v.rounds # 0 /\ v.task.jobs # <<>> /\ FirstJob(v.task)
      /\ OfPlan(v.task.actions, v.rounds - 1, v.plan) /\ Confirmed(v.task.actions)
  BY <1>1, <1>2, <1>3, <1>4, <1>5 DEF SameRun, FirstJob
<1>9. v.task.status \notin Terminal
  BY <1>1, <1>4 DEF Terminal
<1>10. ThreadOK(v)
  BY <1>2, <1>3, <1>4, <1>6, <1>7, <1>8, <1>9 DEF ThreadOK
<1> QED BY <1>1, <1>4, <1>5, <1>7, <1>10 DEF v, u

\* A step raises: the task stays as it is.
LEMMA StepRaisesIs ==
  ASSUME NEW w, ThreadOK(w), w.node = "step"
  PROVE  LET v == AfterStep(StepFailed(w)) IN
         /\ ThreadOK(v) /\ SameRun(w, v) /\ v.node \in {"step", "fail"} /\ v.task = w.task
<1> DEFINE u == StepFailed(w)
           v == AfterStep(u)
<1>1. /\ w \in Workflow(Nat) /\ MaxToolRetries \in Nat /\ w.failures \in Nat
      /\ w.failures <= MaxToolRetries /\ Emptied(w.task) /\ HasNextStep(w) /\ w.pending = {}
  BY WorkflowAssumption DEF ThreadOK, Workflow
<1>2. /\ u \in Workflow(Nat) /\ u.task = w.task /\ u.rounds = w.rounds /\ u.plan = w.plan
      /\ u.error /\ u.next = w.next /\ u.pending = {}
  <2>1. u = [w EXCEPT !.failures = w.failures + 1, !.error = TRUE]
    BY DEF StepFailed
  <2>2. w.failures + 1 \in 0..MaxToolRetries + 1
    BY <1>1
  <2>3. u \in Workflow(Nat)
    BY <1>1, <2>1, <2>2 DEF Workflow
  <2> QED BY <1>1, <2>1, <2>3 DEF Workflow
<1> HIDE DEF u
<1>3. v = [u EXCEPT !.node = IF CanRetryStep(u) THEN "step" ELSE "fail"]
  BY <1>1, <1>2 DEF AfterStep, Emptied, Terminal
<1>4. /\ v \in Workflow(Nat) /\ v.task = w.task /\ v.rounds = w.rounds /\ v.plan = w.plan
      /\ v.next = w.next /\ v.pending = {} /\ v.node \in {"step", "fail"}
      /\ v.node = "step" => v.failures <= MaxToolRetries
  BY <1>2, <1>3 DEF Workflow, Nodes, CanRetryStep
<1> HIDE DEF v
<1>5. ThreadOK(v)
  BY <1>1, <1>4 DEF ThreadOK, HasNextStep
<1> QED BY <1>4, <1>5 DEF v, u, SameRun

LEMMA FailIs ==
  ASSUME NEW w, ThreadOK(w), w.node = "fail"
  PROVE  LET v == [w EXCEPT !.node = "end", !.task.status = "failed", !.task.current = None,
                            !.pending = {}, !.replan = FALSE, !.retry = None]
         IN  ThreadOK(v) /\ SameRun(w, v) /\ v.node = "end" /\ v.task.actions = <<>>
<1> DEFINE t == [w.task EXCEPT !.status = "failed", !.current = None]
           v == [w EXCEPT !.node = "end", !.task = t, !.pending = {}, !.replan = FALSE, !.retry = None]
<1>1. w \in Workflow(Nat) /\ w.task \in Task(Nat) /\ w.task.actions = <<>>
  BY WorkflowFields DEF ThreadOK, Emptied
<1>2. /\ t \in Task(Nat) /\ t.status = "failed" /\ t.current = None /\ t.actions = <<>>
      /\ t.jobs = w.task.jobs /\ t.inputs = w.task.inputs
  BY <1>1 DEF Task, TaskStatuses
<1> HIDE DEF t
<1>3. /\ v \in Workflow(Nat) /\ v.task = t /\ v.rounds = w.rounds /\ v.plan = w.plan /\ v.node = "end"
  <2>1. v \in Workflow(Nat)
    BY <1>1, <1>2 DEF Workflow, Nodes
  <2> QED BY <1>1, <2>1 DEF Workflow
<1> HIDE DEF v
<1>4. Story(t) /\ Confirmed(t.actions) /\ OfPlan(t.actions, w.rounds - 1, w.plan)
  BY <1>2 DEF Story, Confirmed, OfPlan
<1>5. ThreadOK(v)
  BY <1>2, <1>3, <1>4 DEF ThreadOK, FirstJob
<1> DEFINE s == [w.task EXCEPT !.status = "failed"]
<1>6. [w EXCEPT !.node = "end", !.task.status = "failed", !.task.current = None,
                !.pending = {}, !.replan = FALSE, !.retry = None] = v
  <2>1. [w EXCEPT !.node = "end", !.task.status = "failed"] = [w EXCEPT !.node = "end", !.task = s]
    BY <1>1 DEF Workflow
  <2> HIDE DEF s
  <2>2. [w EXCEPT !.node = "end", !.task = s].task = s
    BY <1>1 DEF Workflow
  <2>3. [w EXCEPT !.node = "end", !.task.status = "failed", !.task.current = None]
        = [w EXCEPT !.node = "end", !.task = [s EXCEPT !.current = None]]
    BY <1>1, <2>1, <2>2 DEF Workflow
  <2>4. t = [s EXCEPT !.current = None]
    BY DEF t, s
  <2> QED BY <2>3, <2>4 DEF v
<1> QED BY <1>2, <1>3, <1>5, <1>6 DEF SameRun

LEMMA WaitIs ==
  ASSUME NEW w, ThreadOK(w), w.node = "wait", NEW result \in Result
  PROVE  LET v == [w EXCEPT !.node = "resume", !.last = result] IN
         /\ ThreadOK(v) /\ SameRun(w, v) /\ v.node = "resume" /\ v.task = w.task /\ v.last = result
<1> DEFINE v == [w EXCEPT !.node = "resume", !.last = result]
<1>1. w \in Workflow(Nat)
  BY DEF ThreadOK
<1>2. /\ v \in Workflow(Nat) /\ v.task = w.task /\ v.rounds = w.rounds /\ v.plan = w.plan
      /\ v.node = "resume" /\ v.last = result /\ v.failures = w.failures
  BY <1>1 DEF Workflow, Nodes
<1> HIDE DEF v
<1>3. ThreadOK(v)
  BY <1>2 DEF ThreadOK, FirstJob
<1> QED BY <1>2, <1>3 DEF v, SameRun

\* The thread goes on with the result of the host: the task is over, or a plan is made
\* again, or an action tried again, or the host is asked for the next one.
LEMMA ResumeIs ==
  ASSUME NEW w, ThreadOK(w), w.node = "resume"
  PROVE  LET v == AfterResume(ApplyActionResult(w, w.last)) IN
         /\ ThreadOK(v) /\ SameRun(w, v) /\ Taken(w, v, w.last)
         /\ SameActions(w.task.actions, v.task.actions)
         /\ v.node \in {"end", "replan", "retry_host_action", "wait"}
         /\ v.node = "end" => v.task.status \in Terminal
<1> DEFINE u == ApplyActionResult(w, w.last)
           v == AfterResume(u)
           To(node) == [u EXCEPT !.node = node]
<1>1. /\ w \in Workflow(Nat) /\ w.last \in Result /\ w.task.actions # <<>>
      /\ Confirmed(w.task.actions) /\ MaxToolRetries \in Nat
  BY WorkflowAssumption DEF ThreadOK
<1>2. /\ u \in Workflow(Nat) /\ KeepsRun(w, u) /\ ~u.error /\ Taken(w, u, w.last)
      /\ u.task.actions # <<>> /\ SameActions(w.task.actions, u.task.actions)
      /\ Confirmed(u.task.actions)
      /\ u.replan => u.task.status = "clarification_required"
      /\ u.task.status \notin Terminal /\ ~u.replan => u.pending # {}
      /\ u.retry = None \/ u.task.status \in Terminal \/ u.replan => Story(u.task)
  BY <1>1, ApplyActionResultIs
<1> HIDE DEF u
<1>3. ASSUME NEW node \in Nodes
      PROVE  /\ To(node) \in Workflow(Nat) /\ To(node).node = node /\ To(node).task = u.task
             /\ To(node).rounds = u.rounds /\ To(node).plan = u.plan
             /\ To(node).failures = u.failures /\ To(node).last = u.last
             /\ To(node).replan = u.replan /\ To(node).retry = u.retry
  BY <1>2 DEF Workflow
<1>4. /\ u.rounds = w.rounds /\ u.plan = w.plan /\ u.failures = w.failures
      /\ u.task.jobs = w.task.jobs /\ u.task.inputs = w.task.inputs
  BY <1>2 DEF KeepsRun
<1>5. /\ w.plan \in Plans /\ w.rounds # 0 /\ w.task.jobs # <<>> /\ FirstJob(w.task)
      /\ w.failures <= MaxToolRetries /\ OfPlan(w.task.actions, w.rounds - 1, w.plan)
  BY DEF ThreadOK
<1>6. OfPlan(u.task.actions, u.rounds - 1, u.plan)
  BY <1>2, <1>4, <1>5 DEF OfPlan, SameActions
<1>7. PICK node \in {"end", "replan", "retry_host_action", "wait"} :
        /\ v = To(node)
        /\ node = "end" => u.task.status \in Terminal
        /\ node = "retry_host_action" => u.retry # None
        /\ node = "wait" => u.task.status \notin Terminal /\ u.retry = None
  <2>1. CASE u.task.status \in Terminal
    BY <2>1 DEF AfterResume
  <2>2. CASE u.task.status \notin Terminal /\ u.replan
    BY <1>2, <2>2 DEF AfterResume
  <2>3. CASE u.task.status \notin Terminal /\ ~u.replan /\ u.retry # None
    BY <1>2, <2>3 DEF AfterResume
  <2>4. CASE u.task.status \notin Terminal /\ ~u.replan /\ u.retry = None
    BY <1>2, <2>4 DEF AfterResume
  <2> QED BY <2>1, <2>2, <2>3, <2>4
<1>8. /\ v \in Workflow(Nat) /\ v.node = node /\ v.task = u.task /\ v.rounds = u.rounds
      /\ v.plan = u.plan /\ v.failures = u.failures /\ v.replan = u.replan /\ v.retry = u.retry
  BY <1>3, <1>7 DEF Nodes
<1> HIDE DEF v, To
<1>9. node = "retry_host_action" => RetryIsReady(v)
  <2> SUFFICES ASSUME node = "retry_host_action" PROVE RetryIsReady(v)
    OBVIOUS
  <2> DEFINE own == WithId(w.task.actions, w.last.action)
  <2>1. u.retry # None
    BY <1>7
  <2>2. /\ own # {} /\ Least(own) \in own /\ u.retry = w.last.action
        /\ u.task.actions[Least(own)].status = "ready"
    BY <1>2, <2>1 DEF Taken
  <2>3. WithId(u.task.actions, u.retry) = own
    BY <1>2, <2>2 DEF WithId, SameActions
  <2>4. u.retry \in Ids
    BY <1>1, <2>2 DEF Result
  <2> HIDE DEF own
  <2> QED BY <1>8, <2>2, <2>3, <2>4 DEF RetryIsReady
<1>10. node \in {"wait", "end"} => Story(v.task)
  BY <1>2, <1>7, <1>8
<1>11. Taken(w, v, w.last)
  BY <1>2, <1>8 DEF Taken
<1>12. ThreadOK(v)
  <2>1. FirstJob(v.task)
    BY <1>4, <1>5, <1>8 DEF FirstJob
  <2> QED BY <1>2, <1>4, <1>5, <1>6, <1>7, <1>8, <1>9, <1>10, <2>1 DEF ThreadOK
<1>13. SameRun(w, v)
  BY <1>4, <1>8 DEF SameRun
<1> QED BY <1>2, <1>7, <1>8, <1>11, <1>12, <1>13 DEF v, u

LEMMA RetryIs ==
  ASSUME NEW w, ThreadOK(w), w.node = "retry_host_action"
  PROVE  LET v == [RetryHostAction(w) EXCEPT !.node = "wait"] IN
         /\ ThreadOK(v) /\ SameRun(w, v) /\ v.node = "wait" /\ v.task.actions = w.task.actions
<1> DEFINE u == RetryHostAction(w)
           v == [u EXCEPT !.node = "wait"]
<1>1. w \in Workflow(Nat) /\ RetryIsReady(w)
  BY DEF ThreadOK
<1>2. /\ u \in Workflow(Nat) /\ KeepsRun(w, u) /\ u.task.actions = w.task.actions
      /\ u.task.status = "ready_for_host_action" /\ Story(u.task)
  BY <1>1, RetryHostActionIs DEF RetryIsReady
<1> HIDE DEF u
<1>3. /\ v \in Workflow(Nat) /\ v.task = u.task /\ v.rounds = u.rounds /\ v.plan = u.plan
      /\ v.failures = u.failures /\ v.node = "wait"
  BY <1>2 DEF Workflow, Nodes
<1> HIDE DEF v
<1>4. SameRun(w, v)
  BY <1>2, <1>3 DEF KeepsRun, SameRun
<1>5. v.failures = w.failures /\ v.task.actions = w.task.actions /\ v.task.status \notin Terminal
  BY <1>2, <1>3 DEF KeepsRun, Terminal
<1>6. ThreadOK(v)
  BY <1>2, <1>3, <1>4, <1>5 DEF ThreadOK, SameRun, FirstJob
<1> QED BY <1>3, <1>4, <1>5, <1>6 DEF v, u

-----------------------------------------------------------------------------
(* The task, its thread and the requests.                                  *)

\* A run starts from a task without actions, and its inputs are not the saved ones,
\* unless the task is new.
Begun(req) ==
  /\ req.task \in Task(Nat) /\ Emptied(req.task) /\ FirstJob(req.task)
  /\ req.task.jobs = req.read.jobs
  /\ req.task.inputs # req.read.inputs \/ req.read = NewTask

\* The thread of a run, as long as the run works on it: no action was tried.
RunOK(task, w) ==
  /\ w.node \in {"plan", "step", "fail", "wait", "end"}
  /\ w.node = "plan" => w.task = task
  /\ w.task.inputs = task.inputs
  /\ Untried(w.task.actions)
  /\ w.node # "wait" => w.task.actions = <<>>

\* What a request is to save.
SaveOK(req) ==
  /\ Story(req.task) /\ FirstJob(req.task)
  /\ req.task.actions # <<>> => req.task.jobs # <<>>
  /\ req.kind = "run" =>
       /\ req.task.inputs # req.read.inputs \/ req.read = NewTask
       /\ req.task.status \in Terminal => req.task.actions = <<>>
  /\ req.kind = "remove" =>
       \/ req.task = req.read
       \/ /\ req.task.inputs # req.read.inputs
          /\ req.task.jobs = req.read.jobs /\ req.task.actions = <<>>

RequestOK(req) ==
  /\ req.pc = "read" /\ req.kind = "run" => Begun(req)
  /\ req.pc = "running" =>
       /\ ThreadOK(req.w)
       /\ req.result # None => req.w.node = "wait"
       /\ req.kind = "run" => req.result = None /\ Begun(req) /\ RunOK(req.task, req.w)
       /\ req.kind = "report" => req.task = None
  /\ req.pc = "save" => SaveOK(req)

\* Requests that there are only once the thread has a checkpoint.
NeedsThread(req) ==
  \/ req.pc = "read" /\ req.kind = "report"
  \/ req.pc = "running"
  \/ req.pc = "save" /\ req.task.actions # <<>>

TaskOK(task) ==
  Story(task) /\ FirstJob(task) /\ (task.actions # <<>> => task.jobs # <<>>)

\* TypeOK, without a bound on the attempts.
Typed ==
  /\ db \in Task(Nat) \cup {None}
  /\ checkpoint \in Workflow(Nat) \cup {None}
  /\ request \in [Requests -> Request(Nat)]
  /\ reports \in 0..MaxReports /\ deaths \in 0..MaxDeaths
  /\ approved \subseteq Ids
  /\ ended \in {"none", "run", "report", "remove", "conflict", "unique", "raised", "died"}
  /\ faults \subseteq {"overlap", "replanned", "conflict", "unique", "death"}

\* What everything else rests on.
Base ==
  /\ Typed
  /\ db # None => TaskOK(db) /\ (db.actions # <<>> => ThreadOK(checkpoint))
  /\ checkpoint # None => ThreadOK(checkpoint)
  /\ \A r \in Requests :
       RequestOK(request[r]) /\ (NeedsThread(request[r]) => ThreadOK(checkpoint))

LEMMA RequestIs ==
  ASSUME NEW req \in Request(Nat)
  PROVE  /\ req.pc \in {"idle", "read", "running", "save"}
         /\ req.pc = "idle" <=> req = Idle
         /\ req.pc = "read" => /\ req.read \in Task(Nat) /\ req.kind \in {"run", "report"}
                               /\ req.kind = "run" => req.task \in Task(Nat)
                               /\ req.kind = "report" => req.result \in Result
         /\ req.pc = "running" => /\ req.read \in Task(Nat) /\ req.kind \in {"run", "report"}
                                  /\ req.task \in Task(Nat) \cup {None}
                                  /\ req.result \in Result \cup {None}
                                  /\ req.w \in Workflow(Nat)
         /\ req.pc = "save" => /\ req.read \in Task(Nat) /\ req.kind \in {"run", "report", "remove"}
                               /\ req.task \in Task(Nat)
<1> DEFINE T == Task(Nat)
           W == Workflow(Nat)
<1>1. CASE req \in [pc : {"idle"}]
  BY <1>1 DEF Idle
<1>2. CASE req \in [pc : {"read"}, kind : {"run"}, read : T, task : T]
  <2> HIDE DEF T
  <2> QED BY <1>2 DEF Idle, T
<1>3. CASE req \in [pc : {"read"}, kind : {"report"}, read : T, result : Result]
  <2> HIDE DEF T
  <2> QED BY <1>3 DEF Idle, T
<1>4. CASE req \in [pc : {"running"}, kind : {"run", "report"}, read : T, task : T \cup {None},
                    result : Result \cup {None}, w : W]
  <2> HIDE DEF T, W
  <2> QED BY <1>4 DEF Idle, T, W
<1>5. CASE req \in [pc : {"save"}, kind : {"run", "report", "remove"}, read : T, task : T]
  <2> HIDE DEF T
  <2> QED BY <1>5 DEF Idle, T
<1> QED BY <1>1, <1>2, <1>3, <1>4, <1>5 DEF Request

\* One request takes a step, and leaves Base as it is if what it writes is as Base says.
LEMMA BaseKept ==
  ASSUME Base, NEW r \in Requests, NEW x \in Request(Nat), RequestOK(x),
         request' = [request EXCEPT ![r] = x],
         checkpoint' = checkpoint \/ ThreadOK(checkpoint'),
         NeedsThread(x) => ThreadOK(checkpoint'),
         db' = db \/ (db' \in Task(Nat) /\ TaskOK(db') /\ (db'.actions # <<>> => ThreadOK(checkpoint'))),
         reports' \in 0..MaxReports /\ deaths' \in 0..MaxDeaths /\ approved' \subseteq Ids,
         ended' \in {"none", "run", "report", "remove", "conflict", "unique", "raised", "died"},
         faults' \subseteq {"overlap", "replanned", "conflict", "unique", "death"}
  PROVE  Base'
<1>1. Typed
  BY DEF Base
<1>2. request' \in [Requests -> Request(Nat)] /\ request'[r] = x
      /\ \A q \in Requests \ {r} : request'[q] = request[q]
  BY <1>1 DEF Typed
<1>3. checkpoint' \in Workflow(Nat) \cup {None} /\ (checkpoint' # None => ThreadOK(checkpoint'))
  BY <1>1 DEF ThreadOK, Typed, Base
<1>4. ThreadOK(checkpoint) => ThreadOK(checkpoint')
  OBVIOUS
<1>5. Typed'
  BY <1>1, <1>2, <1>3 DEF Typed
<1>6. db' # None => TaskOK(db') /\ (db'.actions # <<>> => ThreadOK(checkpoint'))
  BY <1>4 DEF Base
<1>7. \A q \in Requests :
        RequestOK(request'[q]) /\ (NeedsThread(request'[q]) => ThreadOK(checkpoint'))
  BY <1>2, <1>4 DEF Base
<1> QED BY <1>3, <1>5, <1>6, <1>7 DEF Base

-----------------------------------------------------------------------------
(* Requests begin.                                                         *)

\* A request enters: what it is said to be is all that changes among the requests.
Entered(r, x) ==
  /\ request[r] = Idle /\ Enter(r, x)
  /\ x \in Request(Nat) /\ RequestOK(x) /\ (NeedsThread(x) => ThreadOK(checkpoint))

LEMMA EnteredKeeps ==
  ASSUME Base, NEW r \in Requests, NEW x, Entered(r, x),
         db' = db \/ (db' \in Task(Nat) /\ TaskOK(db') /\ db'.actions = <<>>),
         reports' \in 0..MaxReports, approved' \subseteq Ids
  PROVE  Base'
<1>1. /\ request' = [request EXCEPT ![r] = x] /\ checkpoint' = checkpoint
      /\ deaths' = deaths /\ ended' = ended
      /\ faults' \subseteq faults \cup {"overlap", "replanned"}
  BY DEF Entered, Enter
<1>2. Typed
  BY DEF Base
<1>3. /\ deaths' \in 0..MaxDeaths
      /\ faults' \subseteq {"overlap", "replanned", "conflict", "unique", "death"}
      /\ ended' \in {"none", "run", "report", "remove", "conflict", "unique", "raised", "died"}
  BY <1>1, <1>2 DEF Typed
<1>4. x \in Request(Nat) /\ RequestOK(x) /\ (NeedsThread(x) => ThreadOK(checkpoint'))
  BY <1>1 DEF Entered
<1> QED BY <1>1, <1>3, <1>4, BaseKept

LEMMA NewTaskIs ==
  /\ NewTask \in Task(Nat) /\ TaskOK(NewTask) /\ Emptied(NewTask)
  /\ NewTask.jobs = <<>> /\ NewTask.actions = <<>> /\ NewTask.status \notin Terminal
<1>1. <<>> \in Seq(Action(Nat)) /\ <<>> \in Seq(0..MaxRounds - 1) /\ <<"active">> \in Seq({"active", "removed"})
  OBVIOUS
<1>2. NewTask \in Task(Nat)
  BY <1>1 DEF NewTask, Task, TaskStatuses
<1>3. Emptied(NewTask)
  BY DEF NewTask, Emptied
<1>4. Story(NewTask)
  BY <1>3, EmptiedIs
<1> QED BY <1>2, <1>3, <1>4 DEF TaskOK, FirstJob, NewTask, Terminal

LEMMA CreateTaskIs ==
  ASSUME Base, NEW r \in Requests, CreateTask(r)
  PROVE  /\ Base'
         /\ Entered(r, [pc |-> "read", kind |-> "run", read |-> NewTask, task |-> NewTask])
<1> DEFINE x == [pc |-> "read", kind |-> "run", read |-> NewTask, task |-> NewTask]
<1>1. NewTask \in Task(Nat) /\ TaskOK(NewTask) /\ Emptied(NewTask) /\ NewTask.actions = <<>>
  BY NewTaskIs
<1>2. [Runs(NewTask) EXCEPT !.read = NewTask] = x
  BY DEF Runs
<1>3. x \in Request(Nat)
  BY <1>1 DEF Request
<1>4. RequestOK(x) /\ ~NeedsThread(x)
  BY <1>1 DEF RequestOK, Begun, NeedsThread, TaskOK
<1>5. Entered(r, x)
  <2>1. Enter(r, x) /\ request[r] = Idle
    BY <1>2 DEF CreateTask, Enter
  <2> QED BY <1>3, <1>4, <2>1 DEF Entered
<1> HIDE DEF x
<1>6. db' = NewTask /\ reports' = reports /\ approved' = approved
  BY DEF CreateTask
<1>7. Base'
  BY <1>1, <1>5, <1>6, EnteredKeeps DEF Base, Typed
<1> QED BY <1>5, <1>7 DEF x

\* The saved task without its actions, and with other inputs.
LEMMA EmptiedSaved ==
  ASSUME Base, db # None, NEW inputs \in Seq({"active", "removed"})
  PROVE  LET task == NoActions([db EXCEPT !.inputs = inputs]) IN
         /\ task \in Task(Nat) /\ Emptied(task) /\ FirstJob(task) /\ Story(task)
         /\ task.jobs = db.jobs /\ task.inputs = inputs
<1> DEFINE t == [db EXCEPT !.inputs = inputs]
           task == NoActions(t)
<1>1. db \in Task(Nat) /\ FirstJob(db)
  BY DEF Base, Typed, TaskOK
<1>2. t \in Task(Nat) /\ t.jobs = db.jobs /\ t.inputs = inputs
  BY <1>1 DEF Task
<1> HIDE DEF t
<1>3. task \in Task(Nat) /\ Emptied(task) /\ task.jobs = t.jobs /\ task.inputs = t.inputs
  BY <1>2, NoActionsIs
<1> HIDE DEF task
<1>4. FirstJob(task) /\ Story(task)
  BY <1>1, <1>2, <1>3, EmptiedIs DEF FirstJob
<1> QED BY <1>2, <1>3, <1>4 DEF task, t

LEMMA RunsIs ==
  ASSUME Base, db # None, NEW task \in Task(Nat), Emptied(task), FirstJob(task),
         task.jobs = db.jobs, task.inputs # db.inputs
  PROVE  Runs(task) \in Request(Nat) /\ RequestOK(Runs(task)) /\ ~NeedsThread(Runs(task))
<1>1. db \in Task(Nat)
  BY DEF Base, Typed
<1>2. Runs(task) \in Request(Nat)
  BY <1>1 DEF Runs, Request
<1> QED BY <1>2 DEF Runs, RequestOK, NeedsThread, Begun

LEMMA AppendInputIs ==
  ASSUME Base, NEW r \in Requests, AppendInput(r)
  PROVE  /\ Base' /\ db' = db /\ db # None
         /\ \E task : Entered(r, [pc |-> "read", kind |-> "run", read |-> db, task |-> task])
<1> DEFINE inputs == Append(db.inputs, "active")
           task == NoActions([db EXCEPT !.inputs = inputs])
<1>1. db # None /\ db \in Task(Nat) /\ db.inputs \in Seq({"active", "removed"})
  BY DEF AppendInput, Base, Typed, Task
<1>2. inputs \in Seq({"active", "removed"}) /\ inputs # db.inputs
  <2>1. Len(inputs) = Len(db.inputs) + 1 /\ Len(db.inputs) \in Nat
    BY <1>1
  <2> QED BY <1>1, <2>1
<1>3. NoActions([db EXCEPT !.inputs = Append(@, "active")]) = task
  OBVIOUS
<1> HIDE DEF inputs
<1>4. task \in Task(Nat) /\ Emptied(task) /\ FirstJob(task) /\ task.jobs = db.jobs /\ task.inputs = inputs
  BY <1>1, <1>2, EmptiedSaved
<1>5. Enter(r, Runs(task)) /\ db' = db /\ reports' = reports /\ approved' = approved
  BY <1>3 DEF AppendInput
<1> HIDE DEF task
<1>6. Runs(task) \in Request(Nat) /\ RequestOK(Runs(task)) /\ ~NeedsThread(Runs(task))
  BY <1>1, <1>2, <1>4, RunsIs
<1>7. Entered(r, Runs(task))
  BY <1>5, <1>6 DEF Entered, Enter
<1>8. Base'
  BY <1>5, <1>7, EnteredKeeps DEF Base, Typed
<1> QED BY <1>1, <1>5, <1>7, <1>8 DEF Runs

LEMMA RemoveInputIs ==
  ASSUME Base, db # None, NEW r \in Requests, NEW i \in DOMAIN db.inputs, RemoveInput(r, i)
  PROVE  /\ Base' /\ db' = db
         /\ \E task, x :
              /\ Entered(r, x)
              /\ \/ x = [pc |-> "read", kind |-> "run", read |-> db, task |-> task]
                 \/ x = [pc |-> "save", kind |-> "remove", read |-> db, task |-> task]
<1> DEFINE inputs == [db.inputs EXCEPT ![i] = "removed"]
           task == NoActions([db EXCEPT !.inputs = inputs])
           Saving(t) == [pc |-> "save", kind |-> "remove", read |-> db, task |-> t]
<1>1. db \in Task(Nat) /\ db.inputs \in Seq({"active", "removed"}) /\ TaskOK(db)
      /\ (db.actions # <<>> => ThreadOK(checkpoint))
  BY DEF Base, Typed, Task
<1>2. inputs \in Seq({"active", "removed"}) /\ (db.inputs[i] # "removed" => inputs # db.inputs)
  <2>1. inputs \in Seq({"active", "removed"}) /\ inputs[i] = "removed"
    BY <1>1, ExceptSeq
  <2> QED BY <2>1
<1>3. NoActions([db EXCEPT !.inputs[i] = "removed"]) = task
  OBVIOUS
<1> HIDE DEF inputs
<1>4. /\ task \in Task(Nat) /\ Emptied(task) /\ FirstJob(task) /\ Story(task)
      /\ task.jobs = db.jobs /\ task.inputs = inputs
  BY <1>1, <1>2, EmptiedSaved
<1>5. PICK x : /\ Enter(r, x)
               /\ \/ x = Saving(db)
                  \/ x = Saving(task) /\ db.inputs[i] # "removed"
                  \/ x = Runs(task) /\ db.inputs[i] # "removed"
  <2> DEFINE y == IF db.inputs[i] = "removed" THEN Saving(db)
                  ELSE IF \E j \in DOMAIN db.inputs : task.inputs[j] = "active"
                  THEN Runs(task) ELSE Saving(task)
  <2>1. Enter(r, y)
    BY <1>3 DEF RemoveInput
  <2>2. \/ y = Saving(db)
        \/ y = Saving(task) /\ db.inputs[i] # "removed"
        \/ y = Runs(task) /\ db.inputs[i] # "removed"
    <3> HIDE DEF Saving, task
    <3> QED OBVIOUS
  <2> HIDE DEF y
  <2> QED BY <2>1, <2>2
<1>6. db' = db /\ reports' = reports /\ approved' = approved /\ request[r] = Idle
  BY DEF RemoveInput, Enter
<1> HIDE DEF task
<1>7. Saving(db) \in Request(Nat) /\ RequestOK(Saving(db)) /\ (NeedsThread(Saving(db)) => ThreadOK(checkpoint))
  <2>1. Saving(db) \in Request(Nat)
    BY <1>1 DEF Request
  <2> QED BY <1>1, <2>1 DEF RequestOK, SaveOK, TaskOK, NeedsThread
<1>8. ASSUME db.inputs[i] # "removed"
      PROVE  Saving(task) \in Request(Nat) /\ RequestOK(Saving(task)) /\ ~NeedsThread(Saving(task))
  <2>1. Saving(task) \in Request(Nat)
    BY <1>1, <1>4 DEF Request
  <2> QED BY <1>2, <1>4, <1>8, <2>1 DEF RequestOK, SaveOK, NeedsThread, Emptied
<1>9. ASSUME db.inputs[i] # "removed"
      PROVE  Runs(task) \in Request(Nat) /\ RequestOK(Runs(task)) /\ ~NeedsThread(Runs(task))
  BY <1>2, <1>4, <1>9, RunsIs
<1>10. Entered(r, x)
  <2> HIDE DEF Saving
  <2> QED BY <1>5, <1>6, <1>7, <1>8, <1>9 DEF Entered
<1>11. Base'
  BY <1>6, <1>10, EnteredKeeps DEF Base, Typed
<1> QED BY <1>5, <1>6, <1>10, <1>11 DEF Runs

LEMMA RecordActionResultIs ==
  ASSUME Base, db # None, NEW r \in Requests, NEW i \in DOMAIN db.actions,
         NEW outcome \in Outcomes, NEW output \in BOOLEAN,
         RecordActionResult(r, db.actions[i], outcome, output)
  PROVE  /\ Base' /\ db' = db
         /\ Entered(r, [pc |-> "read", kind |-> "report", read |-> db,
                        result |-> [action |-> db.actions[i].id, outcome |-> outcome, output |-> output]])
<1> DEFINE result == [action |-> db.actions[i].id, outcome |-> outcome, output |-> output]
           x == [pc |-> "read", kind |-> "report", read |-> db, result |-> result]
<1>1. db \in Task(Nat) /\ db.actions \in Seq(Action(Nat)) /\ db.actions # <<>> /\ ThreadOK(checkpoint)
  <2>1. db \in Task(Nat) /\ db.actions \in Seq(Action(Nat))
    BY DEF Base, Typed, Task
  <2>2. db.actions # <<>>
    OBVIOUS
  <2> QED BY <2>1, <2>2 DEF Base
<1>2. db.actions[i] \in Action(Nat)
  BY <1>1
<1>3. result \in Result
  BY <1>2 DEF Result, Action
<1>4. /\ Enter(r, x) /\ request[r] = Idle /\ db' = db
      /\ reports' = reports + 1 /\ reports < MaxReports
      /\ approved' \subseteq approved \cup {result.action}
  BY DEF RecordActionResult, Enter
<1> HIDE DEF result
<1>5. x \in Request(Nat)
  BY <1>1, <1>3 DEF Request
<1>6. RequestOK(x)
  BY DEF RequestOK
<1>7. Entered(r, x)
  BY <1>1, <1>4, <1>5, <1>6 DEF Entered
<1> HIDE DEF x
<1>8. reports' \in 0..MaxReports /\ approved' \subseteq Ids
  <2>1. reports \in 0..MaxReports /\ MaxReports \in Nat /\ approved \subseteq Ids
    BY WorkflowAssumption DEF Base, Typed
  <2>2. result.action \in Ids
    BY <1>3 DEF Result
  <2> QED BY <1>4, <2>1, <2>2
<1>9. Base'
  BY <1>4, <1>7, <1>8, EnteredKeeps
<1> QED BY <1>4, <1>7, <1>9 DEF x, result

-----------------------------------------------------------------------------
(* Requests run the thread.                                                *)

\* The facts about a request that runs the thread.
LEMMA RunningIs ==
  ASSUME Base, NEW r \in Requests, request[r].pc = "running"
  PROVE  /\ request[r] \in Request(Nat) /\ RequestOK(request[r])
         /\ ThreadOK(request[r].w) /\ ThreadOK(checkpoint)
         /\ request[r].read \in Task(Nat) /\ request[r].kind \in {"run", "report"}
         /\ request[r].task \in Task(Nat) \cup {None} /\ request[r].result \in Result \cup {None}
         /\ request[r].result # None => request[r].w.node = "wait"
         /\ request[r].kind = "run" => /\ request[r].result = None
                                       /\ Begun(request[r]) /\ RunOK(request[r].task, request[r].w)
         /\ request[r].kind = "report" => request[r].task = None
<1>1. request[r] \in Request(Nat)
  BY DEF Base, Typed
<1>2. RequestOK(request[r]) /\ ThreadOK(checkpoint)
  BY DEF Base, NeedsThread
<1> QED BY <1>1, <1>2, RequestIs DEF RequestOK

\* What a request is that works on w.
Running(req, task, result, w) ==
  [pc |-> "running", kind |-> req.kind, read |-> req.read, task |-> task, result |-> result, w |-> w]

LEMMA InvokeIs ==
  ASSUME Base, NEW r \in Requests, Invoke(r)
  PROVE  /\ Base' /\ db' = db /\ reports' = reports /\ approved' = approved /\ faults' = faults
         /\ ended' = ended /\ request[r].pc = "read"
         /\ \/ /\ request[r].kind = "run" /\ checkpoint' = Fresh(request[r].task)
               /\ request' = [request EXCEPT ![r] =
                                Running(request[r], request[r].task, None, Fresh(request[r].task))]
            \/ /\ request[r].kind = "report" /\ checkpoint' = checkpoint /\ ThreadOK(checkpoint)
               /\ \E result \in {request[r].result, None} :
                    /\ result # None => checkpoint.node = "wait"
                    /\ request' = [request EXCEPT ![r] =
                                     Running(request[r], None, result, checkpoint)]
<1> DEFINE req == request[r]
           w == IF req.kind = "run" THEN Fresh(req.task) ELSE checkpoint
           task == IF req.kind = "run" THEN req.task ELSE None
           result == IF req.kind = "report" /\ w.node = "wait" THEN req.result ELSE None
           x == Running(req, task, result, w)
<1>1. /\ req.pc = "read" /\ request' = [request EXCEPT ![r] = x] /\ checkpoint' = w
      /\ db' = db /\ reports' = reports /\ deaths' = deaths /\ approved' = approved
      /\ ended' = ended /\ faults' = faults
  BY DEF Invoke, Running
<1>2. /\ req \in Request(Nat) /\ RequestOK(req) /\ (NeedsThread(req) => ThreadOK(checkpoint))
      /\ Typed
  BY DEF Base, Typed
<1>3. /\ req.read \in Task(Nat) /\ req.kind \in {"run", "report"}
      /\ req.kind = "run" => req.task \in Task(Nat) /\ Begun(req)
      /\ req.kind = "report" => req.result \in Result /\ ThreadOK(checkpoint)
  <2> HIDE DEF req
  <2> QED BY <1>1, <1>2, RequestIs DEF RequestOK, NeedsThread
<1>4. ThreadOK(w) /\ (req.kind = "run" => RunOK(task, w))
  <2>1. CASE req.kind = "run"
    <3>1. ThreadOK(Fresh(req.task)) /\ Fresh(req.task).node = "plan" /\ Fresh(req.task).task = req.task
      BY <1>3, <2>1, FreshIs DEF Begun
    <3>2. req.task.actions = <<>> /\ Untried(<<>>)
      BY <1>3, <2>1 DEF Begun, Emptied, Untried
    <3> QED BY <2>1, <3>1, <3>2 DEF RunOK
  <2>2. CASE req.kind = "report"
    BY <1>3, <2>2
  <2> QED BY <1>3, <2>1, <2>2
<1>5. x \in Request(Nat)
  <2>1. w \in Workflow(Nat) /\ task \in Task(Nat) \cup {None} /\ result \in Result \cup {None}
    BY <1>3, <1>4 DEF ThreadOK
  <2> HIDE DEF w, task, result, req
  <2> QED BY <1>3, <2>1 DEF Request, Running
<1>6. RequestOK(x)
  <2>1. x.pc = "running" /\ x.w = w /\ x.result = result /\ x.kind = req.kind /\ x.task = task /\ x.read = req.read
    BY DEF Running
  <2>2. req.kind = "run" => Begun(x)
    BY <1>3, <2>1 DEF Begun
  <2>3. /\ result # None => w.node = "wait"
        /\ req.kind = "run" => result = None
        /\ req.kind = "report" => task = None
    OBVIOUS
  <2> HIDE DEF x, w, task, result, req
  <2> QED BY <1>4, <2>1, <2>2, <2>3 DEF RequestOK
<1>7. Base'
  <2> HIDE DEF x, w, req
  <2>1. /\ reports' \in 0..MaxReports /\ deaths' \in 0..MaxDeaths /\ approved' \subseteq Ids
        /\ ended' \in {"none", "run", "report", "remove", "conflict", "unique", "raised", "died"}
        /\ faults' \subseteq {"overlap", "replanned", "conflict", "unique", "death"}
    BY <1>1, <1>2 DEF Typed
  <2> QED BY <1>1, <1>4, <1>5, <1>6, <2>1, BaseKept
<1>8. CASE req.kind = "run"
  BY <1>1, <1>7, <1>8
<1>9. CASE req.kind = "report"
  BY <1>1, <1>3, <1>7, <1>9
<1> QED BY <1>3, <1>8, <1>9

LEMMA RunningMoves ==
  ASSUME NEW req \in Request(Nat), req.pc = "running", NEW v
  PROVE  [[req EXCEPT !.w = v] EXCEPT !.result = None] = Running(req, req.task, None, v)
<1> DEFINE T == Task(Nat)
           U == Task(Nat) \cup {None}
           V == Result \cup {None}
           W == Workflow(Nat)
<1>1. req \in [pc : {"running"}, kind : {"run", "report"}, read : T, task : U, result : V, w : W]
  BY DEF Request
<1> HIDE DEF T, U, V, W
<1>2. [req EXCEPT !.w = v] = Running(req, req.task, req.result, v)
  BY <1>1 DEF Running
<1>3. [Running(req, req.task, req.result, v) EXCEPT !.result = None] = Running(req, req.task, None, v)
  BY DEF Running
<1> QED BY <1>2, <1>3

\* A node ends: request r goes on with v.
LEMMA MovesIs ==
  ASSUME Base, NEW r \in Requests, request[r].pc = "running", NEW v, Moves(r, v), ThreadOK(v),
         request[r].kind = "run" => RunOK(request[r].task, v),
         faults' \subseteq faults \cup {"replanned"}
  PROVE  /\ Base' /\ checkpoint' = v
         /\ request' = [request EXCEPT ![r] = Running(request[r], request[r].task, None, v)]
         /\ db' = db /\ reports' = reports /\ approved' = approved /\ ended' = ended
<1> DEFINE req == request[r]
           x == Running(req, req.task, None, v)
<1>1. /\ req \in Request(Nat) /\ RequestOK(req) /\ ThreadOK(checkpoint)
      /\ req.read \in Task(Nat) /\ req.kind \in {"run", "report"} /\ req.w \in Workflow(Nat)
      /\ req.task \in Task(Nat) \cup {None} /\ req.result \in Result \cup {None}
      /\ req.kind = "run" => Begun(req)
      /\ req.kind = "report" => req.task = None
  BY RunningIs DEF ThreadOK
<1>2. Typed /\ v \in Workflow(Nat)
  BY DEF Base, ThreadOK
<1>3. req.pc = "running"
  OBVIOUS
<1>4. [[req EXCEPT !.w = v] EXCEPT !.result = None] = x
  <2> HIDE DEF req
  <2> QED BY <1>1, <1>3, RunningMoves
<1>5. /\ request' = [[request EXCEPT ![r] = [req EXCEPT !.w = v]] EXCEPT ![r] = [@ EXCEPT !.result = None]]
      /\ checkpoint' = v
      /\ db' = db /\ reports' = reports /\ deaths' = deaths /\ approved' = approved /\ ended' = ended
  BY DEF Moves
<1>6. request' = [request EXCEPT ![r] = x]
  <2> DEFINE y == [req EXCEPT !.w = v]
             f == [request EXCEPT ![r] = y]
  <2>1. f[r] = y /\ request \in [Requests -> Request(Nat)]
    BY <1>2 DEF Typed
  <2>2. request' = [f EXCEPT ![r] = [f[r] EXCEPT !.result = None]]
    BY <1>5
  <2>3. request' = [f EXCEPT ![r] = x]
    BY <1>4, <2>1, <2>2
  <2> HIDE DEF y, x
  <2> QED BY <2>1, <2>3
<1>7. x \in Request(Nat)
  BY <1>1, <1>2 DEF Request, Running
<1>8. RequestOK(x)
  <2>1. x.pc = "running" /\ x.w = v /\ x.result = None /\ x.kind = req.kind /\ x.task = req.task /\ x.read = req.read
    BY DEF Running
  <2>2. req.kind = "run" => Begun(x)
    BY <1>1, <2>1 DEF Begun
  <2> HIDE DEF x
  <2> QED BY <1>1, <2>1, <2>2 DEF RequestOK
<1>9. Base'
  <2> HIDE DEF x, req
  <2>1. /\ reports' \in 0..MaxReports /\ deaths' \in 0..MaxDeaths /\ approved' \subseteq Ids
        /\ ended' \in {"none", "run", "report", "remove", "conflict", "unique", "raised", "died"}
        /\ faults' \subseteq {"overlap", "replanned", "conflict", "unique", "death"}
    BY <1>2, <1>5 DEF Typed
  <2> QED BY <1>5, <1>6, <1>7, <1>8, <2>1, BaseKept
<1> QED BY <1>5, <1>6, <1>9

\* What a result makes of an action a: b.  Only the action it is about is another one.
ChangedBy(a, result, b) ==
  /\ b.id = a.id /\ b.policy = a.policy
  /\ \/ b.status = a.status /\ b.attempts = a.attempts
     \/ /\ a.id = result.action /\ b.status # "proposed"
        /\ b.attempts \in {a.attempts, a.attempts + 1}
        /\ b.status = "ready" => /\ result.outcome \in {"approved", "failed", "retry"}
                                 /\ b.attempts = a.attempts \/ b.attempts < b.policy.maxAttempts
        /\ b.status = "succeeded" => result.outcome = "succeeded"

LEMMA TakenIs ==
  ASSUME NEW w \in Workflow(Nat), NEW v \in Workflow(Nat), NEW result \in Result, Taken(w, v, result)
  PROVE  /\ DOMAIN v.task.actions = DOMAIN w.task.actions
         /\ \A i \in DOMAIN w.task.actions :
              ChangedBy(w.task.actions[i], result, v.task.actions[i])
<1> DEFINE old == w.task.actions
           new == v.task.actions
           own == WithId(old, result.action)
           i == Least(own)
<1>1. old \in Seq(Action(Nat)) /\ result.outcome \in Outcomes
  BY WorkflowFields DEF Result
<1>2. CASE own = {}
  BY <1>2 DEF Taken, ChangedBy
<1>3. CASE own # {}
  <2>1. i \in own /\ Took(old, new, i, result.outcome)
    BY <1>3 DEF Taken
  <2> HIDE DEF i
  <2>2. i \in DOMAIN old /\ old[i].id = result.action
    BY <2>1 DEF WithId
  <2> DEFINE b == Attempted(old[i], result.outcome)
  <2>3. old[i] \in Action(Nat)
    BY <1>1, <2>2
  <2>4. /\ b.policy = old[i].policy
        /\ b.attempts = IF result.outcome \in Tries THEN old[i].attempts + 1 ELSE old[i].attempts
        /\ b.status # "proposed"
        /\ b.status = "ready" => result.outcome \in {"approved", "failed", "retry"}
        /\ b.status = "ready" /\ result.outcome # "approved" => b.attempts < b.policy.maxAttempts
        /\ b.status = "succeeded" => result.outcome = "succeeded"
    BY <1>1, <2>3, AttemptedIs
  <2> HIDE DEF b
  <2>5. /\ new[i].attempts = b.attempts /\ SameActions(old, new)
        /\ new[i].status = b.status \/ new[i].status = "failed"
        /\ \A j \in DOMAIN old \ {i} : new[j].status = old[j].status /\ new[j].attempts = old[j].attempts
    BY <2>1 DEF Took, b
  <2>6. ChangedBy(old[i], result, new[i])
    BY <2>2, <2>4, <2>5 DEF ChangedBy, SameActions, Tries
  <2>7. \A j \in DOMAIN old \ {i} : ChangedBy(old[j], result, new[j])
    BY <2>5 DEF ChangedBy, SameActions
  <2> QED BY <2>5, <2>6, <2>7 DEF SameActions
<1> QED BY <1>2, <1>3

\* What a node may make of a thread w: v.
PlansAnew(w, v) ==
  /\ w.node \in {"plan", "replan"} /\ v.node \in {"step", "end"}
  /\ v.rounds = w.rounds + 1 /\ Emptied(v.task)
  /\ v.task.jobs = Append(w.task.jobs, w.rounds) /\ v.task.inputs = w.task.inputs

DoesStep(w, v) ==
  /\ w.node \in {"step", "fail"} /\ SameRun(w, v) /\ v.node \in {"step", "fail", "wait", "end"}
  /\ w.task.actions = <<>> /\ Untried(v.task.actions)
  /\ v.node # "wait" => v.task.actions = <<>>

TakesUp(w, result, v) ==
  /\ w.node = "wait" /\ SameRun(w, v) /\ v.node = "resume"
  /\ result \in Result /\ result # None /\ v.last = result /\ v.task = w.task

Resumes(w, v) ==
  /\ w.node = "resume" /\ SameRun(w, v) /\ v.node \in {"end", "replan", "retry_host_action", "wait"}
  /\ w.last \in Result /\ DOMAIN v.task.actions = DOMAIN w.task.actions
  /\ \A i \in DOMAIN w.task.actions : ChangedBy(w.task.actions[i], w.last, v.task.actions[i])
  /\ v.node = "end" => v.task.status \in Terminal

TriesAgain(w, v) ==
  /\ w.node = "retry_host_action" /\ SameRun(w, v) /\ v.node = "wait"
  /\ v.task.actions = w.task.actions

NodeStep(r, v) ==
  LET w == request[r].w IN
  /\ \/ PlansAnew(w, v) \/ DoesStep(w, v) \/ TakesUp(w, request[r].result, v)
     \/ Resumes(w, v) \/ TriesAgain(w, v)
  /\ faults' = IF w.node \in {"plan", "replan"}
               THEN faults \cup {f \in {"replanned"} : Others(r) # {}} ELSE faults

Moved(r, v) ==
  /\ request[r].pc = "running" /\ ThreadOK(v) /\ checkpoint' = v
  /\ request' = [request EXCEPT ![r] = Running(request[r], request[r].task, None, v)]
  /\ db' = db /\ reports' = reports /\ approved' = approved /\ ended' = ended

LEMMA NodeKeeps ==
  ASSUME Base, NEW r \in Requests, request[r].pc = "running", NEW v, Moves(r, v), ThreadOK(v),
         request[r].kind = "run" => RunOK(request[r].task, v), NodeStep(r, v)
  PROVE  Base' /\ \E u : Moved(r, u) /\ NodeStep(r, u)
<1>1. faults' \subseteq faults \cup {"replanned"}
  BY DEF NodeStep
<1> QED BY <1>1, MovesIs DEF Moved

LEMMA PlanNode ==
  ASSUME Base, NEW r \in Requests, NEW plan \in Plans, Plan(r, plan)
  PROVE  Base' /\ \E v : Moved(r, v) /\ NodeStep(r, v)
<1> DEFINE w == request[r].w
           v == RouteStep(Prepare(w, plan))
<1>1. /\ request[r].pc = "running" /\ w.node = "plan" /\ Moves(r, v)
      /\ faults' = faults \cup {f \in {"replanned"} : Others(r) # {}}
  BY DEF Plan, At, MovesByPlan
<1>2. ThreadOK(w) /\ (request[r].kind = "run" => RunOK(request[r].task, w))
  BY <1>1, RunningIs
<1> HIDE DEF w
<1>3. /\ w \in Workflow(Nat) /\ Emptied(w.task) /\ w.pending = {} /\ w.failures <= MaxToolRetries
      /\ w.rounds < MaxRounds /\ FirstJob(w.task) /\ w.rounds = 0
  BY <1>1, <1>2, WorkflowAssumption DEF ThreadOK
<1>4. /\ ThreadOK(v) /\ v.node \in {"step", "end"} /\ Emptied(v.task) /\ v.rounds = w.rounds + 1
      /\ v.task.inputs = w.task.inputs /\ v.task.jobs = Append(w.task.jobs, w.rounds)
  BY <1>3, PrepareIs
<1> HIDE DEF v
<1>5. request[r].kind = "run" => RunOK(request[r].task, v)
  BY <1>2, <1>4 DEF RunOK, Emptied, Untried
<1>6. NodeStep(r, v)
  BY <1>1, <1>4 DEF NodeStep, PlansAnew, w
<1> QED BY <1>1, <1>4, <1>5, <1>6, NodeKeeps

LEMMA ReplanNode ==
  ASSUME Base, NEW r \in Requests, NEW plan \in Plans, Replan(r, plan)
  PROVE  Base' /\ \E v : Moved(r, v) /\ NodeStep(r, v)
<1> DEFINE w == request[r].w
           v == RouteStep(Prepare(Cleared(w), plan))
<1>1. /\ request[r].pc = "running" /\ w.node = "replan" /\ Moves(r, v) /\ w.rounds < MaxRounds
      /\ faults' = faults \cup {f \in {"replanned"} : Others(r) # {}}
  BY DEF Replan, At, MovesByPlan
<1>2. ThreadOK(w) /\ (request[r].kind = "run" => RunOK(request[r].task, w))
  BY <1>1, RunningIs
<1> HIDE DEF w
<1>3. /\ ThreadOK(v) /\ v.node \in {"step", "end"} /\ Emptied(v.task) /\ v.rounds = w.rounds + 1
      /\ v.task.inputs = w.task.inputs /\ v.task.jobs = Append(w.task.jobs, w.rounds)
  BY <1>1, <1>2, ReplanIs
<1> HIDE DEF v
<1>4. request[r].kind # "run"
  BY <1>1, <1>2 DEF RunOK
<1>5. NodeStep(r, v)
  BY <1>1, <1>3 DEF NodeStep, PlansAnew, w
<1> QED BY <1>1, <1>3, <1>4, <1>5, NodeKeeps

LEMMA RunStepNode ==
  ASSUME Base, NEW r \in Requests, RunStep(r)
  PROVE  Base' /\ \E v : Moved(r, v) /\ NodeStep(r, v)
<1> DEFINE w == request[r].w
           v == AfterStep(StepDone(w))
<1>1. request[r].pc = "running" /\ w.node = "step" /\ Moves(r, v) /\ faults' = faults
  BY DEF RunStep, At, Goes
<1>2. ThreadOK(w) /\ (request[r].kind = "run" => RunOK(request[r].task, w))
  BY <1>1, RunningIs
<1> HIDE DEF w
<1>3. /\ ThreadOK(v) /\ SameRun(w, v) /\ v.node \in {"step", "wait", "end"}
      /\ Untried(v.task.actions) /\ (v.node # "wait" => Emptied(v.task))
  BY <1>1, <1>2, RunStepIs
<1> HIDE DEF v
<1>4. request[r].kind = "run" => RunOK(request[r].task, v)
  BY <1>2, <1>3 DEF RunOK, SameRun, Emptied
<1>5. w.task.actions = <<>>
  BY <1>1, <1>2 DEF ThreadOK, Emptied
<1>6. NodeStep(r, v)
  BY <1>1, <1>3, <1>5 DEF NodeStep, DoesStep, Emptied, w
<1> QED BY <1>1, <1>3, <1>4, <1>6, NodeKeeps

LEMMA StepRaisesNode ==
  ASSUME Base, NEW r \in Requests, StepRaises(r)
  PROVE  Base' /\ \E v : Moved(r, v) /\ NodeStep(r, v)
<1> DEFINE w == request[r].w
           v == AfterStep(StepFailed(w))
<1>1. request[r].pc = "running" /\ w.node = "step" /\ Moves(r, v) /\ faults' = faults
  BY DEF StepRaises, At, Goes
<1>2. ThreadOK(w) /\ (request[r].kind = "run" => RunOK(request[r].task, w))
  BY <1>1, RunningIs
<1> HIDE DEF w
<1>3. ThreadOK(v) /\ SameRun(w, v) /\ v.node \in {"step", "fail"} /\ v.task = w.task
  BY <1>1, <1>2, StepRaisesIs
<1> HIDE DEF v
<1>4. request[r].kind = "run" => RunOK(request[r].task, v)
  BY <1>1, <1>2, <1>3 DEF RunOK
<1>5. w.task.actions = <<>> /\ Untried(<<>>)
  BY <1>1, <1>2 DEF ThreadOK, Emptied, Untried
<1>6. NodeStep(r, v)
  BY <1>1, <1>3, <1>5 DEF NodeStep, DoesStep, w
<1> QED BY <1>1, <1>3, <1>4, <1>6, NodeKeeps

LEMMA FailNode ==
  ASSUME Base, NEW r \in Requests, Fail(r)
  PROVE  Base' /\ \E v : Moved(r, v) /\ NodeStep(r, v)
<1> DEFINE w == request[r].w
           v == [w EXCEPT !.node = "end", !.task.status = "failed", !.task.current = None,
                          !.pending = {}, !.replan = FALSE, !.retry = None]
<1>1. request[r].pc = "running" /\ w.node = "fail" /\ Moves(r, v) /\ faults' = faults
  BY DEF Fail, At, Goes
<1>2. ThreadOK(w) /\ (request[r].kind = "run" => RunOK(request[r].task, w))
  BY <1>1, RunningIs
<1> HIDE DEF w
<1>3. ThreadOK(v) /\ SameRun(w, v) /\ v.node = "end" /\ v.task.actions = <<>>
  BY <1>1, <1>2, FailIs
<1> HIDE DEF v
<1>4. request[r].kind = "run" => RunOK(request[r].task, v)
  BY <1>2, <1>3 DEF RunOK, SameRun, Untried
<1>5. w.task.actions = <<>> /\ Untried(<<>>)
  BY <1>1, <1>2 DEF ThreadOK, Emptied, Untried
<1>6. NodeStep(r, v)
  BY <1>1, <1>3, <1>5 DEF NodeStep, DoesStep, w
<1> QED BY <1>1, <1>3, <1>4, <1>6, NodeKeeps

LEMMA WaitNode ==
  ASSUME Base, NEW r \in Requests, WaitForHostAction(r)
  PROVE  Base' /\ \E v : Moved(r, v) /\ NodeStep(r, v)
<1> DEFINE w == request[r].w
           result == request[r].result
           v == [w EXCEPT !.node = "resume", !.last = result]
<1>1. /\ request[r].pc = "running" /\ w.node = "wait" /\ Moves(r, v) /\ faults' = faults
      /\ result # None
  BY DEF WaitForHostAction, At, Goes
<1>2. ThreadOK(w) /\ result \in Result
  BY <1>1, RunningIs
<1>3. request[r].kind # "run"
  BY <1>1, RunningIs
<1> HIDE DEF w, result
<1>4. ThreadOK(v) /\ SameRun(w, v) /\ v.node = "resume" /\ v.task = w.task /\ v.last = result
  BY <1>1, <1>2, WaitIs
<1> HIDE DEF v
<1>5. NodeStep(r, v)
  BY <1>1, <1>2, <1>4 DEF NodeStep, TakesUp, w, result
<1> QED BY <1>1, <1>3, <1>4, <1>5, NodeKeeps

LEMMA ResumeNode ==
  ASSUME Base, NEW r \in Requests, ResumeFromActionResult(r)
  PROVE  Base' /\ \E v : Moved(r, v) /\ NodeStep(r, v)
<1> DEFINE w == request[r].w
           v == AfterResume(ApplyActionResult(w, w.last))
<1>1. request[r].pc = "running" /\ w.node = "resume" /\ Moves(r, v) /\ faults' = faults
  BY DEF ResumeFromActionResult, At, Goes
<1>2. ThreadOK(w) /\ (request[r].kind = "run" => RunOK(request[r].task, w))
  BY <1>1, RunningIs
<1> HIDE DEF w
<1>3. /\ ThreadOK(v) /\ SameRun(w, v) /\ Taken(w, v, w.last)
      /\ SameActions(w.task.actions, v.task.actions)
      /\ v.node \in {"end", "replan", "retry_host_action", "wait"}
      /\ v.node = "end" => v.task.status \in Terminal
  BY <1>1, <1>2, ResumeIs
<1> HIDE DEF v
<1>4. /\ request[r].kind # "run" /\ w.last \in Result
      /\ w \in Workflow(Nat) /\ v \in Workflow(Nat)
  BY <1>1, <1>2, <1>3 DEF RunOK, ThreadOK
<1>5. /\ DOMAIN v.task.actions = DOMAIN w.task.actions
      /\ \A i \in DOMAIN w.task.actions : ChangedBy(w.task.actions[i], w.last, v.task.actions[i])
  BY <1>3, <1>4, TakenIs
<1>6. NodeStep(r, v)
  BY <1>1, <1>3, <1>4, <1>5 DEF NodeStep, Resumes, w
<1> QED BY <1>1, <1>3, <1>4, <1>6, NodeKeeps

LEMMA RetryNode ==
  ASSUME Base, NEW r \in Requests, RetryPending(r)
  PROVE  Base' /\ \E v : Moved(r, v) /\ NodeStep(r, v)
<1> DEFINE w == request[r].w
           v == [RetryHostAction(w) EXCEPT !.node = "wait"]
<1>1. request[r].pc = "running" /\ w.node = "retry_host_action" /\ Moves(r, v) /\ faults' = faults
  BY DEF RetryPending, At, Goes
<1>2. ThreadOK(w) /\ (request[r].kind = "run" => RunOK(request[r].task, w))
  BY <1>1, RunningIs
<1> HIDE DEF w
<1>3. ThreadOK(v) /\ SameRun(w, v) /\ v.node = "wait" /\ v.task.actions = w.task.actions
  BY <1>1, <1>2, RetryIs
<1> HIDE DEF v
<1>4. request[r].kind # "run"
  BY <1>1, <1>2 DEF RunOK
<1>5. NodeStep(r, v)
  BY <1>1, <1>3 DEF NodeStep, TriesAgain, w
<1> QED BY <1>1, <1>3, <1>4, <1>5, NodeKeeps

-----------------------------------------------------------------------------
(* Requests end.                                                           *)

\* What a request is that is to save task.
Saving(req, task) == [pc |-> "save", kind |-> req.kind, read |-> req.read, task |-> task]

\* The task of a thread, as the request returns it.
Returned(req, task) ==
  /\ task.jobs = req.w.task.jobs /\ task.inputs = req.w.task.inputs
  /\ task.actions = req.w.task.actions
  /\ \/ req.w.node \in {"wait", "end"}
     \/ req.kind = "run" /\ req.w.node = "plan"
  /\ req.kind = "report" => task = req.w.task

Left(r, task) ==
  /\ request[r].pc = "running" /\ Returned(request[r], task)
  /\ request' = [request EXCEPT ![r] = Saving(request[r], task)]
  /\ db' = db /\ checkpoint' = checkpoint /\ reports' = reports /\ approved' = approved
  /\ ended' = ended /\ faults' = faults

LEMMA SavesKeeps ==
  ASSUME Base, NEW r \in Requests, request[r].pc = "running", NEW task \in Task(Nat),
         Saves(r, task), SaveOK(Saving(request[r], task)), Returned(request[r], task)
  PROVE  Base' /\ Left(r, task)
<1> DEFINE x == Saving(request[r], task)
<1>1. /\ request' = [request EXCEPT ![r] = x] /\ db' = db /\ checkpoint' = checkpoint
      /\ reports' = reports /\ deaths' = deaths /\ approved' = approved /\ ended' = ended
      /\ faults' = faults
  BY DEF Saves, Saving
<1>2. x \in Request(Nat)
  BY RunningIs DEF Request, Saving
<1>3. RequestOK(x)
  BY DEF RequestOK, Saving
<1>4. ThreadOK(checkpoint) /\ Typed
  BY RunningIs DEF Base
<1> HIDE DEF x
<1>5. Base'
  <2>1. /\ reports' \in 0..MaxReports /\ deaths' \in 0..MaxDeaths /\ approved' \subseteq Ids
        /\ ended' \in {"none", "run", "report", "remove", "conflict", "unique", "raised", "died"}
        /\ faults' \subseteq {"overlap", "replanned", "conflict", "unique", "death"}
    BY <1>1, <1>4 DEF Typed
  <2> QED BY <1>1, <1>2, <1>3, <1>4, <2>1, BaseKept
<1> QED BY <1>1, <1>5 DEF Left, x

LEMMA ReturnIs ==
  ASSUME Base, NEW r \in Requests, Return(r)
  PROVE  Base' /\ \E task \in Task(Nat) : Left(r, task)
<1> DEFINE req == request[r]
           w == req.w
           marked == MarkResult(w.task)
           task == IF req.kind = "run" THEN marked ELSE w.task
<1>1. req.pc = "running" /\ w.node \in {"wait", "end"} /\ Saves(r, task)
  BY DEF Return, At
<1>2. /\ ThreadOK(w) /\ w.task \in Task(Nat) /\ req.kind \in {"run", "report"}
      /\ req.kind = "run" => Begun(req) /\ RunOK(req.task, w)
  BY <1>1, RunningIs, WorkflowFields DEF ThreadOK
<1> HIDE DEF req
<1>3. Confirmed(w.task.actions) /\ Story(w.task) /\ FirstJob(w.task) /\ w.task.jobs # <<>>
  BY <1>1, <1>2 DEF ThreadOK
<1>4. /\ marked \in Task(Nat) /\ Story(marked)
      /\ marked.actions = w.task.actions /\ marked.jobs = w.task.jobs /\ marked.inputs = w.task.inputs
      /\ marked.status \in Terminal =>
           \/ marked.status = w.task.status
           \/ \A i \in DOMAIN w.task.actions : w.task.actions[i].status \notin {"proposed", "ready"}
           \/ marked.status = "failed" /\ \E i \in DOMAIN w.task.actions : w.task.actions[i].status = "failed"
  BY <1>2, <1>3, MarkResultIs
<1>5. ASSUME req.kind = "run", marked.status \in Terminal PROVE marked.actions = <<>>
  <2>1. CASE w.node = "end"
    BY <1>2, <1>4, <1>5, <2>1 DEF RunOK
  <2>2. CASE w.node = "wait"
    <3>1. /\ w.task.actions # <<>> /\ w.task.actions \in Seq(Action(Nat))
          /\ Untried(w.task.actions) /\ w.task.status \notin Terminal
      BY <1>2, <1>5, <2>2 DEF ThreadOK, RunOK, Task
    <3>2. \A i \in DOMAIN w.task.actions : w.task.actions[i].status \in {"proposed", "ready"}
      BY <3>1 DEF Untried
    <3>3. 1 \in DOMAIN w.task.actions
      <4> HIDE DEF w
      <4> QED BY <3>1
    <3> QED BY <1>4, <1>5, <3>1, <3>2, <3>3
  <2> QED BY <1>1, <2>1, <2>2
<1> HIDE DEF marked
<1>6. /\ task \in Task(Nat) /\ Story(task) /\ FirstJob(task) /\ task.jobs # <<>>
      /\ task.actions = w.task.actions /\ task.jobs = w.task.jobs /\ task.inputs = w.task.inputs
      /\ req.kind = "run" /\ task.status \in Terminal => task.actions = <<>>
  BY <1>2, <1>3, <1>4, <1>5 DEF FirstJob
<1>7. Returned(req, task)
  BY <1>1, <1>6 DEF Returned
<1>8. SaveOK(Saving(req, task))
  <2>1. req.kind = "run" => task.inputs # req.read.inputs \/ req.read = NewTask
    BY <1>2, <1>6 DEF RunOK, Begun
  <2> HIDE DEF task, w
  <2> QED BY <1>2, <1>6, <2>1 DEF SaveOK, Saving
<1> HIDE DEF task, w
<1>9. Base' /\ Left(r, task)
  BY <1>1, <1>6, <1>7, <1>8, SavesKeeps DEF req
<1> QED BY <1>6, <1>9

\* A request is gone; the thread stays as it is.
Ended(r) ==
  /\ request[r] # Idle /\ request' = [request EXCEPT ![r] = Idle]
  /\ checkpoint' = checkpoint /\ reports' = reports /\ approved' = approved

LEMMA EndsKeeps ==
  ASSUME Base, NEW r \in Requests, Ended(r),
         db' = db \/ (db' \in Task(Nat) /\ TaskOK(db') /\ (db'.actions # <<>> => ThreadOK(checkpoint'))),
         deaths' \in 0..MaxDeaths,
         ended' \in {"none", "run", "report", "remove", "conflict", "unique", "raised", "died"},
         faults' \subseteq {"overlap", "replanned", "conflict", "unique", "death"}
  PROVE  Base'
<1>1. Idle \in Request(Nat) /\ RequestOK(Idle) /\ ~NeedsThread(Idle)
  BY DEF Idle, Request, RequestOK, NeedsThread
<1>2. request' = [request EXCEPT ![r] = Idle] /\ checkpoint' = checkpoint
      /\ reports' \in 0..MaxReports /\ approved' \subseteq Ids
  BY DEF Ended, Base, Typed
<1> QED BY <1>1, <1>2, BaseKept

LEMMA PlanRaisesIs ==
  ASSUME Base, NEW r \in Requests, PlanRaises(r)
  PROVE  /\ Base'
         /\ \/ \E task \in Task(Nat) : Left(r, task)
            \/ /\ Ended(r) /\ db' = db /\ ended' = "raised" /\ faults' = faults
               /\ request[r].kind = "report" /\ request[r].w.node \in {"plan", "replan"}
<1> DEFINE req == request[r]
           task == MarkFailed(req.task)
<1>1. /\ req.pc = "running" /\ req.w.node \in {"plan", "replan"} /\ req # Idle
      /\ ThreadOK(req.w) /\ req.kind \in {"run", "report"}
      /\ req.kind = "run" => Begun(req) /\ RunOK(req.task, req.w)
  BY RunningIs DEF PlanRaises, At, Idle
<1>2. CASE req.kind = "run"
  <2>1. Saves(r, task)
    BY <1>2 DEF PlanRaises
  <2>2. Begun(req) /\ req.w.node = "plan" /\ req.w.task = req.task
    BY <1>1, <1>2 DEF RunOK
  <2>3. /\ task \in Task(Nat) /\ Story(task) /\ task.jobs = req.task.jobs
        /\ task.inputs = req.task.inputs /\ SameActions(req.task.actions, task.actions)
    <3> HIDE DEF req
    <3> QED BY <2>2, MarkFailedIs DEF Begun
  <2>4. task.actions = <<>>
    <3>1. task.actions \in Seq(Action(Nat)) /\ req.task.actions = <<>>
      <4>1. task.actions \in Seq(Action(Nat))
        BY <2>3 DEF Task
      <4>2. req.task.actions = <<>>
        BY <2>2 DEF Begun, Emptied
      <4> QED BY <4>1, <4>2
    <3>2. DOMAIN task.actions = {} /\ DOMAIN task.actions = 1..Len(task.actions) /\ Len(task.actions) \in Nat
      <4>1. DOMAIN task.actions = DOMAIN req.task.actions
        BY <2>3 DEF SameActions
      <4>2. DOMAIN task.actions = {}
        BY <3>1, <4>1
      <4>3. DOMAIN task.actions = 1..Len(task.actions) /\ Len(task.actions) \in Nat
        BY <3>1
      <4> QED BY <4>2, <4>3
    <3>3. Len(task.actions) = 0
      <4>1. 1 \notin 1..Len(task.actions)
        BY <3>2
      <4> QED BY <3>2, <4>1
    <3> QED BY <3>1, <3>3
  <2> HIDE DEF task
  <2>5. Returned(req, task)
    BY <1>2, <2>2, <2>3, <2>4 DEF Returned, Begun, Emptied
  <2>6. SaveOK(Saving(req, task))
    BY <1>2, <2>2, <2>3, <2>4 DEF SaveOK, Saving, Begun, FirstJob
  <2>7. Base' /\ Left(r, task)
    BY <1>1, <2>1, <2>3, <2>5, <2>6, SavesKeeps
  <2> QED BY <2>3, <2>7
<1>3. CASE req.kind # "run"
  <2>1. /\ Ended(r) /\ db' = db /\ deaths' = deaths /\ ended' = "raised" /\ faults' = faults
    BY <1>1, <1>3 DEF PlanRaises, Ends, Ended
  <2>2. Base'
    BY <2>1, EndsKeeps DEF Base, Typed
  <2> QED BY <1>1, <1>3, <2>1, <2>2
<1> QED BY <1>2, <1>3

LEMMA SaveRequestIs ==
  ASSUME Base, NEW r \in Requests, request[r].pc = "save"
  PROVE  /\ request[r] # Idle /\ SaveOK(request[r]) /\ request[r].task \in Task(Nat)
         /\ request[r].read \in Task(Nat) /\ request[r].kind \in {"run", "report", "remove"}
         /\ request[r].task.actions # <<>> => ThreadOK(checkpoint)
<1>1. request[r] \in Request(Nat) /\ RequestOK(request[r])
      /\ (NeedsThread(request[r]) => ThreadOK(checkpoint))
  BY DEF Base, Typed
<1> QED BY <1>1, RequestIs DEF RequestOK, NeedsThread, Idle

LEMMA SaveIs ==
  ASSUME Base, NEW r \in Requests, Save(r)
  PROVE  /\ Base' /\ Ended(r) /\ request[r].pc = "save" /\ db = request[r].read
         /\ db' = request[r].task /\ JobsUnique(db') /\ ended' = request[r].kind /\ faults' = faults
<1>1. /\ request[r].pc = "save" /\ db = request[r].read /\ JobsUnique(request[r].task)
      /\ db' = request[r].task /\ request' = [request EXCEPT ![r] = Idle] /\ ended' = request[r].kind
      /\ checkpoint' = checkpoint /\ reports' = reports /\ deaths' = deaths
      /\ approved' = approved /\ faults' = faults
  BY DEF Save, Unchanged, Ends
<1>2. /\ request[r] # Idle /\ SaveOK(request[r]) /\ request[r].task \in Task(Nat)
      /\ request[r].kind \in {"run", "report", "remove"}
      /\ request[r].task.actions # <<>> => ThreadOK(checkpoint)
  BY <1>1, SaveRequestIs
<1>3. Ended(r)
  BY <1>1, <1>2 DEF Ended
<1>4. TaskOK(db') /\ (db'.actions # <<>> => ThreadOK(checkpoint'))
  BY <1>1, <1>2 DEF SaveOK, TaskOK
<1>5. Base'
  BY <1>1, <1>2, <1>3, <1>4, EndsKeeps DEF Base, Typed
<1>6. JobsUnique(db')
  BY <1>1 DEF JobsUnique
<1> QED BY <1>1, <1>3, <1>5, <1>6

\* A request ends without saving.
LEMMA GivesUpIs ==
  ASSUME Base, NEW r \in Requests, SaveConflicts(r) \/ SaveViolatesUnique(r) \/ Dies(r)
  PROVE  /\ Base' /\ Ended(r) /\ db' = db
         /\ ended' \in {"conflict", "unique", "died"}
         /\ \E fault \in {"conflict", "unique", "death"} : faults' = faults \cup {fault}
<1>1. /\ Ended(r) /\ db' = db /\ ended' \in {"conflict", "unique", "died"}
      /\ \E fault \in {"conflict", "unique", "death"} : faults' = faults \cup {fault}
  BY DEF SaveConflicts, SaveViolatesUnique, Dies, Ends, Ended, Idle
<1>2. deaths' \in 0..MaxDeaths
  <2>1. deaths \in 0..MaxDeaths /\ MaxDeaths \in Nat
    BY WorkflowAssumption DEF Base, Typed
  <2> QED BY <2>1 DEF SaveConflicts, SaveViolatesUnique, Dies
<1>3. faults' \subseteq {"overlap", "replanned", "conflict", "unique", "death"}
  BY <1>1 DEF Base, Typed
<1>4. Base'
  BY <1>1, <1>2, <1>3, EndsKeeps
<1> QED BY <1>1, <1>4

-----------------------------------------------------------------------------
(* Base is an invariant, and every step is one of eight.                   *)

Begin(r, x) ==
  /\ Entered(r, x)
  /\ \/ /\ x = [pc |-> "read", kind |-> "run", read |-> NewTask, task |-> NewTask]
        /\ db = None /\ db' = NewTask /\ reports' = reports /\ approved' = approved
     \/ /\ \E task : \/ x = [pc |-> "read", kind |-> "run", read |-> db, task |-> task]
                     \/ x = [pc |-> "save", kind |-> "remove", read |-> db, task |-> task]
        /\ db # None /\ db' = db /\ reports' = reports /\ approved' = approved
     \/ \E i \in DOMAIN db.actions, result \in Result :
          /\ x = [pc |-> "read", kind |-> "report", read |-> db, result |-> result]
          /\ result.action = db.actions[i].id
          /\ result.outcome \in AllowedOutcomes(db.actions[i].status)
          /\ approved' = IF result.outcome = "approved" THEN approved \cup {result.action} ELSE approved
          /\ db # None /\ db' = db /\ reports' = reports + 1

Invoked(r) ==
  /\ request[r].pc = "read"
  /\ db' = db /\ reports' = reports /\ approved' = approved /\ faults' = faults /\ ended' = ended
  /\ \/ /\ request[r].kind = "run" /\ checkpoint' = Fresh(request[r].task)
        /\ request' = [request EXCEPT ![r] =
                         Running(request[r], request[r].task, None, Fresh(request[r].task))]
     \/ /\ request[r].kind = "report" /\ checkpoint' = checkpoint /\ ThreadOK(checkpoint)
        /\ \E result \in {request[r].result, None} :
             /\ result # None => checkpoint.node = "wait"
             /\ request' = [request EXCEPT ![r] = Running(request[r], None, result, checkpoint)]

Raised(r) ==
  /\ request[r].pc = "running" /\ request[r].kind = "report"
  /\ request[r].w.node \in {"plan", "replan"}
  /\ Ended(r) /\ db' = db /\ ended' = "raised" /\ faults' = faults

Saved(r) ==
  /\ request[r].pc = "save" /\ db = request[r].read /\ db' = request[r].task /\ JobsUnique(db')
  /\ Ended(r) /\ ended' = request[r].kind /\ faults' = faults

GaveUp(r) ==
  /\ Ended(r) /\ db' = db /\ ended' \in {"conflict", "unique", "died"}
  /\ \E fault \in {"conflict", "unique", "death"} : faults' = faults \cup {fault}

StepOf(r) ==
  \/ \E x : Begin(r, x)
  \/ Invoked(r)
  \/ \E v : Moved(r, v) /\ NodeStep(r, v)
  \/ \E task \in Task(Nat) : Left(r, task)
  \/ Raised(r) \/ Saved(r) \/ GaveUp(r)

LEMMA BeginsAre ==
  ASSUME Base, NEW r \in Requests, Begins(r)
  PROVE  Base' /\ \E x : Begin(r, x)
<1>1. CASE CreateTask(r)
  <2>1. db = None /\ db' = NewTask /\ reports' = reports /\ approved' = approved
    BY <1>1 DEF CreateTask
  <2> QED BY <1>1, <2>1, CreateTaskIs DEF Begin
<1>2. CASE AppendInput(r)
  <2>1. reports' = reports /\ approved' = approved
    BY <1>2 DEF AppendInput
  <2> QED BY <1>2, <2>1, AppendInputIs DEF Begin
<1>3. ASSUME db # None, NEW i \in DOMAIN db.inputs, RemoveInput(r, i)
      PROVE  Base' /\ \E x : Begin(r, x)
  <2>1. reports' = reports /\ approved' = approved
    BY <1>3 DEF RemoveInput
  <2> QED BY <1>3, <2>1, RemoveInputIs DEF Begin
<1>4. ASSUME db # None, NEW i \in DOMAIN db.actions, NEW outcome \in Outcomes, NEW output \in BOOLEAN,
             RecordActionResult(r, db.actions[i], outcome, output)
      PROVE  Base' /\ \E x : Begin(r, x)
  <2> DEFINE result == [action |-> db.actions[i].id, outcome |-> outcome, output |-> output]
             x == [pc |-> "read", kind |-> "report", read |-> db, result |-> result]
  <2>1. /\ outcome \in AllowedOutcomes(db.actions[i].status) /\ reports' = reports + 1
        /\ approved' = IF outcome = "approved" THEN approved \cup {db.actions[i].id} ELSE approved
    BY <1>4 DEF RecordActionResult
  <2>2. Base' /\ db' = db /\ Entered(r, x)
    BY <1>4, RecordActionResultIs
  <2>3. result.action = db.actions[i].id /\ result.outcome = outcome
    OBVIOUS
  <2>4. result \in Result
    <3>1. x \in Request(Nat) /\ x.pc = "read" /\ x.kind = "report" /\ x.result = result
      BY <2>2 DEF Entered
    <3> HIDE DEF x, result
    <3> QED BY <3>1, RequestIs
  <2> HIDE DEF result
  <2>5. Begin(r, x)
    BY <1>4, <2>1, <2>2, <2>3, <2>4 DEF Begin
  <2> QED BY <2>2, <2>5
<1> QED BY <1>1, <1>2, <1>3, <1>4 DEF Begins

LEMMA StepsAre ==
  ASSUME Base, [Next]_vars
  PROVE  Base' /\ (UNCHANGED vars \/ \E r \in Requests : StepOf(r))
<1>1. CASE UNCHANGED vars
  BY <1>1 DEF vars, Base, Typed
<1>2. ASSUME NEW r \in Requests, Begins(r) PROVE Base' /\ StepOf(r)
  BY <1>2, BeginsAre DEF StepOf
<1>3. ASSUME NEW r \in Requests, Dies(r) PROVE Base' /\ StepOf(r)
  BY <1>3, GivesUpIs DEF StepOf, GaveUp
<1>4. ASSUME NEW r \in Requests, Works(r) PROVE Base' /\ StepOf(r)
  <2>1. CASE Invoke(r)
    BY <2>1, InvokeIs DEF StepOf, Invoked
  <2>2. ASSUME NEW plan \in Plans, Plan(r, plan) PROVE Base' /\ StepOf(r)
    BY <2>2, PlanNode DEF StepOf
  <2>3. ASSUME NEW plan \in Plans, Replan(r, plan) PROVE Base' /\ StepOf(r)
    BY <2>3, ReplanNode DEF StepOf
  <2>4. CASE RunStep(r)
    BY <2>4, RunStepNode DEF StepOf
  <2>5. CASE StepRaises(r)
    BY <2>5, StepRaisesNode DEF StepOf
  <2>6. CASE Fail(r)
    BY <2>6, FailNode DEF StepOf
  <2>7. CASE WaitForHostAction(r)
    BY <2>7, WaitNode DEF StepOf
  <2>8. CASE ResumeFromActionResult(r)
    BY <2>8, ResumeNode DEF StepOf
  <2>9. CASE RetryPending(r)
    BY <2>9, RetryNode DEF StepOf
  <2>10. CASE Return(r)
    BY <2>10, ReturnIs DEF StepOf
  <2>11. CASE PlanRaises(r)
    <3>1. request[r].pc = "running"
      BY <2>11 DEF PlanRaises, At
    <3> QED BY <2>11, <3>1, PlanRaisesIs DEF StepOf, Raised
  <2>12. CASE Save(r)
    BY <2>12, SaveIs DEF StepOf, Saved
  <2>13. CASE SaveConflicts(r) \/ SaveViolatesUnique(r)
    BY <2>13, GivesUpIs DEF StepOf, GaveUp
  <2> QED BY <1>4, <2>1, <2>2, <2>3, <2>4, <2>5, <2>6, <2>7, <2>8, <2>9, <2>10, <2>11, <2>12, <2>13 DEF Works
<1> QED BY <1>1, <1>2, <1>3, <1>4 DEF Next

LEMMA BaseHolds == Spec => []Base
<1>1. Init => Base
  <2> SUFFICES ASSUME Init PROVE Base
    OBVIOUS
  <2>1. Idle \in Request(Nat) /\ RequestOK(Idle) /\ ~NeedsThread(Idle)
    BY DEF Idle, Request, RequestOK, NeedsThread
  <2>2. request \in [Requests -> Request(Nat)] /\ \A r \in Requests : request[r] = Idle
    BY <2>1 DEF Init
  <2>3. Typed
    BY <2>2, WorkflowAssumption DEF Init, Typed
  <2> QED BY <2>1, <2>2, <2>3 DEF Init, Base
<1>2. Base /\ [Next]_vars => Base'
  BY StepsAre
<1> QED BY <1>1, <1>2, PTL DEF Spec

\* What the host reads of a task is one story, whoever saved it: the status that
\* mark_result computes after a run and the one HostActionResultService computes after
\* a result both name the action they are about, and neither closes a task with an
\* open action as completed (SavedStatusAgrees).
THEOREM StatusAgrees == Spec => []SavedStatusAgrees
<1>1. Base => SavedStatusAgrees
  BY DEF Base, TaskOK, Story, SavedStatusAgrees
<1> QED BY <1>1, BaseHolds, PTL

-----------------------------------------------------------------------------
(* Requests one at a time: a request works on the newest checkpoint, and   *)
(* what it saves is what it left there.                                    *)

Turn ==
  "overlap" \notin faults =>
    /\ \A r, q \in Requests : request[r] # Idle /\ request[q] # Idle => r = q
    /\ \A r \in Requests :
         /\ request[r].pc = "running" => request[r].w = checkpoint
         /\ request[r].pc = "save" /\ request[r].kind # "remove" =>
              /\ request[r].task.actions = checkpoint.task.actions
              /\ request[r].task.jobs = checkpoint.task.jobs
              /\ request[r].kind = "report" =>
                   request[r].task = checkpoint.task /\ checkpoint.node \in {"wait", "end"}
    /\ (\A r \in Requests : request[r] = Idle) /\ ended \in {"run", "report"}
         => db.actions = checkpoint.task.actions

\* One request is another one, the rest stay.
LEMMA Changed ==
  ASSUME Base, NEW r \in Requests, NEW x, request' = [request EXCEPT ![r] = x]
  PROVE  request'[r] = x /\ \A q \in Requests \ {r} : request'[q] = request[q]
  BY DEF Base, Typed

LEMMA TurnInit == Init => Turn
<1> SUFFICES ASSUME Init PROVE Turn
  OBVIOUS
<1>1. \A r \in Requests : request[r] = Idle /\ Idle.pc = "idle"
  BY DEF Init, Idle
<1> QED BY <1>1 DEF Init, Turn

LEMMA TurnStep ==
  ASSUME Base, Turn, [Next]_vars
  PROVE  Turn'
<1> SUFFICES ASSUME "overlap" \notin faults' PROVE Turn'
  BY DEF Turn
<1>1. CASE UNCHANGED vars
  BY <1>1 DEF vars, Turn
<1>2. ASSUME NEW r \in Requests, NEW x, Begin(r, x) PROVE Turn'
  <2>1. /\ request' = [request EXCEPT ![r] = x] /\ checkpoint' = checkpoint /\ Others(r) = {}
        /\ x.pc \in {"read", "save"} /\ (x.pc = "save" => x.kind = "remove")
    BY <1>2 DEF Begin, Entered, Enter
  <2>2. request'[r] = x /\ \A q \in Requests \ {r} : request'[q] = request[q] /\ request[q] = Idle
    BY <2>1, Changed DEF Others
  <2>3. x # Idle /\ Idle.pc = "idle"
    BY <2>1 DEF Idle
  <2> QED BY <2>1, <2>2, <2>3 DEF Turn
<1>3. ASSUME NEW r \in Requests, NEW x, x # Idle, request[r] # Idle, faults' \subseteq faults \cup {"replanned"},
             request' = [request EXCEPT ![r] = x],
             x.pc = "running" => x.w = checkpoint',
             x.pc = "save" /\ x.kind # "remove" =>
               /\ x.task.actions = checkpoint'.task.actions /\ x.task.jobs = checkpoint'.task.jobs
               /\ x.kind = "report" => x.task = checkpoint'.task /\ checkpoint'.node \in {"wait", "end"},
             faults \subseteq faults'
      PROVE  Turn'
  <2>1. "overlap" \notin faults
    BY <1>3
  <2>2. request'[r] = x /\ \A q \in Requests \ {r} : request'[q] = request[q] /\ request[q] = Idle
    BY <1>3, <2>1, Changed DEF Turn
  <2>3. Idle.pc = "idle"
    BY DEF Idle
  <2> QED BY <1>3, <2>2, <2>3 DEF Turn
<1>4. ASSUME NEW r \in Requests, Ended(r), faults \subseteq faults',
             ended' \in {"run", "report"} => db'.actions = checkpoint'.task.actions
      PROVE  Turn'
  <2>1. "overlap" \notin faults /\ request[r] # Idle
    BY <1>4 DEF Ended
  <2>2. request'[r] = Idle /\ \A q \in Requests \ {r} : request'[q] = request[q] /\ request[q] = Idle
    BY <1>4, <2>1, Changed DEF Turn, Ended
  <2>3. Idle.pc = "idle"
    BY DEF Idle
  <2> QED BY <1>4, <2>2, <2>3 DEF Turn
<1>5. \A r \in Requests : request[r].pc \in {"read", "running", "save"} => request[r] # Idle
  BY DEF Idle
<1>6. ASSUME NEW r \in Requests, Invoked(r) PROVE Turn'
  <2>1. CASE request[r].kind = "run"
    <3> DEFINE w == Fresh(request[r].task)
               x == Running(request[r], request[r].task, None, w)
    <3>1. request' = [request EXCEPT ![r] = x] /\ checkpoint' = w /\ faults' = faults /\ request[r] # Idle
      BY <1>5, <1>6, <2>1 DEF Invoked
    <3>2. x.pc = "running" /\ x.w = w /\ x # Idle
      BY DEF Running, Idle
    <3> HIDE DEF x, w
    <3> QED BY <1>3, <3>1, <3>2
  <2>2. CASE request[r].kind = "report"
    <3>1. PICK result : request' = [request EXCEPT ![r] = Running(request[r], None, result, checkpoint)]
      BY <1>6, <2>2 DEF Invoked
    <3> DEFINE x == Running(request[r], None, result, checkpoint)
    <3>2. x.pc = "running" /\ x.w = checkpoint /\ x # Idle
      BY DEF Running, Idle
    <3>3. checkpoint' = checkpoint /\ faults' = faults /\ request[r] # Idle
      BY <1>5, <1>6, <2>2 DEF Invoked
    <3>4. request' = [request EXCEPT ![r] = x]
      BY <3>1
    <3> HIDE DEF x
    <3> QED BY <1>3, <3>2, <3>3, <3>4
  <2> QED BY <1>6, <2>1, <2>2 DEF Invoked
<1>7. ASSUME NEW r \in Requests, NEW v, Moved(r, v), NodeStep(r, v) PROVE Turn'
  <2> DEFINE x == Running(request[r], request[r].task, None, v)
  <2>1. request' = [request EXCEPT ![r] = x] /\ checkpoint' = v /\ request[r] # Idle
    BY <1>5, <1>7 DEF Moved
  <2>2. x.pc = "running" /\ x.w = v /\ x # Idle
    BY DEF Running, Idle
  <2>3. faults' \subseteq faults \cup {"replanned"} /\ faults \subseteq faults'
    BY <1>7 DEF NodeStep
  <2> HIDE DEF x
  <2> QED BY <1>3, <2>1, <2>2, <2>3
<1>8. ASSUME NEW r \in Requests, NEW task, Left(r, task) PROVE Turn'
  <2> DEFINE x == Saving(request[r], task)
  <2>1. /\ request' = [request EXCEPT ![r] = x] /\ checkpoint' = checkpoint /\ request[r] # Idle
        /\ faults' = faults /\ Returned(request[r], task) /\ request[r].pc = "running"
    BY <1>5, <1>8 DEF Left
  <2>2. x.pc = "save" /\ x.kind = request[r].kind /\ x.task = task /\ x # Idle
    BY DEF Saving, Idle
  <2>3. request[r].w = checkpoint
    BY <2>1 DEF Turn
  <2> HIDE DEF x
  <2> QED BY <1>3, <2>1, <2>2, <2>3 DEF Returned
<1>9. ASSUME NEW r \in Requests, Saved(r) PROVE Turn'
  <2>1. /\ Ended(r) /\ faults' = faults /\ db' = request[r].task /\ ended' = request[r].kind
        /\ request[r].pc = "save"
    BY <1>9 DEF Saved
  <2>2. ended' \in {"run", "report"} => db'.actions = checkpoint'.task.actions
    BY <2>1 DEF Turn, Ended
  <2> QED BY <1>4, <2>1, <2>2
<1>10. ASSUME NEW r \in Requests, Raised(r) \/ GaveUp(r) PROVE Turn'
  <2>1. Ended(r) /\ faults \subseteq faults' /\ ended' \in {"raised", "conflict", "unique", "died"}
    BY <1>10 DEF Raised, GaveUp
  <2> QED BY <1>4, <2>1
<1>11. UNCHANGED vars \/ \E r \in Requests : StepOf(r)
  BY StepsAre
<1>12. ASSUME NEW r \in Requests, StepOf(r) PROVE Turn'
  <2>1. CASE \E x : Begin(r, x)
    BY <1>2, <2>1
  <2>2. CASE \E v : Moved(r, v) /\ NodeStep(r, v)
    BY <1>7, <2>2
  <2>3. CASE \E task \in Task(Nat) : Left(r, task)
    BY <1>8, <2>3
  <2> QED BY <1>6, <1>9, <1>10, <1>12, <2>1, <2>2, <2>3 DEF StepOf
<1> QED BY <1>1, <1>11, <1>12

\* With requests one at a time, and whatever died before: once a run or a report is saved
\* the saved actions are those the thread goes on with, so the next report finds the
\* action it is about (SavedMatchesCheckpoint).
THEOREM SavedIsThread == Spec => []SavedMatchesCheckpoint
<1>1. Turn => SavedMatchesCheckpoint
  BY DEF Turn, SavedMatchesCheckpoint
<1>2. Base /\ Turn /\ [Next]_vars => Turn'
  BY TurnStep
<1> QED BY <1>1, <1>2, TurnInit, BaseHolds, PTL DEF Spec

-----------------------------------------------------------------------------
(* No report counts as two attempts.                                       *)

\* Reports whose result no thread has taken up.
Unapplied(req) ==
  \/ req.pc = "read" /\ req.kind = "report"
  \/ req.pc = "running" /\ req.result # None

Waiting == {r \in Requests : Unapplied(request[r])}

\* What a thread has tried, and what it may still, while n requests hold a result: the
\* one it has taken up, and those, are attempts to come.
Spent(w, n, total) ==
  \A i \in DOMAIN w.task.actions :
    w.task.actions[i].attempts + (IF w.node = "resume" THEN 1 ELSE 0) + n <= total

Tried(task, total) == \A i \in DOMAIN task.actions : task.actions[i].attempts <= total

RequestTried(req, n, total) ==
  /\ req.pc \in {"read", "running", "save"} => Tried(req.read, total)
  /\ req.pc = "running" => Spent(req.w, n, total)
  /\ req.pc = "save" => Tried(req.task, total)

Counts ==
  LET n == Cardinality(Waiting) IN
  /\ n <= reports
  /\ db # None => Tried(db, reports)
  /\ checkpoint # None => Spent(checkpoint, n, reports)
  /\ \A r \in Requests : RequestTried(request[r], n, reports)

LEMMA WaitingIs ==
  /\ IsFiniteSet(Waiting) /\ Cardinality(Waiting) \in Nat
  /\ IsFiniteSet(Waiting') /\ Cardinality(Waiting') \in Nat
<1>1. Waiting \subseteq Requests /\ Waiting' \subseteq Requests /\ IsFiniteSet(Requests)
  BY WorkflowAssumption DEF Waiting
<1>2. IsFiniteSet(Waiting) /\ IsFiniteSet(Waiting')
  <2>1. \A T \in SUBSET Requests : IsFiniteSet(T)
    BY <1>1, FS_Subset
  <2> QED BY <1>1, <2>1
<1>3. \A T : IsFiniteSet(T) => Cardinality(T) \in Nat
  BY FS_CardinalityType
<1> QED BY <1>2, <1>3

\* How the number of results that wait changes with one request.
LEMMA WaitingChanges ==
  ASSUME Base, NEW r \in Requests, NEW x, request' = [request EXCEPT ![r] = x]
  PROVE  /\ Unapplied(x) /\ ~Unapplied(request[r]) => Cardinality(Waiting') = Cardinality(Waiting) + 1
         /\ ~Unapplied(x) /\ Unapplied(request[r]) => Cardinality(Waiting') = Cardinality(Waiting) - 1
         /\ Unapplied(request[r]) \/ ~Unapplied(x) => Cardinality(Waiting') <= Cardinality(Waiting)
<1>1. request'[r] = x /\ \A q \in Requests \ {r} : request'[q] = request[q]
  BY Changed
<1>2. IsFiniteSet(Waiting) /\ Cardinality(Waiting) \in Nat /\ Cardinality(Waiting') \in Nat
  BY WaitingIs
<1>3. CASE Unapplied(x) /\ ~Unapplied(request[r])
  <2>1. Waiting' = Waiting \cup {r} /\ r \notin Waiting
    BY <1>1, <1>3 DEF Waiting
  <2>2. Cardinality(Waiting \cup {r}) = Cardinality(Waiting) + 1
    BY <1>2, <2>1, FS_AddElement
  <2> QED BY <1>2, <1>3, <2>1, <2>2
<1>4. CASE ~Unapplied(x) /\ Unapplied(request[r])
  <2>1. Waiting' = Waiting \ {r} /\ r \in Waiting
    BY <1>1, <1>4 DEF Waiting
  <2>2. Cardinality(Waiting \ {r}) = Cardinality(Waiting) - 1
    BY <1>2, <2>1, FS_RemoveElement
  <2> QED BY <1>2, <1>4, <2>1, <2>2
<1>5. CASE Unapplied(x) <=> Unapplied(request[r])
  <2>1. Waiting' = Waiting
    BY <1>1, <1>5 DEF Waiting
  <2> QED BY <1>2, <1>5, <2>1
<1> QED BY <1>3, <1>4, <1>5

\* One request changes, and counts are kept, if what it and the task then are is counted.
LEMMA CountsKept ==
  ASSUME Base, Base', Counts, NEW r \in Requests, NEW x, request' = [request EXCEPT ![r] = x],
         \/ reports' = reports /\ Cardinality(Waiting') <= Cardinality(Waiting)
         \/ reports' = reports + 1 /\ Cardinality(Waiting') <= Cardinality(Waiting) + 1,
         db' = db \/ Tried(db', reports'),
         checkpoint' = checkpoint \/ Spent(checkpoint', Cardinality(Waiting'), reports'),
         RequestTried(x, Cardinality(Waiting'), reports')
  PROVE  Counts'
<1> DEFINE n == Cardinality(Waiting)
           m == Cardinality(Waiting')
<1>1. n \in Nat /\ m \in Nat /\ reports \in Nat /\ reports' \in Nat
  BY WaitingIs, WorkflowAssumption DEF Base, Typed
<1>2. (reports' = reports /\ m <= n) \/ (reports' = reports + 1 /\ m <= n + 1)
  OBVIOUS
<1> HIDE DEF n, m
<1>3. ASSUME NEW task \in Task(Nat), Tried(task, reports) PROVE Tried(task, reports')
  <2>1. \A i \in DOMAIN task.actions : task.actions[i] \in Action(Nat)
    BY DEF Task
  <2>2. \A i \in DOMAIN task.actions : task.actions[i].attempts \in Nat
    BY <2>1 DEF Action
  <2> QED BY <1>1, <1>2, <1>3, <2>2 DEF Tried
<1>4. ASSUME NEW w \in Workflow(Nat), Spent(w, n, reports) PROVE Spent(w, m, reports')
  <2>1. \A i \in DOMAIN w.task.actions : w.task.actions[i] \in Action(Nat)
    BY WorkflowFields
  <2>2. \A i \in DOMAIN w.task.actions : w.task.actions[i].attempts \in Nat
    BY <2>1 DEF Action
  <2> QED BY <1>1, <1>2, <1>4, <2>2 DEF Spent
<1>5. ASSUME NEW q \in Requests \ {r} PROVE RequestTried(request'[q], m, reports')
  <2>1. request'[q] = request[q] /\ RequestTried(request[q], n, reports) /\ request[q] \in Request(Nat)
    BY Changed DEF Counts, Base, Typed, n
  <2>2. /\ request[q].pc \in {"read", "running", "save"} => request[q].read \in Task(Nat)
        /\ request[q].pc = "running" => request[q].w \in Workflow(Nat)
        /\ request[q].pc = "save" => request[q].task \in Task(Nat)
    BY <2>1, RequestIs
  <2> QED BY <1>3, <1>4, <2>1, <2>2 DEF RequestTried
<1>6. \A q \in Requests : RequestTried(request'[q], m, reports')
  BY <1>5, Changed DEF m
<1>7. checkpoint' # None => Spent(checkpoint', m, reports')
  BY <1>4 DEF Counts, Base, Typed, n, m
<1>8. db' # None => Tried(db', reports')
  BY <1>3 DEF Counts, Base, Typed
<1>9. m <= reports'
  BY <1>1, <1>2 DEF Counts, n
<1> QED BY <1>6, <1>7, <1>8, <1>9 DEF Counts, m

\* Attempts are numbers.
LEMMA AttemptsAre ==
  ASSUME NEW actions \in Seq(Action(Nat)), NEW i \in DOMAIN actions
  PROVE  actions[i] \in Action(Nat) /\ actions[i].attempts \in Nat
<1>1. actions[i] \in Action(Nat)
  OBVIOUS
<1> QED BY <1>1 DEF Action

LEMMA CountsStep ==
  ASSUME Base, Counts, [Next]_vars
  PROVE  Counts'
<1> DEFINE n == Cardinality(Waiting)
           m == Cardinality(Waiting')
<1>1. Base'
  BY StepsAre
<1>2. n \in Nat /\ m \in Nat /\ n <= reports /\ reports \in Nat
  BY WaitingIs, WorkflowAssumption DEF Base, Typed, Counts
<1> HIDE DEF n, m
<1>3. CASE UNCHANGED vars
  <2>1. Waiting' = Waiting
    BY <1>3 DEF vars, Waiting
  <2> QED BY <1>3, <2>1 DEF vars, Counts
<1>4. ASSUME NEW r \in Requests, NEW x, request' = [request EXCEPT ![r] = x],
             Unapplied(request[r]) \/ ~Unapplied(x), reports' = reports,
             db' = db \/ Tried(db', reports), checkpoint' = checkpoint \/ Spent(checkpoint', m, reports),
             RequestTried(x, m, reports)
      PROVE  Counts'
  <2>1. m <= n
    BY <1>4, WaitingChanges DEF n, m
  <2>2. RequestTried(x, m, reports') /\ (checkpoint' = checkpoint \/ Spent(checkpoint', m, reports'))
        /\ (db' = db \/ Tried(db', reports'))
    BY <1>4
  <2> QED BY <1>1, <1>4, <2>1, <2>2, CountsKept DEF n, m
<1>5. ASSUME NEW r \in Requests, NEW x, Begin(r, x) PROVE Counts'
  <2>1. /\ request' = [request EXCEPT ![r] = x] /\ checkpoint' = checkpoint /\ request[r] = Idle
    BY <1>5 DEF Begin, Entered, Enter
  <2>2. ~Unapplied(request[r]) /\ Tried(NewTask, reports)
    BY <2>1 DEF Unapplied, Idle, NewTask, Tried
  <2>3. CASE x.pc = "read" /\ x.kind = "report"
    <3>1. x.read = db /\ db # None /\ db' = db /\ reports' = reports + 1
      BY <1>5, <2>3 DEF Begin
    <3>2. m = n + 1
      BY <2>1, <2>2, <2>3, WaitingChanges DEF Unapplied, n, m
    <3>3. Tried(x.read, reports')
      <4>1. db.actions \in Seq(Action(Nat)) /\ Tried(db, reports)
        BY <3>1 DEF Counts, Base, Typed, Task
      <4>2. \A i \in DOMAIN db.actions : db.actions[i].attempts \in Nat
        BY <4>1, AttemptsAre
      <4> QED BY <1>2, <3>1, <4>1, <4>2 DEF Tried
    <3>4. RequestTried(x, m, reports')
      BY <2>3, <3>3 DEF RequestTried
    <3>5. m <= n + 1
      BY <1>2, <3>2
    <3> QED BY <1>1, <2>1, <3>1, <3>4, <3>5, CountsKept DEF n, m
  <2>4. CASE ~(x.pc = "read" /\ x.kind = "report")
    <3>1. /\ reports' = reports
          /\ \/ x.read = NewTask /\ x.pc = "read" /\ db' = NewTask
             \/ x.read = db /\ x.pc \in {"read", "save"} /\ db # None /\ db' = db
      BY <1>5, <2>4 DEF Begin
    <3>2. Tried(x.read, reports) /\ (db' = db \/ Tried(db', reports))
      BY <2>2, <3>1 DEF Counts
    <3>3. x.pc = "save" => Tried(x.task, reports)
      <4> SUFFICES ASSUME x.pc = "save" PROVE Tried(x.task, reports)
        OBVIOUS
      <4>1. SaveOK(x) /\ x.kind = "remove"
        BY <1>5 DEF Begin, Entered, RequestOK
      <4>2. x.task = x.read \/ x.task.actions = <<>>
        BY <4>1 DEF SaveOK
      <4> QED BY <3>2, <4>2 DEF Tried
    <3>4. RequestTried(x, m, reports) /\ ~Unapplied(x)
      BY <2>4, <3>1, <3>2, <3>3 DEF RequestTried, Unapplied
    <3> QED BY <1>4, <2>1, <3>1, <3>2, <3>4
  <2> QED BY <2>3, <2>4
<1>6. ASSUME NEW r \in Requests, Invoked(r) PROVE Counts'
  <2>1. Tried(request[r].read, reports)
    BY <1>6 DEF Invoked, Counts, RequestTried
  <2>2. CASE request[r].kind = "run"
    <3> DEFINE w == Fresh(request[r].task)
               x == Running(request[r], request[r].task, None, w)
    <3>1. /\ request' = [request EXCEPT ![r] = x] /\ checkpoint' = w /\ db' = db /\ reports' = reports
      BY <1>6, <2>2 DEF Invoked
    <3>2. w.task.actions = <<>>
      <4>1. Begun(request[r])
        BY <1>6, <2>2 DEF Base, RequestOK, Invoked
      <4> QED BY <4>1, FreshIs DEF Begun, Emptied
    <3> HIDE DEF w
    <3>3. Spent(w, m, reports)
      BY <3>2 DEF Spent
    <3>4. x.pc = "running" /\ x.read = request[r].read /\ x.w = w /\ x.result = None
      BY DEF Running
    <3> HIDE DEF x
    <3>5. RequestTried(x, m, reports) /\ ~Unapplied(x)
      BY <2>1, <3>3, <3>4 DEF RequestTried, Unapplied
    <3> QED BY <1>4, <3>1, <3>3, <3>5
  <2>3. CASE request[r].kind = "report"
    <3>1. PICK result : request' = [request EXCEPT ![r] = Running(request[r], None, result, checkpoint)]
      BY <1>6, <2>3 DEF Invoked
    <3>2. checkpoint' = checkpoint /\ db' = db /\ reports' = reports /\ ThreadOK(checkpoint)
      BY <1>6, <2>3 DEF Invoked
    <3> DEFINE x == Running(request[r], None, result, checkpoint)
    <3>3. x.pc = "running" /\ x.read = request[r].read /\ x.w = checkpoint
      BY DEF Running
    <3>4. request' = [request EXCEPT ![r] = x]
      BY <3>1
    <3> HIDE DEF x
    <3>5. Unapplied(request[r])
      BY <1>6, <2>3 DEF Invoked, Unapplied
    <3>6. m <= n
      BY <3>4, <3>5, WaitingChanges DEF n, m
    <3>7. Spent(checkpoint, m, reports)
      <4>1. checkpoint.task.actions \in Seq(Action(Nat))
        BY <3>2, WorkflowFields DEF ThreadOK
      <4>2. \A i \in DOMAIN checkpoint.task.actions : checkpoint.task.actions[i].attempts \in Nat
        BY <4>1, AttemptsAre
      <4>3. Spent(checkpoint, n, reports)
        BY <3>2, NoneAssumption DEF Counts, ThreadOK, n
      <4> QED BY <1>2, <3>6, <4>2, <4>3 DEF Spent
    <3>8. RequestTried(x, m, reports)
      BY <2>1, <3>3, <3>7 DEF RequestTried
    <3> QED BY <1>4, <3>2, <3>4, <3>5, <3>8
  <2> QED BY <1>6, <2>2, <2>3 DEF Invoked
<1>7. ASSUME NEW r \in Requests, NEW v, Moved(r, v), NodeStep(r, v) PROVE Counts'
  <2> DEFINE w == request[r].w
             x == Running(request[r], request[r].task, None, v)
  <2>1. /\ request' = [request EXCEPT ![r] = x] /\ checkpoint' = v /\ db' = db /\ reports' = reports
        /\ ThreadOK(v) /\ request[r].pc = "running"
    BY <1>7 DEF Moved
  <2>2. ThreadOK(w) /\ Tried(request[r].read, reports) /\ Spent(w, n, reports)
    BY <2>1, RunningIs DEF Counts, RequestTried, n
  <2>3. x.pc = "running" /\ x.read = request[r].read /\ x.w = v /\ x.result = None
    BY DEF Running
  <2> HIDE DEF x, w
  <2>4. ~Unapplied(x)
    BY <2>3 DEF Unapplied
  <2>5. m <= n
    BY <2>1, <2>4, WaitingChanges DEF n, m
  <2>6. /\ w.task.actions \in Seq(Action(Nat)) /\ v.task.actions \in Seq(Action(Nat))
        /\ \A i \in DOMAIN w.task.actions : w.task.actions[i].attempts \in Nat
        /\ \A i \in DOMAIN v.task.actions : v.task.actions[i].attempts \in Nat
    <3>1. w.task.actions \in Seq(Action(Nat)) /\ v.task.actions \in Seq(Action(Nat))
      BY <2>1, <2>2, WorkflowFields DEF ThreadOK
    <3> QED BY <3>1, AttemptsAre
  <2>7. m \in Nat
    BY WaitingIs DEF m
  <2>8. Spent(v, m, reports)
    <3>1. CASE PlansAnew(w, v)
      BY <3>1 DEF PlansAnew, Emptied, Spent
    <3>2. CASE DoesStep(w, v)
      <4>1. v.node # "resume" /\ \A i \in DOMAIN v.task.actions : v.task.actions[i].attempts = 0
        BY <3>2 DEF DoesStep, Untried
      <4> QED BY <1>2, <2>5, <2>7, <4>1 DEF Spent
    <3>3. CASE TakesUp(w, request[r].result, v)
      <4>1. /\ Unapplied(request[r]) /\ v.task = w.task /\ w.node = "wait"
        BY <2>1, <3>3 DEF TakesUp, Unapplied
      <4>2. m = n - 1
        BY <2>1, <2>4, <4>1, WaitingChanges DEF n, m
      <4> QED BY <1>2, <2>2, <2>6, <2>7, <4>1, <4>2 DEF Spent
    <3>4. CASE Resumes(w, v)
      <4>1. /\ v.node # "resume" /\ w.node = "resume" /\ DOMAIN v.task.actions = DOMAIN w.task.actions
        BY <3>4 DEF Resumes
      <4>2. \A i \in DOMAIN w.task.actions :
              v.task.actions[i].attempts \in {w.task.actions[i].attempts, w.task.actions[i].attempts + 1}
        BY <3>4 DEF Resumes, ChangedBy
      <4>3. ASSUME NEW i \in DOMAIN v.task.actions PROVE v.task.actions[i].attempts + m <= reports
        <5>1. w.task.actions[i].attempts + 1 + n <= reports
          BY <2>2, <4>1 DEF Spent
        <5>2. /\ v.task.actions[i].attempts \in Nat /\ w.task.actions[i].attempts \in Nat
              /\ v.task.actions[i].attempts \in {w.task.actions[i].attempts, w.task.actions[i].attempts + 1}
          BY <2>6, <4>1, <4>2
        <5> QED BY <1>2, <2>5, <2>7, <5>1, <5>2
      <4> QED BY <2>6, <2>7, <4>1, <4>3 DEF Spent
    <3>5. CASE TriesAgain(w, v)
      <4>1. v.node # "resume" /\ w.node # "resume" /\ v.task.actions = w.task.actions
        BY <3>5 DEF TriesAgain
      <4> QED BY <1>2, <2>2, <2>5, <2>6, <2>7, <4>1 DEF Spent
    <3> QED BY <1>7, <3>1, <3>2, <3>3, <3>4, <3>5 DEF NodeStep, w
  <2>9. RequestTried(x, m, reports)
    BY <2>2, <2>3, <2>8 DEF RequestTried
  <2> QED BY <1>4, <2>1, <2>4, <2>8, <2>9
<1>8. ASSUME NEW r \in Requests, NEW x, request' = [request EXCEPT ![r] = x], ~Unapplied(x),
             db' = db \/ Tried(db', reports), checkpoint' = checkpoint, reports' = reports,
             x.pc \in {"idle", "save"}, x.pc = "save" => Tried(x.read, reports) /\ Tried(x.task, reports)
      PROVE  Counts'
  BY <1>4, <1>8 DEF RequestTried
<1>9. Idle.pc = "idle" /\ ~Unapplied(Idle)
  BY DEF Idle, Unapplied
<1>10. ASSUME NEW r \in Requests, NEW task \in Task(Nat), Left(r, task) PROVE Counts'
  <2> DEFINE x == Saving(request[r], task)
  <2>1. /\ request' = [request EXCEPT ![r] = x] /\ checkpoint' = checkpoint /\ db' = db
        /\ reports' = reports /\ task.actions = request[r].w.task.actions /\ request[r].pc = "running"
    BY <1>10 DEF Left, Returned
  <2>2. /\ ThreadOK(request[r].w) /\ Tried(request[r].read, reports) /\ Spent(request[r].w, n, reports)
    BY <2>1, RunningIs DEF Counts, RequestTried, n
  <2>3. Tried(task, reports)
    <3>1. task.actions \in Seq(Action(Nat))
      BY DEF Task
    <3>2. \A i \in DOMAIN task.actions : task.actions[i].attempts \in Nat
      BY <3>1, AttemptsAre
    <3> QED BY <1>2, <2>1, <2>2, <3>2 DEF Spent, Tried
  <2>4. x.pc = "save" /\ x.read = request[r].read /\ x.task = task
    BY DEF Saving
  <2> HIDE DEF x
  <2>5. ~Unapplied(x)
    BY <2>4 DEF Unapplied
  <2> QED BY <1>8, <2>1, <2>2, <2>3, <2>4, <2>5
<1>11. ASSUME NEW r \in Requests, Saved(r) PROVE Counts'
  <2>1. request' = [request EXCEPT ![r] = Idle] /\ checkpoint' = checkpoint /\ reports' = reports
        /\ db' = request[r].task /\ request[r].pc = "save"
    BY <1>11 DEF Saved, Ended
  <2>2. Tried(db', reports)
    BY <2>1 DEF Counts, RequestTried
  <2> QED BY <1>8, <1>9, <2>1, <2>2
<1>12. ASSUME NEW r \in Requests, Raised(r) \/ GaveUp(r) PROVE Counts'
  <2>1. request' = [request EXCEPT ![r] = Idle] /\ checkpoint' = checkpoint /\ reports' = reports /\ db' = db
    BY <1>12 DEF Raised, GaveUp, Ended
  <2> QED BY <1>8, <1>9, <2>1
<1>13. UNCHANGED vars \/ \E r \in Requests : StepOf(r)
  BY StepsAre
<1> QED BY <1>3, <1>5, <1>6, <1>7, <1>10, <1>11, <1>12, <1>13 DEF StepOf

LEMMA CountsInit == Init => Counts
<1> SUFFICES ASSUME Init PROVE Counts
  OBVIOUS
<1>1. \A r \in Requests : request[r] = Idle /\ Idle.pc = "idle"
  BY DEF Init, Idle
<1>2. Waiting = {}
  BY <1>1 DEF Waiting, Unapplied
<1>3. Cardinality(Waiting) = 0
  BY <1>2, FS_EmptySet
<1> QED BY <1>1, <1>3 DEF Init, Counts, RequestTried

\* The tasks whose actions were tried up to total times.
LEMMA TriedTask ==
  ASSUME NEW total \in Nat, NEW task \in Task(Nat), Tried(task, total)
  PROVE  task \in Task(0..total)
<1>1. task.actions \in Seq(Action(Nat))
  BY DEF Task
<1>2. ASSUME NEW i \in DOMAIN task.actions PROVE task.actions[i] \in Action(0..total)
  <2>1. task.actions[i] \in Action(Nat) /\ task.actions[i].attempts \in Nat /\ task.actions[i].attempts <= total
    BY <1>1, AttemptsAre DEF Tried
  <2> QED BY <2>1 DEF Action
<1>3. task.actions \in Seq(Action(0..total))
  BY <1>1, <1>2
<1> QED BY <1>3 DEF Task

LEMMA SpentWorkflow ==
  ASSUME NEW total \in Nat, NEW n \in Nat, NEW w \in Workflow(Nat), Spent(w, n, total)
  PROVE  w \in Workflow(0..total)
<1>1. w.task \in Task(Nat) /\ w.task.actions \in Seq(Action(Nat))
  BY WorkflowFields DEF Workflow
<1>2. Tried(w.task, total)
  <2> SUFFICES ASSUME NEW i \in DOMAIN w.task.actions
               PROVE  w.task.actions[i].attempts <= total
    BY DEF Tried
  <2>1. w.task.actions[i].attempts \in Nat
    BY <1>1, AttemptsAre
  <2>2. \/ w.task.actions[i].attempts + 1 + n <= total
        \/ w.task.actions[i].attempts + 0 + n <= total
    BY DEF Spent
  <2> QED BY <2>1, <2>2
<1>3. w.task \in Task(0..total)
  BY <1>1, <1>2, TriedTask
<1> QED BY <1>3 DEF Workflow

\* Every variable keeps its type for every plan, number of requests and bound: a tool
\* step is tried max_tool_retries + 1 times at most, and an action's attempts never
\* exceed the reports of the host, however they overlap with each other and with runs
\* (TypeOK).
THEOREM TaskTypeCorrect == Spec => []TypeOK
<1>1. ASSUME Base, Counts PROVE TypeOK
  <2> DEFINE n == Cardinality(Waiting)
  <2>1. n \in Nat /\ reports \in Nat /\ reports <= MaxReports /\ MaxReports \in Nat
    BY <1>1, WaitingIs, WorkflowAssumption DEF Base, Typed
  <2> HIDE DEF n
  <2>2. ASSUME NEW task \in Task(Nat), Tried(task, reports) PROVE task \in Task(0..MaxReports)
    <3>1. \A i \in DOMAIN task.actions : task.actions[i].attempts \in Nat
      <4>1. task.actions \in Seq(Action(Nat))
        BY DEF Task
      <4> QED BY <4>1, AttemptsAre
    <3>2. Tried(task, MaxReports)
      BY <2>1, <2>2, <3>1 DEF Tried
    <3> QED BY <2>1, <3>2, TriedTask
  <2>3. ASSUME NEW w \in Workflow(Nat), Spent(w, n, reports) PROVE w \in Workflow(0..MaxReports)
    <3>1. \A i \in DOMAIN w.task.actions : w.task.actions[i].attempts \in Nat
      <4>1. w.task.actions \in Seq(Action(Nat))
        BY WorkflowFields
      <4> QED BY <4>1, AttemptsAre
    <3>2. Spent(w, n, MaxReports)
      BY <2>1, <2>3, <3>1 DEF Spent
    <3> QED BY <2>1, <3>2, SpentWorkflow
  <2>4. ASSUME NEW task \in Task(Nat), task.actions = <<>> PROVE task \in Task(0..MaxReports)
    BY <2>2, <2>4 DEF Tried
  <2>5. db \in Task(0..MaxReports) \cup {None}
    BY <1>1, <2>2 DEF Base, Typed, Counts
  <2>6. checkpoint \in Workflow(0..MaxReports) \cup {None}
    BY <1>1, <2>3 DEF Base, Typed, Counts, n
  <2>7. ASSUME NEW r \in Requests PROVE request[r] \in Request(0..MaxReports)
    <3> DEFINE req == request[r]
    <3>1. req \in Request(Nat) /\ RequestOK(req) /\ RequestTried(req, n, reports)
      BY <1>1 DEF Base, Typed, Counts, n
    <3> HIDE DEF req
    <3> DEFINE T == Task(0..MaxReports)
               S == Task(Nat)
               U == S \cup {None}
               V == Result \cup {None}
               W == Workflow(Nat)
    <3>2. CASE req \in [pc : {"idle"}]
      BY <3>2 DEF Request, req
    <3>3. CASE req \in [pc : {"read"}, kind : {"run"}, read : S, task : S]
      <4>1. req.pc = "read" /\ req.kind = "run" /\ req.read \in S /\ req.task \in S
        <5> HIDE DEF S
        <5> QED BY <3>3
      <4>2. req.read \in T /\ req.task \in T
        BY <2>2, <2>4, <3>1, <4>1 DEF RequestTried, RequestOK, Begun, Emptied
      <4>3. req \in [pc : {"read"}, kind : {"run"}, read : T, task : T]
        <5> HIDE DEF S, T
        <5> QED BY <3>3, <4>1, <4>2
      <4> QED BY <4>3 DEF Request, req
    <3>4. CASE req \in [pc : {"read"}, kind : {"report"}, read : S, result : Result]
      <4>1. req.pc = "read" /\ req.read \in S
        <5> HIDE DEF S
        <5> QED BY <3>4
      <4>2. req.read \in T
        BY <2>2, <3>1, <4>1 DEF RequestTried
      <4>3. req \in [pc : {"read"}, kind : {"report"}, read : T, result : Result]
        <5> HIDE DEF S, T
        <5> QED BY <3>4, <4>1, <4>2
      <4> QED BY <4>3 DEF Request, req
    <3>5. CASE req \in [pc : {"running"}, kind : {"run", "report"}, read : S, task : U, result : V, w : W]
      <4>1. /\ req.pc = "running" /\ req.kind \in {"run", "report"} /\ req.read \in S
            /\ req.task \in U /\ req.w \in W
        <5> HIDE DEF S, U, V, W
        <5> QED BY <3>5
      <4>2. req.read \in T /\ req.w \in Workflow(0..MaxReports)
        BY <2>2, <2>3, <3>1, <4>1 DEF RequestTried
      <4>3. req.task \in T \cup {None}
        BY <2>4, <3>1, <4>1 DEF RequestOK, Begun, Emptied
      <4>4. req \in [pc : {"running"}, kind : {"run", "report"}, read : T, task : T \cup {None},
                     result : V, w : Workflow(0..MaxReports)]
        <5> HIDE DEF S, T, U, V, W
        <5> QED BY <3>5, <4>1, <4>2, <4>3
      <4> QED BY <4>4 DEF Request, req
    <3>6. CASE req \in [pc : {"save"}, kind : {"run", "report", "remove"}, read : S, task : S]
      <4>1. req.pc = "save" /\ req.read \in S /\ req.task \in S
        <5> HIDE DEF S
        <5> QED BY <3>6
      <4>2. req.read \in T /\ req.task \in T
        BY <2>2, <3>1, <4>1 DEF RequestTried
      <4>3. req \in [pc : {"save"}, kind : {"run", "report", "remove"}, read : T, task : T]
        <5> HIDE DEF S, T
        <5> QED BY <3>6, <4>1, <4>2
      <4> QED BY <4>3 DEF Request, req
    <3> QED BY <3>1, <3>2, <3>3, <3>4, <3>5, <3>6 DEF Request, req
  <2>8. request \in [Requests -> Request(0..MaxReports)]
    BY <1>1, <2>7 DEF Base, Typed
  <2> QED BY <1>1, <2>5, <2>6, <2>8 DEF Base, Typed, TypeOK
<1>2. Base /\ Counts /\ [Next]_vars => Counts'
  BY CountsStep
<1> QED BY <1>1, <1>2, CountsInit, BaseHolds, PTL DEF Spec

-----------------------------------------------------------------------------
(***************************************************************************)
(* What the host decides is heeded: each property has an invariant of its  *)
(* own, on top of Base and of the shapes a step can have (StepOf).         *)
(***************************************************************************)
(* No action is executed that was not approved.  A thread keeps the plan   *)
(* its requests know as long as no plan is made beside another request;    *)
(* what a result says of an action then is said of the action the host has *)
(* seen.                                                                   *)

\* Of the actions that need it, those the host may execute, or has, were approved.
OnlyApproved(actions, given) ==
  \A i \in DOMAIN actions :
    actions[i].policy.confirm /\ actions[i].status \in {"ready", "succeeded"}
      => actions[i].id \in given

\* A thread whose task the database would take.
Savable(w) == w.rounds # 0 /\ JobsUnique(w.task)

\* The saved actions are of this plan of the thread or of an earlier one.
Known(actions, w) ==
  /\ Savable(w) => \A i \in DOMAIN actions :
       /\ actions[i].id[1] < w.rounds
       /\ actions[i].id[1] = w.rounds - 1 => actions[i].policy = w.plan.policy
  /\ w.rounds = 0 /\ w.task.jobs = <<>> => actions = <<>>

\* A result that tells of an execution is about an action the host has approved.
Rests(result, w, given) ==
  /\ result.outcome = "approved" => result.action \in given
  /\ /\ Savable(w) /\ w.plan.policy.confirm
     /\ result.action[1] = w.rounds - 1 /\ result.outcome \in Tries
     => result.action \in given

WorkOK(w, given) ==
  /\ JobsUnique(w.task) => OnlyApproved(w.task.actions, given)
  /\ w.node = "resume" => Rests(w.last, w, given)

SamePlan(w, v) == v.rounds = w.rounds /\ v.plan = w.plan /\ v.task.jobs = w.task.jobs

\* What a request holds, beside the newest checkpoint w and the saved task.
Fits(req, w, saved, given) ==
  /\ req.pc = "read" /\ req.kind = "run" => req.read = saved
  /\ req.pc = "read" /\ req.kind = "report" => Rests(req.result, w, given)
  /\ req.pc = "running" =>
       /\ SamePlan(w, req.w) /\ WorkOK(req.w, given)
       /\ req.result # None => Rests(req.result, w, given)
  /\ req.pc = "save" /\ req.kind = "remove" => req.task = req.read \/ req.task.actions = <<>>
  /\ req.pc = "save" /\ req.kind # "remove" =>
       /\ req.task.jobs = w.task.jobs
       /\ OfPlan(req.task.actions, w.rounds - 1, w.plan)
       /\ w.rounds = 0 => req.task.actions = <<>>
       /\ JobsUnique(req.task) => OnlyApproved(req.task.actions, given)

\* A run has no other request beside it.
RunAlone(requests) ==
  \A r, q \in Requests :
    requests[r] # Idle /\ requests[q] # Idle /\ requests[r].kind = "run" => r = q

ThreadKnows(saved, w, given) ==
  /\ saved # None => OnlyApproved(saved.actions, given)
  /\ saved # None /\ w # None => Known(saved.actions, w)
  /\ w # None => WorkOK(w, given)

Decisions ==
  "replanned" \notin faults =>
    /\ RunAlone(request) /\ ThreadKnows(db, checkpoint, approved)
    /\ \A r \in Requests : Fits(request[r], checkpoint, db, approved)

LEMMA DecisionsInit == Init => Decisions
<1> SUFFICES ASSUME Init PROVE Decisions
  OBVIOUS
<1>1. \A r \in Requests : request[r] = Idle /\ Idle.pc = "idle"
  BY DEF Init, Idle
<1> QED BY <1>1 DEF Init, Decisions, RunAlone, ThreadKnows, Fits

\* What is known stays known while the plan stays and more is approved.
LEMMA RestsKept ==
  ASSUME NEW result, NEW w, NEW v, SamePlan(w, v), NEW given, NEW more, given \subseteq more,
         Rests(result, w, given)
  PROVE  Rests(result, v, more)
  BY DEF Rests, SamePlan, Savable, JobsUnique

LEMMA FitsKept ==
  ASSUME NEW req, NEW w, NEW v, SamePlan(w, v), NEW given, NEW more, given \subseteq more,
         NEW saved, NEW saving, req.pc = "read" /\ req.kind = "run" => saving = saved,
         Fits(req, w, saved, given)
  PROVE  Fits(req, v, saving, more)
<1>1. \A result : Rests(result, w, given) => Rests(result, v, more)
  BY RestsKept
<1>2. \A actions : OnlyApproved(actions, given) => OnlyApproved(actions, more)
  BY DEF OnlyApproved
<1>3. req.pc = "running" => SamePlan(v, req.w) /\ WorkOK(req.w, more)
  <2> SUFFICES ASSUME req.pc = "running" PROVE SamePlan(v, req.w) /\ WorkOK(req.w, more)
    OBVIOUS
  <2>1. SamePlan(w, req.w) /\ WorkOK(req.w, given)
    BY DEF Fits
  <2>2. SamePlan(v, req.w) /\ SamePlan(req.w, req.w)
    BY <2>1 DEF SamePlan
  <2>3. Rests(req.w.last, req.w, given) => Rests(req.w.last, req.w, more)
    BY <2>2, RestsKept
  <2> QED BY <1>2, <2>1, <2>2, <2>3 DEF WorkOK
<1> QED BY <1>1, <1>2, <1>3 DEF Fits, SamePlan

\* One request changes.
LEMMA DecisionsKept ==
  ASSUME Base, Decisions, "replanned" \notin faults, NEW r \in Requests, NEW x,
         request' = [request EXCEPT ![r] = x],
         \/ x = Idle \/ Others(r) = {}
         \/ request[r] # Idle /\ x.kind = request[r].kind
         \/ x.kind # "run" /\ \A q \in Others(r) : request[q].kind # "run",
         \/ Others(r) = {}
         \/ /\ checkpoint' = checkpoint \/ (checkpoint # None /\ SamePlan(checkpoint, checkpoint'))
            /\ db' = db \/ \A q \in Others(r) : request[q].kind # "run",
         approved \subseteq approved',
         ThreadKnows(db', checkpoint', approved'), Fits(x, checkpoint', db', approved')
  PROVE  Decisions'
<1>1. request'[r] = x /\ \A q \in Requests \ {r} : request'[q] = request[q]
  BY Changed
<1>2. RunAlone(request) /\ \A q \in Requests : Fits(request[q], checkpoint, db, approved)
  BY DEF Decisions
<1>3. RunAlone(request')
  <2> SUFFICES ASSUME NEW p \in Requests, NEW q \in Requests, request'[p] # Idle, request'[q] # Idle,
                      request'[p].kind = "run", p # q
               PROVE  FALSE
    BY DEF RunAlone
  <2>1. CASE p # r /\ q # r
    BY <1>1, <1>2, <2>1 DEF RunAlone
  <2>2. CASE p = r
    <3>1. q \in Others(r) /\ x.kind = "run" /\ x # Idle /\ request[q] # Idle
      BY <1>1, <2>2 DEF Others
    <3>2. request[r] # Idle /\ request[r].kind = "run"
      BY <3>1
    <3> QED BY <1>2, <2>2, <3>1, <3>2 DEF RunAlone
  <2>3. CASE q = r
    <3>1. p \in Others(r) /\ request[p].kind = "run" /\ x # Idle /\ request[p] # Idle
      BY <1>1, <2>3 DEF Others
    <3>2. request[r] # Idle
      BY <3>1
    <3> QED BY <1>2, <2>3, <3>1, <3>2 DEF RunAlone
  <2> QED BY <2>1, <2>2, <2>3
<1>4. ASSUME NEW q \in Requests \ {r} PROVE Fits(request'[q], checkpoint', db', approved')
  <2>1. CASE request[q] = Idle
    BY <1>1, <2>1 DEF Fits, Idle
  <2>2. CASE request[q] # Idle
    <3>1. /\ q \in Others(r) /\ request'[q] = request[q]
          /\ Fits(request[q], checkpoint, db, approved)
      BY <1>1, <1>2, <2>2 DEF Others
    <3>2. SamePlan(checkpoint, checkpoint')
      BY <3>1 DEF SamePlan
    <3>3. request[q].pc = "read" /\ request[q].kind = "run" => db' = db
      BY <3>1
    <3> QED BY <3>1, <3>2, <3>3, FitsKept
  <2> QED BY <2>1, <2>2
<1> QED BY <1>1, <1>3, <1>4 DEF Decisions

LEMMA KnowsMore ==
  ASSUME NEW saved, NEW w, NEW given, NEW more, given \subseteq more, ThreadKnows(saved, w, given)
  PROVE  ThreadKnows(saved, w, more)
<1>1. \A actions : OnlyApproved(actions, given) => OnlyApproved(actions, more)
  BY DEF OnlyApproved
<1>2. SamePlan(w, w)
  BY DEF SamePlan
<1>3. Rests(w.last, w, given) => Rests(w.last, w, more)
  BY <1>2, RestsKept
<1> QED BY <1>1, <1>3 DEF ThreadKnows, WorkOK

\* A result that is accepted by the saved status of its action.
LEMMA AcceptedRests ==
  ASSUME Base, Decisions, "replanned" \notin faults, NEW i \in DOMAIN db.actions, db # None,
         NEW result \in Result, result.action = db.actions[i].id,
         result.outcome \in AllowedOutcomes(db.actions[i].status),
         NEW given, approved \subseteq given, result.outcome = "approved" => result.action \in given
  PROVE  Rests(result, checkpoint, given)
<1> SUFFICES ASSUME Savable(checkpoint), checkpoint.plan.policy.confirm,
                    result.action[1] = checkpoint.rounds - 1, result.outcome \in Tries
             PROVE  result.action \in given
  BY DEF Rests
<1>1. db.actions \in Seq(Action(Nat)) /\ db.actions # <<>>
  <2>1. db.actions \in Seq(Action(Nat))
    BY DEF Base, Typed, Task
  <2> QED BY <2>1
<1>2. checkpoint # None
  BY <1>1, NoneAssumption DEF Base, ThreadOK
<1>3. OnlyApproved(db.actions, approved) /\ Known(db.actions, checkpoint)
  BY <1>2 DEF Decisions, ThreadKnows
<1>4. db.actions[i].policy.confirm
  BY <1>3 DEF Known
<1>5. db.actions[i].status = "ready"
  BY DEF AllowedOutcomes, Tries
<1> QED BY <1>3, <1>4, <1>5 DEF OnlyApproved

\* A result is taken up in an action of the plan it was reported for.
LEMMA ResumesApproved ==
  ASSUME NEW w, ThreadOK(w), NEW v, Resumes(w, v), NEW given, WorkOK(w, given)
  PROVE  WorkOK(v, given)
<1>1. v.node # "resume" /\ SameRun(w, v) /\ w.node = "resume" /\ Rests(w.last, w, given)
  BY DEF Resumes, WorkOK
<1> SUFFICES ASSUME JobsUnique(v.task) PROVE OnlyApproved(v.task.actions, given)
  BY <1>1 DEF WorkOK
<1>2. JobsUnique(w.task) /\ OnlyApproved(w.task.actions, given)
  BY <1>1 DEF WorkOK, JobsUnique, SameRun
<1>3. Savable(w)
  BY <1>1, <1>2 DEF Savable, ThreadOK
<1>4. ASSUME NEW i \in DOMAIN v.task.actions, v.task.actions[i].policy.confirm,
             v.task.actions[i].status \in {"ready", "succeeded"}
      PROVE  v.task.actions[i].id \in given
  <2> DEFINE a == w.task.actions[i]
             b == v.task.actions[i]
  <2>1. i \in DOMAIN w.task.actions /\ ChangedBy(a, w.last, b)
    BY DEF Resumes
  <2>2. a.id[1] = w.rounds - 1 /\ a.policy = w.plan.policy
    BY <2>1 DEF ThreadOK, OfPlan
  <2>3. CASE b.status = a.status
    BY <1>2, <1>4, <2>1, <2>3 DEF ChangedBy, OnlyApproved
  <2>4. CASE b.status # a.status
    <3>1. a.id = w.last.action /\ b.id = a.id /\ b.policy = a.policy
      BY <2>1, <2>4 DEF ChangedBy
    <3>2. w.last.outcome = "approved" \/ w.last.outcome \in Tries
      BY <1>4, <2>1, <2>4 DEF ChangedBy, Tries
    <3> HIDE DEF a, b
    <3>3. w.plan.policy.confirm /\ w.last.action[1] = w.rounds - 1
      BY <1>4, <2>2, <3>1 DEF b
    <3>4. w.last.action \in given
      BY <1>1, <1>3, <3>2, <3>3 DEF Rests
    <3> QED BY <3>1, <3>4 DEF b
  <2> QED BY <2>3, <2>4
<1> QED BY <1>4 DEF OnlyApproved

\* A plan made alone: no saved action is one of it, if the database would take the task.
LEMMA PlansKnown ==
  ASSUME Base, NEW w, ThreadOK(w), NEW v, ThreadOK(v), PlansAnew(w, v),
         db # None, Known(db.actions, w)
  PROVE  /\ Known(db.actions, v)
         /\ JobsUnique(v.task) => /\ JobsUnique(w.task)
                                  /\ \A i \in DOMAIN db.actions : db.actions[i].id[1] < w.rounds
                                  /\ w.rounds = 0 => db.actions = <<>>
<1>1. /\ v.rounds = w.rounds + 1 /\ w.rounds \in Nat /\ v.rounds # 0
      /\ v.task.jobs = Append(w.task.jobs, w.rounds)
      /\ w.task.jobs \in Seq(0..MaxRounds - 1) /\ FirstJob(w.task)
      /\ (w.node = "plan" => w.rounds = 0) /\ (w.node # "plan" => w.rounds # 0)
  <2>1. w \in Workflow(Nat) /\ FirstJob(w.task) /\ (w.node = "plan" => w.rounds = 0)
        /\ (w.node # "plan" => w.rounds # 0)
    BY DEF ThreadOK
  <2>2. w.rounds \in Nat /\ w.task \in Task(Nat)
    BY <2>1 DEF Workflow
  <2>3. w.task.jobs \in Seq(0..MaxRounds - 1)
    BY <2>2 DEF Task
  <2>4. v.rounds = w.rounds + 1 /\ v.task.jobs = Append(w.task.jobs, w.rounds)
    BY DEF PlansAnew
  <2>5. v.rounds # 0
    BY <2>2, <2>4
  <2> QED BY <2>1, <2>2, <2>3, <2>4, <2>5
<1>2. db.actions \in Seq(Action(Nat)) /\ \A i \in DOMAIN db.actions : db.actions[i].id[1] \in Nat
  <2>1. db.actions \in Seq(Action(Nat))
    BY DEF Base, Typed, Task
  <2>2. \A i \in DOMAIN db.actions : db.actions[i] \in Action(Nat)
    BY <2>1
  <2> QED BY <2>1, <2>2 DEF Action, Ids
<1> DEFINE J == w.task.jobs
<1>3. \A k \in 1..Len(J) : v.task.jobs[k] = J[k] /\ k \in DOMAIN v.task.jobs /\ k \in DOMAIN J
  BY <1>1
<1>4. /\ v.task.jobs[Len(J) + 1] = w.rounds /\ Len(J) + 1 \in DOMAIN v.task.jobs /\ Len(J) \in Nat
      /\ DOMAIN J = 1..Len(J)
  BY <1>1
<1>5. ASSUME JobsUnique(v.task)
      PROVE  /\ JobsUnique(w.task) /\ (w.rounds = 0 => db.actions = <<>>)
             /\ \A i \in DOMAIN db.actions : db.actions[i].id[1] < w.rounds
  <2>1. CASE w.rounds = 0
    <3>1. J = <<>>
      <4> SUFFICES ASSUME J # <<>> PROVE FALSE
        OBVIOUS
      <4>1. 1 \in 1..Len(J) /\ J[1] = 0
        BY <1>1 DEF FirstJob
      <4>2. v.task.jobs[1] = v.task.jobs[Len(J) + 1] /\ 1 \in DOMAIN v.task.jobs
        BY <1>3, <1>4, <2>1, <4>1
      <4>3. 1 = Len(J) + 1
        BY <1>4, <1>5, <4>2 DEF JobsUnique
      <4> QED BY <1>4, <4>1, <4>3
    <3>2. db.actions = <<>>
      BY <2>1, <3>1 DEF Known
    <3>3. JobsUnique(w.task)
      BY <3>1 DEF JobsUnique
    <3> QED BY <3>2, <3>3
  <2>2. CASE w.rounds # 0
    <3> HIDE DEF J
    <3>1. JobsUnique(w.task)
      BY <1>3, <1>4, <1>5 DEF JobsUnique, J
    <3> QED BY <2>2, <3>1 DEF Known, Savable
  <2> QED BY <2>1, <2>2
<1>6. Known(db.actions, v)
  BY <1>1, <1>2, <1>5 DEF Known, Savable
<1> QED BY <1>5, <1>6

LEMMA BeginDecisions ==
  ASSUME Base, Decisions, "replanned" \notin faults', NEW r \in Requests, NEW x, Begin(r, x)
  PROVE  Decisions'
<1>1. /\ request' = [request EXCEPT ![r] = x] /\ checkpoint' = checkpoint /\ request[r] = Idle
      /\ faults \subseteq faults' /\ RequestOK(x)
      /\ Others(r) = {} \/ (x.kind # "run" /\ \A q \in Others(r) : request[q].kind # "run")
  BY DEF Begin, Entered, Enter
<1>2. "replanned" \notin faults /\ ThreadKnows(db, checkpoint, approved)
  BY <1>1 DEF Decisions
<1>3. approved \subseteq approved'
  BY DEF Begin
<1>4. ThreadKnows(db, checkpoint, approved')
  BY <1>2, <1>3, KnowsMore
<1>5. CASE db = None /\ db' = NewTask /\ x.kind = "run" /\ x.pc = "read" /\ x.read = NewTask
  <2>1. ThreadKnows(db', checkpoint', approved')
    BY <1>1, <1>4, <1>5 DEF ThreadKnows, OnlyApproved, Known, NewTask
  <2>2. Fits(x, checkpoint', db', approved')
    BY <1>5 DEF Fits
  <2>3. Others(r) = {}
    BY <1>1, <1>5
  <2> QED BY <1>1, <1>2, <1>3, <2>1, <2>2, <2>3, DecisionsKept
<1>6. CASE db' = db
  <2>1. Fits(x, checkpoint', db', approved')
    <3>1. CASE x.pc = "read" /\ x.kind = "run" /\ x.read = db
      BY <1>6, <3>1 DEF Fits
    <3>2. CASE x.pc = "save" /\ x.kind = "remove"
      BY <1>1, <3>2 DEF Fits, RequestOK, SaveOK
    <3>3. ASSUME NEW i \in DOMAIN db.actions, NEW result \in Result, db # None,
                 x.pc = "read" /\ x.kind = "report" /\ x.result = result,
                 result.action = db.actions[i].id,
                 result.outcome \in AllowedOutcomes(db.actions[i].status),
                 approved' = IF result.outcome = "approved" THEN approved \cup {result.action} ELSE approved
          PROVE  Fits(x, checkpoint', db', approved')
      <4>1. result.outcome = "approved" => result.action \in approved'
        BY <3>3
      <4>2. Rests(result, checkpoint, approved')
        BY <1>2, <1>3, <3>3, <4>1, AcceptedRests
      <4> QED BY <1>1, <3>3, <4>2 DEF Fits
    <3> QED BY <1>6, <3>1, <3>2, <3>3, NewTaskIs, NoneAssumption DEF Begin
  <2>2. ThreadKnows(db', checkpoint', approved')
    BY <1>1, <1>4, <1>6
  <2> QED BY <1>1, <1>2, <1>3, <1>6, <2>1, <2>2, DecisionsKept
<1> QED BY <1>5, <1>6 DEF Begin

LEMMA InvokedDecisions ==
  ASSUME Base, Decisions, "replanned" \notin faults', NEW r \in Requests, Invoked(r)
  PROVE  Decisions'
<1>1. /\ request[r].pc = "read" /\ db' = db /\ approved' = approved /\ "replanned" \notin faults
      /\ Fits(request[r], checkpoint, db, approved) /\ ThreadKnows(db, checkpoint, approved)
      /\ RunAlone(request) /\ request[r] # Idle /\ approved \subseteq approved'
  BY DEF Invoked, Decisions, Idle
<1>2. CASE request[r].kind = "run"
  <2> DEFINE w == Fresh(request[r].task)
             x == Running(request[r], request[r].task, None, w)
  <2>1. /\ checkpoint' = w /\ request' = [request EXCEPT ![r] = x]
        /\ Others(r) = {}
    BY <1>1, <1>2 DEF Invoked, RunAlone, Others
  <2>2. w.node = "plan" /\ w.rounds = 0 /\ w.task = request[r].task /\ w.task.actions = <<>>
        /\ w.task.jobs = db.jobs
    <3>1. w.node = "plan" /\ w.rounds = 0 /\ w.task = request[r].task
      BY DEF Fresh
    <3>2. Begun(request[r]) /\ request[r].read = db
      BY <1>1, <1>2 DEF Base, RequestOK, Fits
    <3> QED BY <3>1, <3>2 DEF Begun, Emptied
  <2>3. x.pc = "running" /\ x.w = w /\ x.result = None
    BY DEF Running
  <2> HIDE DEF w, x
  <2>4. WorkOK(w, approved) /\ SamePlan(w, w)
    BY <2>2 DEF WorkOK, OnlyApproved, SamePlan
  <2>5. Fits(x, w, db, approved)
    BY <2>3, <2>4 DEF Fits
  <2>6. ThreadKnows(db, w, approved)
    <3>1. db # None => Known(db.actions, w)
      BY <2>2 DEF Known, Savable, Base, TaskOK
    <3> QED BY <1>1, <2>4, <3>1 DEF ThreadKnows
  <2> QED BY <1>1, <2>1, <2>5, <2>6, DecisionsKept
<1>3. CASE request[r].kind = "report"
  <2>1. PICK result \in {request[r].result, None} :
          request' = [request EXCEPT ![r] = Running(request[r], None, result, checkpoint)]
    BY <1>3 DEF Invoked
  <2>2. checkpoint' = checkpoint /\ checkpoint # None
    BY <1>3, NoneAssumption DEF Invoked, ThreadOK
  <2> DEFINE x == Running(request[r], None, result, checkpoint)
  <2>3. x.pc = "running" /\ x.w = checkpoint /\ x.result = result /\ x.kind = request[r].kind
    BY DEF Running
  <2>4. request' = [request EXCEPT ![r] = x]
    BY <2>1
  <2> HIDE DEF x
  <2>5. result # None => Rests(result, checkpoint, approved)
    BY <1>1, <1>3, <2>1 DEF Fits
  <2>6. Fits(x, checkpoint, db, approved)
    BY <1>1, <2>2, <2>3, <2>5 DEF Fits, SamePlan, ThreadKnows
  <2> QED BY <1>1, <2>2, <2>3, <2>4, <2>6, DecisionsKept
<1> QED BY <1>2, <1>3 DEF Invoked

LEMMA MovedDecisions ==
  ASSUME Base, Decisions, "replanned" \notin faults', NEW r \in Requests, NEW v, Moved(r, v), NodeStep(r, v)
  PROVE  Decisions'
<1> DEFINE w == request[r].w
           result == request[r].result
           x == Running(request[r], request[r].task, None, v)
<1>1. /\ request[r].pc = "running" /\ ThreadOK(v) /\ checkpoint' = v
      /\ request' = [request EXCEPT ![r] = x] /\ db' = db /\ approved' = approved
      /\ request[r] # Idle /\ "replanned" \notin faults /\ approved \subseteq approved'
  BY DEF Moved, NodeStep, Idle
<1>2. /\ ThreadOK(w) /\ checkpoint # None /\ ThreadKnows(db, checkpoint, approved)
      /\ SamePlan(checkpoint, w) /\ WorkOK(w, approved)
      /\ result # None => Rests(result, checkpoint, approved)
  <2>1. ThreadOK(checkpoint) /\ ThreadOK(w)
    BY <1>1, RunningIs
  <2> QED BY <1>1, <2>1, NoneAssumption DEF Decisions, Fits, ThreadOK
<1>3. x.pc = "running" /\ x.w = v /\ x.result = None /\ x.kind = request[r].kind
  BY DEF Running
<1> HIDE DEF w, x, result
<1>4. ASSUME WorkOK(v, approved) PROVE Fits(x, v, db, approved)
  BY <1>3, <1>4 DEF Fits, SamePlan
<1>5. CASE PlansAnew(w, v)
  <2>1. Others(r) = {}
    BY <1>1, <1>5 DEF NodeStep, PlansAnew, w
  <2>2. WorkOK(v, approved)
    BY <1>5 DEF PlansAnew, Emptied, WorkOK, OnlyApproved
  <2>3. ThreadKnows(db, v, approved)
    <3>1. db # None => Known(db.actions, w)
      BY <1>2 DEF ThreadKnows, Known, SamePlan, Savable, JobsUnique
    <3>2. db # None => Known(db.actions, v)
      BY <1>1, <1>2, <1>5, <3>1, PlansKnown
    <3> QED BY <1>2, <2>2, <3>2 DEF ThreadKnows
  <2> QED BY <1>1, <1>4, <2>1, <2>2, <2>3, DecisionsKept
<1>6. CASE ~PlansAnew(w, v)
  <2>1. SameRun(w, v)
    BY <1>6 DEF NodeStep, DoesStep, TakesUp, Resumes, TriesAgain, w
  <2>2. SamePlan(w, v) /\ SamePlan(checkpoint, v)
    BY <1>2, <2>1 DEF SamePlan, SameRun
  <2>3. WorkOK(v, approved)
    <3>1. CASE DoesStep(w, v)
      BY <3>1 DEF DoesStep, WorkOK, OnlyApproved, Untried
    <3>2. CASE TakesUp(w, result, v)
      <4>1. v.last = result /\ v.task = w.task /\ Rests(result, checkpoint, approved)
        BY <1>2, <3>2 DEF TakesUp
      <4>2. Rests(v.last, v, approved)
        BY <2>2, <4>1, RestsKept
      <4> QED BY <1>2, <4>1, <4>2 DEF WorkOK
    <3>3. CASE Resumes(w, v)
      BY <1>2, <3>3, ResumesApproved
    <3>4. CASE TriesAgain(w, v)
      BY <1>2, <2>2, <3>4 DEF TriesAgain, WorkOK, JobsUnique, SamePlan
    <3> QED BY <1>6, <3>1, <3>2, <3>3, <3>4 DEF NodeStep, w, result
  <2>4. ThreadKnows(db, v, approved)
    BY <1>2, <2>2, <2>3 DEF ThreadKnows, Known, SamePlan, Savable, JobsUnique
  <2> QED BY <1>1, <1>2, <1>3, <1>4, <2>2, <2>3, <2>4, DecisionsKept
<1> QED BY <1>5, <1>6

LEMMA EndsDecisions ==
  ASSUME Base, Decisions, "replanned" \notin faults', NEW r \in Requests
  PROVE  /\ \A task \in Task(Nat) : Left(r, task) => Decisions'
         /\ Saved(r) \/ Raised(r) \/ GaveUp(r) => Decisions'
<1>1. ASSUME NEW task \in Task(Nat), Left(r, task) PROVE Decisions'
  <2> DEFINE w == request[r].w
             x == Saving(request[r], task)
  <2>1. /\ request[r].pc = "running" /\ request' = [request EXCEPT ![r] = x] /\ db' = db
        /\ checkpoint' = checkpoint /\ approved' = approved /\ faults' = faults
        /\ Returned(request[r], task) /\ request[r] # Idle /\ approved \subseteq approved'
    BY <1>1 DEF Left, Idle
  <2>2. /\ ThreadKnows(db, checkpoint, approved) /\ SamePlan(checkpoint, w) /\ WorkOK(w, approved)
        /\ ThreadOK(w) /\ task.jobs = w.task.jobs /\ task.actions = w.task.actions
        /\ "replanned" \notin faults /\ request[r].kind # "remove"
    BY <2>1, RunningIs DEF Decisions, Fits, Returned
  <2>3. x.pc = "save" /\ x.kind = request[r].kind /\ x.task = task
    BY DEF Saving
  <2> HIDE DEF x, w
  <2>4. Fits(x, checkpoint, db, approved)
    <3>1. OfPlan(task.actions, checkpoint.rounds - 1, checkpoint.plan)
      BY <2>2 DEF ThreadOK, SamePlan
    <3>2. checkpoint.rounds = 0 => task.actions = <<>>
      BY <2>2 DEF ThreadOK, SamePlan, Emptied
    <3>3. JobsUnique(task) => OnlyApproved(task.actions, approved)
      BY <2>2 DEF WorkOK, JobsUnique
    <3> QED BY <2>2, <2>3, <3>1, <3>2, <3>3 DEF Fits, SamePlan
  <2> QED BY <2>1, <2>2, <2>3, <2>4, DecisionsKept
<1>2. ASSUME Saved(r) \/ Raised(r) \/ GaveUp(r) PROVE Decisions'
  <2>1. /\ request[r] # Idle /\ request' = [request EXCEPT ![r] = Idle] /\ checkpoint' = checkpoint
        /\ approved' = approved /\ faults \subseteq faults' /\ approved \subseteq approved'
    BY <1>2 DEF Saved, Raised, GaveUp, Ended
  <2>2. /\ "replanned" \notin faults /\ ThreadKnows(db, checkpoint, approved)
        /\ Fits(request[r], checkpoint, db, approved) /\ RunAlone(request)
    BY <2>1 DEF Decisions
  <2>3. Fits(Idle, checkpoint', db', approved')
    BY DEF Fits, Idle
  <2>4. ThreadKnows(db', checkpoint, approved) /\ (db' = db \/ \A q \in Others(r) : request[q].kind # "run")
    <3>1. CASE db' = db
      BY <2>2, <3>1
    <3>2. CASE Saved(r)
      <4> DEFINE task == request[r].task
      <4>1. /\ request[r].pc = "save" /\ db = request[r].read /\ db' = task /\ JobsUnique(task)
        BY <3>2 DEF Saved, JobsUnique
      <4>2. CASE request[r].kind = "remove"
        <5>1. task = db \/ task.actions = <<>>
          BY <2>2, <4>1, <4>2 DEF Fits
        <5>2. \A q \in Others(r) : request[q].kind # "run"
          BY <2>1, <2>2, <4>2 DEF RunAlone, Others
        <5>3. task.actions = <<>> => ThreadKnows(db', checkpoint, approved)
          BY <2>2, <4>1 DEF ThreadKnows, OnlyApproved, Known
        <5> QED BY <2>2, <4>1, <5>1, <5>2, <5>3
      <4>3. CASE request[r].kind # "remove"
        <5>1. /\ OfPlan(task.actions, checkpoint.rounds - 1, checkpoint.plan)
              /\ checkpoint.rounds = 0 => task.actions = <<>>
              /\ OnlyApproved(task.actions, approved)
          BY <2>2, <4>1, <4>3 DEF Fits
        <5>2. \A q \in Others(r) : request[q].kind # "run"
          BY <2>1, <2>2, <4>3 DEF RunAlone, Others
        <5>3. checkpoint # None => checkpoint.rounds \in Nat
          BY DEF Base, Typed, Workflow
        <5> HIDE DEF task
        <5>4. checkpoint # None => Known(task.actions, checkpoint)
          BY <5>1, <5>3 DEF Known, OfPlan
        <5> QED BY <2>2, <4>1, <5>1, <5>2, <5>4 DEF ThreadKnows
      <4> QED BY <4>2, <4>3
    <3> QED BY <1>2, <3>1, <3>2 DEF Raised, GaveUp
  <2> QED BY <2>1, <2>2, <2>3, <2>4, DecisionsKept
<1> QED BY <1>1, <1>2

LEMMA DecisionsStep ==
  ASSUME Base, Decisions, [Next]_vars
  PROVE  Decisions'
<1> SUFFICES ASSUME "replanned" \notin faults' PROVE Decisions'
  BY DEF Decisions
<1>1. CASE UNCHANGED vars
  BY <1>1 DEF vars, Decisions
<1>2. ASSUME NEW r \in Requests, StepOf(r) PROVE Decisions'
  BY <1>2, BeginDecisions, InvokedDecisions, MovedDecisions, EndsDecisions DEF StepOf
<1> QED BY <1>1, <1>2, StepsAre

\* The host is never told to execute an action it has to confirm and did not, nor is
\* such an action ever recorded as executed, for every plan and any number of requests:
\* not after deaths, retries, replans, refused saves and overlapping reports.  Only a
\* plan made beside another request is left out (ExecutesOnlyApproved).
THEOREM OnlyApprovedExecuted == Spec => []ExecutesOnlyApproved
<1>1. Decisions => ExecutesOnlyApproved
  BY DEF Decisions, ThreadKnows, OnlyApproved, ExecutesOnlyApproved
<1>2. Base /\ Decisions /\ [Next]_vars => Decisions'
  BY DecisionsStep
<1> QED BY <1>1, <1>2, DecisionsInit, BaseHolds, PTL DEF Spec

-----------------------------------------------------------------------------
(* No action is tried more often than its policy allows, as long as        *)
(* nothing goes wrong: the thread then waits for the actions that are      *)
(* saved, so a result is about an action that is open there too.           *)

\* An open action has an attempt left.
Bounded(actions) ==
  \A i \in DOMAIN actions :
    /\ actions[i].attempts <= actions[i].policy.maxAttempts
    /\ actions[i].status \in {"proposed", "ready"} => actions[i].attempts < actions[i].policy.maxAttempts

StillOpen(result, actions) ==
  \A i \in DOMAIN actions :
    actions[i].id = result.action => actions[i].status \in {"proposed", "ready"}

\* No request has moved the thread, or is to save what the thread came to.
OnlyBegun(req) == req.pc \in {"idle", "read"} \/ (req.pc = "save" /\ req.kind = "remove")

Settled(requests) == \A r \in Requests : OnlyBegun(requests[r])

Attempts ==
  faults = {} =>
    /\ db # None => Bounded(db.actions)
    /\ checkpoint # None => /\ Bounded(checkpoint.task.actions)
                            /\ checkpoint.node = "resume" => StillOpen(checkpoint.last, checkpoint.task.actions)
    /\ \A r \in Requests :
         /\ request[r].pc = "read" /\ request[r].kind = "report" /\ checkpoint.node = "wait"
              => StillOpen(request[r].result, checkpoint.task.actions)
         /\ request[r].pc = "running" /\ request[r].result # None
              => StillOpen(request[r].result, checkpoint.task.actions)
    /\ Settled(request) /\ db # None /\ checkpoint # None /\ checkpoint.node = "wait"
         => db.actions \in {<<>>, checkpoint.task.actions}

LEMMA AttemptsInit == Init => Attempts
<1> SUFFICES ASSUME Init PROVE Attempts
  OBVIOUS
<1>1. \A r \in Requests : request[r] = Idle /\ Idle.pc = "idle"
  BY DEF Init, Idle
<1> QED BY <1>1 DEF Init, Attempts

\* Requests one at a time: all but one are idle.
LEMMA Alone ==
  ASSUME Base, Turn, "overlap" \notin faults, NEW r \in Requests, NEW x,
         request' = [request EXCEPT ![r] = x], request[r] # Idle \/ Others(r) = {}
  PROVE  /\ request'[r] = x /\ Idle.pc = "idle"
         /\ \A q \in Requests \ {r} : request'[q] = Idle /\ request[q] = Idle
<1>1. request'[r] = x /\ \A q \in Requests \ {r} : request'[q] = request[q]
  BY Changed
<1>2. \A q \in Requests \ {r} : request[q] = Idle
  BY DEF Turn, Others
<1> QED BY <1>1, <1>2 DEF Idle

\* Actions that were not tried have their attempts left.
LEMMA UntriedBounded ==
  ASSUME NEW actions \in Seq(Action(Nat)), Untried(actions)
  PROVE  Bounded(actions)
<1> SUFFICES ASSUME NEW i \in DOMAIN actions
             PROVE  0 < actions[i].policy.maxAttempts /\ actions[i].policy.maxAttempts \in Nat
                    /\ actions[i].attempts = 0
  BY DEF Bounded
<1>1. actions[i] \in Action(Nat)
  OBVIOUS
<1>2. actions[i].policy \in {plan.policy : plan \in Plans}
  BY <1>1 DEF Action
<1>3. actions[i].policy.maxAttempts \in Nat \ {0}
  BY <1>2, WorkflowAssumption
<1> QED BY <1>3 DEF Untried

\* A result about an open action leaves it over, or with an attempt left.
LEMMA ResumesBounded ==
  ASSUME NEW w, ThreadOK(w), NEW v, ThreadOK(v), Resumes(w, v),
         Bounded(w.task.actions), StillOpen(w.last, w.task.actions)
  PROVE  Bounded(v.task.actions)
<1> SUFFICES ASSUME NEW i \in DOMAIN v.task.actions
             PROVE  LET b == v.task.actions[i] IN
                    /\ b.attempts <= b.policy.maxAttempts
                    /\ b.status \in {"proposed", "ready"} => b.attempts < b.policy.maxAttempts
  BY DEF Bounded
<1> DEFINE a == w.task.actions[i]
           b == v.task.actions[i]
<1>1. i \in DOMAIN w.task.actions /\ ChangedBy(a, w.last, b)
  BY DEF Resumes
<1>2. a.attempts \in Nat /\ a.policy.maxAttempts \in Nat
  <2>1. a \in Action(Nat)
    <3>1. w.task.actions \in Seq(Action(Nat))
      BY WorkflowFields DEF ThreadOK
    <3> QED BY <1>1, <3>1
  <2>2. a.policy \in {plan.policy : plan \in Plans}
    BY <2>1 DEF Action
  <2> QED BY <2>1, <2>2, WorkflowAssumption DEF Action
<1>3. /\ a.attempts <= a.policy.maxAttempts
      /\ a.status \in {"proposed", "ready"} => a.attempts < a.policy.maxAttempts
      /\ a.id = w.last.action => a.status \in {"proposed", "ready"}
  BY <1>1 DEF Bounded, StillOpen
<1> HIDE DEF a, b
<1>4. CASE b.status = a.status /\ b.attempts = a.attempts
  BY <1>1, <1>2, <1>3, <1>4 DEF ChangedBy, b
<1>5. CASE ~(b.status = a.status /\ b.attempts = a.attempts)
  <2>1. /\ a.id = w.last.action /\ b.status # "proposed" /\ b.policy = a.policy
        /\ b.attempts \in {a.attempts, a.attempts + 1}
        /\ b.status = "ready" => b.attempts = a.attempts \/ b.attempts < b.policy.maxAttempts
    BY <1>1, <1>5 DEF ChangedBy
  <2>2. a.attempts < a.policy.maxAttempts
    BY <1>3, <2>1
  <2> QED BY <1>2, <2>1, <2>2 DEF b
<1> QED BY <1>4, <1>5

\* What is left to show when request r has become x.
LEMMA AttemptsKept ==
  ASSUME Base, Turn, "overlap" \notin faults, NEW r \in Requests, NEW x,
         request' = [request EXCEPT ![r] = x], request[r] # Idle \/ Others(r) = {},
         db' # None => Bounded(db'.actions),
         checkpoint' # None =>
           /\ Bounded(checkpoint'.task.actions)
           /\ checkpoint'.node = "resume" => StillOpen(checkpoint'.last, checkpoint'.task.actions),
         x.pc = "read" /\ x.kind = "report" /\ checkpoint'.node = "wait"
           => StillOpen(x.result, checkpoint'.task.actions),
         x.pc = "running" /\ x.result # None => StillOpen(x.result, checkpoint'.task.actions),
         OnlyBegun(x) /\ db' # None /\ checkpoint' # None /\ checkpoint'.node = "wait"
         => db'.actions \in {<<>>, checkpoint'.task.actions}
  PROVE  Attempts'
<1>1. /\ request'[r] = x /\ Idle.pc = "idle"
      /\ \A q \in Requests \ {r} : request'[q] = Idle
  BY Alone
<1>2. Settled(request') => OnlyBegun(x)
  BY <1>1 DEF Settled
<1>3. \A q \in Requests :
        /\ request'[q].pc = "read" /\ request'[q].kind = "report" /\ checkpoint'.node = "wait"
             => StillOpen(request'[q].result, checkpoint'.task.actions)
        /\ request'[q].pc = "running" /\ request'[q].result # None
             => StillOpen(request'[q].result, checkpoint'.task.actions)
  BY <1>1
<1>4. Settled(request') /\ db' # None /\ checkpoint' # None /\ checkpoint'.node = "wait"
        => db'.actions \in {<<>>, checkpoint'.task.actions}
  BY <1>2
<1> QED BY <1>3, <1>4 DEF Attempts

LEMMA BeginAttempts ==
  ASSUME Base, Turn, Attempts, faults' = {}, NEW r \in Requests, NEW x, Begin(r, x)
  PROVE  Attempts'
<1>1. /\ request' = [request EXCEPT ![r] = x] /\ checkpoint' = checkpoint /\ request[r] = Idle
      /\ faults = {} /\ Others(r) = {}
  BY DEF Begin, Entered, Enter
<1>2. Settled(request)
  <2>1. \A q \in Requests : request[q] = Idle
    BY <1>1 DEF Others
  <2> QED BY <2>1 DEF Settled, OnlyBegun, Idle
<1>3. /\ db # None => Bounded(db.actions)
      /\ checkpoint # None =>
           /\ Bounded(checkpoint.task.actions)
           /\ checkpoint.node = "resume" => StillOpen(checkpoint.last, checkpoint.task.actions)
      /\ db # None /\ checkpoint # None /\ checkpoint.node = "wait"
           => db.actions \in {<<>>, checkpoint.task.actions}
  BY <1>1, <1>2 DEF Attempts
<1>4. /\ x.pc = "read" \/ (x.pc = "save" /\ x.kind = "remove")
      /\ db' = db \/ db' = NewTask
  BY DEF Begin
<1>5. /\ db' # None => Bounded(db'.actions)
      /\ db' # None /\ checkpoint' # None /\ checkpoint'.node = "wait"
           => db'.actions \in {<<>>, checkpoint'.task.actions}
  BY <1>1, <1>3, <1>4 DEF NewTask, Bounded
<1>6. ASSUME x.pc = "read", x.kind = "report", checkpoint.node = "wait"
      PROVE  StillOpen(x.result, checkpoint.task.actions)
  <2>1. PICK i \in DOMAIN db.actions :
          /\ x.result.action = db.actions[i].id /\ db # None
          /\ x.result.outcome \in AllowedOutcomes(db.actions[i].status)
    BY <1>6 DEF Begin
  <2>2. db.actions[i].status \in {"proposed", "ready"}
    BY <2>1 DEF AllowedOutcomes
  <2>3. db.actions # <<>>
    BY <2>1
  <2>4. ThreadOK(checkpoint) /\ checkpoint # None
    BY <2>1, <2>3, NoneAssumption DEF Base, ThreadOK
  <2>5. db.actions = checkpoint.task.actions
    BY <1>3, <1>6, <2>1, <2>3, <2>4
  <2>6. \A j \in DOMAIN checkpoint.task.actions : checkpoint.task.actions[j].id = db.actions[i].id => j = i
    BY <2>4, <2>5 DEF ThreadOK, OfPlan
  <2> QED BY <2>1, <2>2, <2>5, <2>6 DEF StillOpen
<1> QED BY <1>1, <1>3, <1>4, <1>5, <1>6, AttemptsKept

LEMMA InvokedAttempts ==
  ASSUME Base, Turn, Attempts, faults' = {}, NEW r \in Requests, Invoked(r)
  PROVE  Attempts'
<1>1. /\ request[r].pc = "read" /\ db' = db /\ faults = {} /\ request[r] # Idle
      /\ db # None => Bounded(db.actions)
  BY DEF Invoked, Idle, Attempts
<1>2. CASE request[r].kind = "run"
  <2> DEFINE w == Fresh(request[r].task)
             x == Running(request[r], request[r].task, None, w)
  <2>1. checkpoint' = w /\ request' = [request EXCEPT ![r] = x]
    BY <1>2 DEF Invoked
  <2>2. w.node = "plan" /\ w.task.actions = <<>>
    BY <1>1, <1>2 DEF Fresh, Base, RequestOK, Begun, Emptied
  <2>3. x.pc = "running" /\ x.result = None
    BY DEF Running
  <2> HIDE DEF w, x
  <2>4. Bounded(w.task.actions)
    BY <2>2 DEF Bounded
  <2> QED BY <1>1, <2>1, <2>2, <2>3, <2>4, AttemptsKept DEF OnlyBegun
<1>3. CASE request[r].kind = "report"
  <2>1. PICK result \in {request[r].result, None} :
          /\ result # None => checkpoint.node = "wait"
          /\ request' = [request EXCEPT ![r] = Running(request[r], None, result, checkpoint)]
    BY <1>3 DEF Invoked
  <2> DEFINE x == Running(request[r], None, result, checkpoint)
  <2>2. checkpoint' = checkpoint /\ request' = [request EXCEPT ![r] = x]
    BY <1>3, <2>1 DEF Invoked
  <2>3. x.pc = "running" /\ x.result = result
    BY DEF Running
  <2> HIDE DEF x
  <2>4. result # None => StillOpen(result, checkpoint.task.actions)
    BY <1>1, <1>3, <2>1 DEF Attempts
  <2>5. checkpoint # None =>
          /\ Bounded(checkpoint.task.actions)
          /\ checkpoint.node = "resume" => StillOpen(checkpoint.last, checkpoint.task.actions)
    BY <1>1 DEF Attempts
  <2> QED BY <1>1, <2>2, <2>3, <2>4, <2>5, AttemptsKept DEF OnlyBegun
<1> QED BY <1>2, <1>3 DEF Invoked

LEMMA MovedAttempts ==
  ASSUME Base, Turn, Attempts, faults' = {}, NEW r \in Requests, NEW v, Moved(r, v), NodeStep(r, v)
  PROVE  Attempts'
<1> DEFINE w == request[r].w
           result == request[r].result
           x == Running(request[r], request[r].task, None, v)
<1>1. /\ request[r].pc = "running" /\ ThreadOK(v) /\ checkpoint' = v /\ db' = db
      /\ request' = [request EXCEPT ![r] = x] /\ request[r] # Idle /\ faults = {}
  BY DEF Moved, NodeStep, Idle
<1>2. ThreadOK(w) /\ w = checkpoint /\ checkpoint # None
  BY <1>1, RunningIs, NoneAssumption DEF Turn, ThreadOK
<1>3. /\ Bounded(w.task.actions) /\ (db # None => Bounded(db.actions))
      /\ w.node = "resume" => StillOpen(w.last, w.task.actions)
      /\ result # None => StillOpen(result, w.task.actions)
  BY <1>1, <1>2 DEF Attempts
<1>4. x.pc = "running" /\ x.result = None
  BY DEF Running
<1> HIDE DEF w, x, result
<1>5. Bounded(v.task.actions) /\ (v.node = "resume" => StillOpen(v.last, v.task.actions))
  <2>1. CASE PlansAnew(w, v)
    BY <2>1 DEF PlansAnew, Emptied, Bounded
  <2>2. CASE DoesStep(w, v)
    <3>1. Untried(v.task.actions) /\ v.node # "resume" /\ v.task.actions \in Seq(Action(Nat))
      BY <1>1, <2>2, WorkflowFields DEF DoesStep, ThreadOK
    <3> QED BY <3>1, UntriedBounded
  <2>3. CASE TakesUp(w, result, v)
    BY <1>3, <2>3 DEF TakesUp
  <2>4. CASE Resumes(w, v)
    <3>1. w.node = "resume" /\ v.node # "resume"
      BY <2>4 DEF Resumes
    <3> QED BY <1>1, <1>2, <1>3, <2>4, <3>1, ResumesBounded
  <2>5. CASE TriesAgain(w, v)
    BY <1>3, <2>5 DEF TriesAgain
  <2> QED BY <2>1, <2>2, <2>3, <2>4, <2>5 DEF NodeStep, w, result
<1> QED BY <1>1, <1>3, <1>4, <1>5, AttemptsKept DEF OnlyBegun

LEMMA EndsAttempts ==
  ASSUME Base, Turn, Attempts, faults' = {}, NEW r \in Requests
  PROVE  /\ \A task \in Task(Nat) : Left(r, task) => Attempts'
         /\ Saved(r) \/ Raised(r) \/ GaveUp(r) => Attempts'
<1>1. ASSUME NEW task \in Task(Nat), Left(r, task) PROVE Attempts'
  <2> DEFINE x == Saving(request[r], task)
  <2>1. /\ request[r].pc = "running" /\ request' = [request EXCEPT ![r] = x] /\ db' = db
        /\ checkpoint' = checkpoint /\ faults = {} /\ request[r] # Idle
    BY <1>1 DEF Left, Idle
  <2>2. /\ db # None => Bounded(db.actions)
        /\ checkpoint # None =>
             /\ Bounded(checkpoint.task.actions)
             /\ checkpoint.node = "resume" => StillOpen(checkpoint.last, checkpoint.task.actions)
    BY <2>1 DEF Attempts
  <2>3. x.pc = "save" /\ x.kind # "remove"
    BY <2>1, RunningIs DEF Saving
  <2> HIDE DEF x
  <2> QED BY <2>1, <2>2, <2>3, AttemptsKept DEF OnlyBegun
<1>2. ASSUME Saved(r) \/ Raised(r) PROVE Attempts'
  <2>1. /\ request[r] # Idle /\ request' = [request EXCEPT ![r] = Idle] /\ checkpoint' = checkpoint
        /\ faults = {}
    BY <1>2 DEF Saved, Raised, Ended
  <2>2. /\ db # None => Bounded(db.actions)
        /\ checkpoint # None =>
             /\ Bounded(checkpoint.task.actions)
             /\ checkpoint.node = "resume" => StillOpen(checkpoint.last, checkpoint.task.actions)
    BY <2>1 DEF Attempts
  <2>3. Idle.pc = "idle"
    BY DEF Idle
  <2>4. CASE Saved(r)
    <3> DEFINE task == request[r].task
    <3>1. request[r].pc = "save" /\ db = request[r].read /\ db' = task
      BY <2>4 DEF Saved
    <3>2. SaveOK(request[r]) /\ (task.actions # <<>> => ThreadOK(checkpoint)) /\ db # None
      BY <3>1, SaveRequestIs, NoneAssumption
    <3>3. CASE request[r].kind = "remove"
      <4>1. task = db \/ task.actions = <<>>
        BY <3>1, <3>2, <3>3 DEF SaveOK
      <4>2. Settled(request)
        <5>1. \A q \in Requests \ {r} : request[q] = Idle
          BY <2>1 DEF Turn
        <5> QED BY <2>3, <3>1, <3>3, <5>1 DEF Settled, OnlyBegun
      <4>3. checkpoint # None /\ checkpoint.node = "wait" => db.actions \in {<<>>, checkpoint.task.actions}
        BY <2>1, <3>2, <4>2 DEF Attempts
      <4>4. Bounded(task.actions)
        BY <2>2, <3>2, <4>1 DEF Bounded
      <4> QED BY <2>1, <2>2, <2>3, <3>1, <4>1, <4>3, <4>4, AttemptsKept
    <3>4. CASE request[r].kind # "remove"
      <4>1. task.actions = checkpoint.task.actions
        BY <2>1, <3>1, <3>4 DEF Turn
      <4>2. Bounded(task.actions)
        <5>1. CASE task.actions = <<>>
          BY <5>1 DEF Bounded
        <5>2. CASE task.actions # <<>>
          BY <2>2, <3>2, <4>1, <5>2, NoneAssumption DEF ThreadOK
        <5> QED BY <5>1, <5>2
      <4> QED BY <2>1, <2>2, <2>3, <3>1, <4>1, <4>2, AttemptsKept
    <3> QED BY <3>3, <3>4
  <2>5. CASE Raised(r)
    <3>1. request[r].pc = "running" /\ request[r].w.node \in {"plan", "replan"} /\ db' = db
      BY <2>5 DEF Raised
    <3>2. checkpoint.node # "wait"
      BY <2>1, <3>1 DEF Turn
    <3> QED BY <2>1, <2>2, <2>3, <3>1, <3>2, AttemptsKept
  <2> QED BY <1>2, <2>4, <2>5
<1>3. ~GaveUp(r)
  BY DEF GaveUp
<1> QED BY <1>1, <1>2, <1>3

LEMMA AttemptsStep ==
  ASSUME Base, Turn, Attempts, [Next]_vars
  PROVE  Attempts'
<1> SUFFICES ASSUME faults' = {} PROVE Attempts'
  BY DEF Attempts
<1>1. CASE UNCHANGED vars
  BY <1>1 DEF vars, Attempts
<1>2. ASSUME NEW r \in Requests, StepOf(r) PROVE Attempts'
  BY <1>2, BeginAttempts, InvokedAttempts, MovedAttempts, EndsAttempts DEF StepOf
<1> QED BY <1>1, <1>2, StepsAre

\* If nothing is disturbed, no saved action has more attempts than its policy allows,
\* over replans, retries, planners that raise and inputs that change (AttemptsBounded).
THEOREM AttemptsAreBounded == Spec => []AttemptsBounded
<1>1. Attempts => AttemptsBounded
  BY DEF Attempts, Bounded, AttemptsBounded
<1>2. Base /\ Turn /\ Attempts /\ [Next]_vars => Turn' /\ Attempts'
  BY TurnStep, AttemptsStep
<1> QED BY <1>1, <1>2, TurnInit, AttemptsInit, BaseHolds, PTL DEF Spec

-----------------------------------------------------------------------------
(* What was saved is not taken back, by requests one at a time: the thread *)
(* is never behind the saved task, unless its task cannot be saved.        *)

\* The thread w took the saved actions further, or has later ones; a saved task that is
\* over, it left as it is.
Follows(w, saved) ==
  /\ \A i \in DOMAIN saved.actions, j \in DOMAIN w.task.actions :
       saved.actions[i].id = w.task.actions[j].id
         => Advances(saved.actions[i].status, w.task.actions[j].status)
  /\ w.node \in {"step", "fail"} => \A i \in DOMAIN saved.actions : saved.actions[i].id[1] < w.rounds - 1
  /\ saved.actions # <<>> /\ saved.status \in Terminal
       => w.node = "end" /\ w.task.status = saved.status

\* A request under way has read what is saved; a run whose task can be saved works on
\* a task that had no actions.
Holds(req, w, saved) ==
  /\ req.read = saved
  /\ req.kind = "report" => saved.actions # <<>>
  /\ req.kind = "run" /\ req.pc \in {"running", "save"} /\ Savable(w) => saved.actions = <<>>
  /\ req.pc = "read" /\ req.kind = "report" => StillOpen(req.result, saved.actions)
  /\ req.pc = "running" /\ req.result # None => StillOpen(req.result, saved.actions)
  /\ req.pc = "save" /\ req.kind # "remove" => w.node \in {"plan", "wait", "end"}

IdsUnique(actions) == \A i, j \in DOMAIN actions : actions[i].id = actions[j].id => i = j

ThreadFollows(saved, w) ==
  /\ saved # None => IdsUnique(saved.actions)
  /\ saved # None /\ w # None =>
       /\ Savable(w) => Follows(w, saved)
       /\ w.node = "resume" => StillOpen(w.last, saved.actions)

InTurn ==
  "overlap" \notin faults =>
    /\ "replanned" \notin faults /\ ThreadFollows(db, checkpoint)
    /\ \A r \in Requests : request[r] # Idle => Holds(request[r], checkpoint, db)

LEMMA InTurnInit == Init => InTurn
  BY DEF Init, InTurn, ThreadFollows

\* What is left to show when request r has become x.
LEMMA InTurnKept ==
  ASSUME Base, Turn, "overlap" \notin faults, "replanned" \notin faults', NEW r \in Requests, NEW x,
         request' = [request EXCEPT ![r] = x], request[r] # Idle \/ Others(r) = {},
         ThreadFollows(db', checkpoint'),
         x # Idle => Holds(x, checkpoint', db')
  PROVE  InTurn'
<1>1. request'[r] = x /\ \A q \in Requests \ {r} : request'[q] = Idle
  BY Alone
<1> QED BY <1>1 DEF InTurn

\* A task without actions is followed by every thread.
LEMMA EmptyFollowed ==
  ASSUME NEW saved, saved.actions = <<>>, NEW w
  PROVE  ThreadFollows(saved, w)
  BY DEF ThreadFollows, Follows, StillOpen, IdsUnique

LEMMA BeginInTurn ==
  ASSUME Base, Turn, InTurn, "overlap" \notin faults', NEW r \in Requests, NEW x, Begin(r, x)
  PROVE  InTurn'
<1>1. /\ request' = [request EXCEPT ![r] = x] /\ checkpoint' = checkpoint /\ request[r] = Idle
      /\ Others(r) = {} /\ "overlap" \notin faults
      /\ faults' = faults
  BY DEF Begin, Entered, Enter
<1>2. "replanned" \notin faults' /\ ThreadFollows(db, checkpoint)
  BY <1>1 DEF InTurn
<1>3. CASE x.pc = "read" /\ x.kind = "run" /\ x.read = NewTask /\ db' = NewTask
  <2>1. ThreadFollows(db', checkpoint')
    BY <1>3, EmptyFollowed, NewTaskIs
  <2>2. Holds(x, checkpoint', db')
    BY <1>3 DEF Holds
  <2> QED BY <1>1, <1>2, <2>1, <2>2, InTurnKept
<1>4. CASE db' = db
  <2>1. Holds(x, checkpoint', db')
    <3>1. CASE \/ x.pc = "read" /\ x.kind = "run" /\ x.read = db
               \/ x.pc = "save" /\ x.kind = "remove" /\ x.read = db
      BY <1>4, <3>1 DEF Holds
    <3>2. ASSUME NEW i \in DOMAIN db.actions, NEW result \in Result, db # None,
                 x = [pc |-> "read", kind |-> "report", read |-> db, result |-> result],
                 result.action = db.actions[i].id,
                 result.outcome \in AllowedOutcomes(db.actions[i].status)
          PROVE  Holds(x, checkpoint', db')
      <4>1. db.actions[i].status \in {"proposed", "ready"} /\ db.actions # <<>>
        BY <3>2 DEF AllowedOutcomes
      <4>2. StillOpen(result, db.actions)
        BY <1>2, <3>2, <4>1 DEF ThreadFollows, IdsUnique, StillOpen
      <4> QED BY <1>4, <3>2, <4>1, <4>2 DEF Holds
    <3> QED BY <1>4, <3>1, <3>2, NewTaskIs, NoneAssumption DEF Begin
  <2> QED BY <1>1, <1>2, <1>4, <2>1, InTurnKept
<1> QED BY <1>3, <1>4 DEF Begin

LEMMA InvokedInTurn ==
  ASSUME Base, Turn, InTurn, "overlap" \notin faults', NEW r \in Requests, Invoked(r)
  PROVE  InTurn'
<1>1. /\ request[r].pc = "read" /\ db' = db /\ faults' = faults /\ request[r] # Idle
      /\ "replanned" \notin faults /\ ThreadFollows(db, checkpoint)
      /\ Holds(request[r], checkpoint, db)
  BY DEF Invoked, Idle, InTurn
<1>2. CASE request[r].kind = "run"
  <2> DEFINE w == Fresh(request[r].task)
             x == Running(request[r], request[r].task, None, w)
  <2>1. checkpoint' = w /\ request' = [request EXCEPT ![r] = x]
    BY <1>2 DEF Invoked
  <2>2. w.node = "plan" /\ w.rounds = 0
    BY DEF Fresh
  <2>3. x.pc = "running" /\ x.kind = "run" /\ x.result = None /\ x.read = request[r].read
    BY <1>2 DEF Running
  <2> HIDE DEF w, x
  <2>4. ThreadFollows(db, w) /\ Holds(x, w, db)
    BY <1>1, <2>2, <2>3 DEF ThreadFollows, Holds, Savable
  <2> QED BY <1>1, <2>1, <2>4, InTurnKept
<1>3. CASE request[r].kind = "report"
  <2>1. PICK result \in {request[r].result, None} :
          request' = [request EXCEPT ![r] = Running(request[r], None, result, checkpoint)]
    BY <1>3 DEF Invoked
  <2> DEFINE x == Running(request[r], None, result, checkpoint)
  <2>2. checkpoint' = checkpoint /\ request' = [request EXCEPT ![r] = x]
    BY <1>3, <2>1 DEF Invoked
  <2>3. x.pc = "running" /\ x.kind = "report" /\ x.result = result /\ x.read = request[r].read
    BY <1>3 DEF Running
  <2> HIDE DEF x
  <2>4. Holds(x, checkpoint, db)
    BY <1>1, <1>3, <2>1, <2>3 DEF Holds
  <2> QED BY <1>1, <2>2, <2>4, InTurnKept
<1> QED BY <1>2, <1>3 DEF Invoked

\* A thread that takes up a result follows the saved task as before.
LEMMA ResumesFollows ==
  ASSUME NEW w, ThreadOK(w), NEW v, Resumes(w, v), NEW saved,
         Follows(w, saved), StillOpen(w.last, saved.actions)
  PROVE  Follows(v, saved)
<1>1. v.node \notin {"step", "fail"} /\ w.node = "resume" /\ DOMAIN v.task.actions = DOMAIN w.task.actions
  BY DEF Resumes
<1>2. ~(saved.actions # <<>> /\ saved.status \in Terminal)
  BY <1>1 DEF Follows
<1>3. ASSUME NEW i \in DOMAIN saved.actions, NEW j \in DOMAIN v.task.actions,
             saved.actions[i].id = v.task.actions[j].id
      PROVE  Advances(saved.actions[i].status, v.task.actions[j].status)
  <2> DEFINE a == w.task.actions[j]
             b == v.task.actions[j]
  <2>1. ChangedBy(a, w.last, b) /\ j \in DOMAIN w.task.actions
    BY <1>1 DEF Resumes
  <2>2. Advances(saved.actions[i].status, a.status)
    BY <1>3, <2>1 DEF Follows, ChangedBy
  <2>3. CASE b.status = a.status
    BY <2>2, <2>3
  <2>4. CASE b.status # a.status
    <3>1. saved.actions[i].id = w.last.action /\ b.status # "proposed"
      BY <1>3, <2>1, <2>4 DEF ChangedBy
    <3> QED BY <3>1 DEF StillOpen, Advances
  <2> QED BY <2>3, <2>4
<1> QED BY <1>1, <1>2, <1>3 DEF Follows

LEMMA MovedInTurn ==
  ASSUME Base, Turn, Decisions, InTurn, "overlap" \notin faults', NEW r \in Requests, NEW v,
         Moved(r, v), NodeStep(r, v)
  PROVE  InTurn'
<1> DEFINE w == request[r].w
           result == request[r].result
           x == Running(request[r], request[r].task, None, v)
<1>1. /\ request[r].pc = "running" /\ ThreadOK(v) /\ checkpoint' = v /\ db' = db
      /\ request' = [request EXCEPT ![r] = x] /\ request[r] # Idle
      /\ "overlap" \notin faults
  BY DEF Moved, NodeStep, Idle
<1>2. /\ ThreadOK(w) /\ w = checkpoint /\ checkpoint # None /\ db # None
      /\ ThreadFollows(db, w) /\ Holds(request[r], w, db) /\ Known(db.actions, w)
  <2>1. ThreadOK(w) /\ w = checkpoint /\ request[r].read \in Task(Nat)
    BY <1>1, RunningIs DEF Turn
  <2>2. ThreadFollows(db, w) /\ Holds(request[r], w, db) /\ "replanned" \notin faults
    BY <1>1, <2>1 DEF InTurn
  <2>3. checkpoint # None /\ db # None
    BY <2>1, <2>2, NoneAssumption DEF ThreadOK, Holds
  <2> QED BY <2>1, <2>2, <2>3 DEF Decisions, ThreadKnows
<1>3. "replanned" \notin faults'
  <2>1. Others(r) = {}
    BY <1>1 DEF Turn, Others
  <2> QED BY <1>1, <2>1 DEF InTurn, NodeStep
<1>4. /\ x.pc = "running" /\ x.kind = request[r].kind /\ x.result = None /\ x.read = db
  BY <1>2 DEF Running, Holds
<1>5. request[r].kind \in {"run", "report"} /\ (request[r].kind = "run" => RunOK(request[r].task, w))
  BY <1>1, RunningIs
<1> HIDE DEF w, result, x
<1>6. ASSUME ThreadFollows(db, v), request[r].kind = "run" /\ Savable(v) => db.actions = <<>>
      PROVE  InTurn'
  <2>1. Holds(x, v, db)
    BY <1>2, <1>4, <1>6 DEF Holds
  <2> QED BY <1>1, <1>3, <1>6, <2>1, InTurnKept
<1>7. CASE PlansAnew(w, v)
  <2>1. JobsUnique(v.task) =>
          /\ JobsUnique(w.task) /\ (w.rounds = 0 => db.actions = <<>>)
          /\ \A i \in DOMAIN db.actions : db.actions[i].id[1] < w.rounds
    BY <1>1, <1>2, <1>7, PlansKnown
  <2>2. /\ w.node \in {"plan", "replan"} /\ v.node \in {"step", "end"} /\ v.task.actions = <<>>
        /\ v.rounds = w.rounds + 1 /\ w.rounds \in Nat /\ (w.node = "plan" => w.rounds = 0)
    BY <1>2, <1>7 DEF PlansAnew, Emptied, ThreadOK, Workflow
  <2>3. Savable(v) => Follows(v, db)
    <3> SUFFICES ASSUME JobsUnique(v.task) PROVE Follows(v, db)
      BY DEF Savable
    <3>1. ~(db.actions # <<>> /\ db.status \in Terminal)
      <4>1. CASE w.rounds = 0
        BY <2>1, <4>1
      <4>2. CASE w.rounds # 0
        <5>1. Follows(w, db)
          BY <1>2, <2>1, <4>2 DEF ThreadFollows, Savable
        <5> QED BY <2>2, <5>1 DEF Follows
      <4> QED BY <4>1, <4>2
    <3>2. \A i \in DOMAIN db.actions : db.actions[i].id[1] < v.rounds - 1
      BY <2>1, <2>2
    <3> QED BY <2>2, <3>1, <3>2 DEF Follows
  <2>4. ThreadFollows(db, v)
    BY <1>2, <2>2, <2>3 DEF ThreadFollows
  <2>5. request[r].kind = "run" /\ Savable(v) => db.actions = <<>>
    BY <1>5, <2>1, <2>2 DEF Savable, RunOK
  <2> QED BY <1>6, <2>4, <2>5
<1>8. CASE ~PlansAnew(w, v)
  <2>1. SameRun(w, v)
    BY <1>8 DEF NodeStep, DoesStep, TakesUp, Resumes, TriesAgain, w
  <2>2. Savable(v) <=> Savable(w)
    BY <2>1 DEF SameRun, Savable, JobsUnique
  <2>3. request[r].kind = "run" /\ Savable(v) => db.actions = <<>>
    BY <1>1, <1>2, <2>2 DEF Holds
  <2>4. /\ Savable(v) => Follows(w, db)
        /\ w.node = "resume" => StillOpen(w.last, db.actions)
        /\ result # None => StillOpen(result, db.actions)
        /\ IdsUnique(db.actions)
    BY <1>1, <1>2, <2>2 DEF ThreadFollows, Holds, result
  <2>5. CASE DoesStep(w, v)
    <3>1. /\ w.node \in {"step", "fail"} /\ v.node # "resume" /\ v.rounds = w.rounds
          /\ \A j \in DOMAIN v.task.actions : v.task.actions[j].id[1] = w.rounds - 1
      BY <1>1, <2>1, <2>5 DEF DoesStep, SameRun, ThreadOK, OfPlan
    <3>2. \A i \in DOMAIN db.actions : db.actions[i].id[1] \in Nat
      <4>1. db.actions \in Seq(Action(Nat))
        BY <1>2 DEF Base, Typed, Task
      <4>2. \A i \in DOMAIN db.actions : db.actions[i] \in Action(Nat)
        BY <4>1
      <4> QED BY <4>2 DEF Action, Ids
    <3>3. w.rounds \in Nat
      BY <1>2 DEF ThreadOK, Workflow
    <3>4. Savable(v) => Follows(v, db)
      <4> SUFFICES ASSUME Follows(w, db) PROVE Follows(v, db)
        BY <2>4
      <4>1. /\ \A i \in DOMAIN db.actions : db.actions[i].id[1] < w.rounds - 1
            /\ ~(db.actions # <<>> /\ db.status \in Terminal)
        BY <3>1 DEF Follows
      <4>2. \A i \in DOMAIN db.actions, j \in DOMAIN v.task.actions : db.actions[i].id # v.task.actions[j].id
        <5> SUFFICES ASSUME NEW i \in DOMAIN db.actions, NEW j \in DOMAIN v.task.actions
                     PROVE  db.actions[i].id[1] # v.task.actions[j].id[1]
          OBVIOUS
        <5> QED BY <3>1, <3>2, <3>3, <4>1
      <4> QED BY <3>1, <4>1, <4>2 DEF Follows
    <3> QED BY <1>6, <2>3, <2>4, <3>1, <3>4 DEF ThreadFollows
  <2>6. CASE TakesUp(w, result, v)
    <3>1. Savable(v) => Follows(v, db)
      BY <2>1, <2>4, <2>6 DEF Follows, TakesUp
    <3>2. StillOpen(v.last, db.actions)
      BY <2>4, <2>6 DEF TakesUp
    <3> QED BY <1>6, <2>3, <2>4, <3>1, <3>2 DEF ThreadFollows
  <2>7. CASE Resumes(w, v)
    <3>1. Savable(v) => Follows(v, db)
      BY <1>2, <2>4, <2>7, ResumesFollows DEF Resumes
    <3>2. v.node # "resume"
      BY <2>7 DEF Resumes
    <3> QED BY <1>6, <2>3, <2>4, <3>1, <3>2 DEF ThreadFollows
  <2>8. CASE TriesAgain(w, v)
    <3>1. Savable(v) => Follows(v, db)
      BY <2>1, <2>4, <2>8 DEF Follows, TriesAgain
    <3>2. v.node # "resume"
      BY <2>8 DEF TriesAgain
    <3> QED BY <1>6, <2>3, <2>4, <3>1, <3>2 DEF ThreadFollows
  <2> QED BY <1>8, <2>5, <2>6, <2>7, <2>8 DEF NodeStep, w, result
<1> QED BY <1>7, <1>8

\* A save, in turn: nothing that was decided is taken back.
LEMMA SavedInTurn ==
  ASSUME Base, Turn, Decisions, InTurn, "overlap" \notin faults, NEW r \in Requests, Saved(r)
  PROVE  KeepsDecisions /\ InTurn'
<1> DEFINE task == request[r].task
<1>1. /\ request[r].pc = "save" /\ db = request[r].read /\ db' = task /\ JobsUnique(task)
      /\ request' = [request EXCEPT ![r] = Idle] /\ request[r] # Idle /\ checkpoint' = checkpoint
      /\ faults' = faults
  BY DEF Saved, Ended, JobsUnique
<1>2. /\ SaveOK(request[r]) /\ task \in Task(Nat) /\ request[r].kind \in {"run", "report", "remove"}
      /\ task.actions # <<>> => ThreadOK(checkpoint)
      /\ db # None /\ db \in Task(Nat)
  BY <1>1, SaveRequestIs, NoneAssumption
<1>3. /\ "replanned" \notin faults /\ ThreadFollows(db, checkpoint)
      /\ Holds(request[r], checkpoint, db) /\ Fits(request[r], checkpoint, db, approved)
  BY <1>1 DEF InTurn, Decisions
<1>4. ASSUME ThreadFollows(task, checkpoint) PROVE InTurn'
  BY <1>1, <1>3, <1>4, InTurnKept
<1>5. ASSUME NEW saved, saved = db PROVE \A i \in DOMAIN saved.actions, j \in DOMAIN saved.actions :
        saved.actions[i].id = saved.actions[j].id => Advances(saved.actions[i].status, saved.actions[j].status)
  BY <1>2, <1>3, <1>5 DEF ThreadFollows, IdsUnique, Advances
<1> SUFFICES KeepsDecisions /\ ThreadFollows(task, checkpoint)
  BY <1>4
<1>6. CASE request[r].kind = "remove"
  <2>1. \/ task = db
        \/ task.inputs # db.inputs /\ task.actions = <<>>
    BY <1>1, <1>2, <1>6 DEF SaveOK
  <2>2. CASE task = db
    BY <1>1, <1>3, <1>5, <2>2 DEF KeepsDecisions
  <2>3. CASE task.inputs # db.inputs /\ task.actions = <<>>
    BY <1>1, <2>3, EmptyFollowed DEF KeepsDecisions
  <2> QED BY <2>1, <2>2, <2>3
<1>7. CASE request[r].kind = "run"
  <2>1. /\ task.inputs # db.inputs \/ db = NewTask
        /\ task.status \in Terminal => task.actions = <<>>
    BY <1>1, <1>2, <1>7 DEF SaveOK
  <2>2. db.status \in Terminal => task.inputs # db.inputs
    BY <2>1, NewTaskIs
  <2>3. CASE task.actions = <<>>
    BY <1>1, <2>2, <2>3, EmptyFollowed DEF KeepsDecisions
  <2>4. CASE task.actions # <<>>
    <3>1. /\ ThreadOK(checkpoint) /\ checkpoint # None /\ task.jobs = checkpoint.task.jobs
          /\ task.actions = checkpoint.task.actions /\ checkpoint.rounds # 0
          /\ OfPlan(task.actions, checkpoint.rounds - 1, checkpoint.plan)
      BY <1>1, <1>2, <1>3, <1>7, <2>4, NoneAssumption DEF Turn, Fits, ThreadOK
    <3>2. db.actions = <<>>
      BY <1>1, <1>3, <1>7, <3>1 DEF Holds, Savable, JobsUnique
    <3>3. checkpoint.node \in {"plan", "wait", "end"}
      BY <1>1, <1>3, <1>7 DEF Holds
    <3>4. IdsUnique(task.actions)
      BY <3>1 DEF OfPlan, IdsUnique
    <3>5. Follows(checkpoint, task)
      BY <2>1, <2>4, <3>1, <3>3, <3>4 DEF Follows, IdsUnique, Advances
    <3>6. ThreadFollows(task, checkpoint)
      BY <3>3, <3>4, <3>5 DEF ThreadFollows
    <3> QED BY <1>1, <2>2, <3>2, <3>6 DEF KeepsDecisions
  <2> QED BY <2>3, <2>4
<1>8. CASE request[r].kind = "report"
  <2>1. task = checkpoint.task /\ checkpoint.node \in {"wait", "end"} /\ db.actions # <<>>
    BY <1>1, <1>3, <1>8 DEF Turn, Holds
  <2>2. ThreadOK(checkpoint) /\ checkpoint # None
    BY <1>2, <2>1, NoneAssumption DEF Base, ThreadOK
  <2>3. Follows(checkpoint, db)
    BY <1>1, <1>2, <1>3, <2>1, <2>2 DEF ThreadFollows, Savable, ThreadOK
  <2>4. KeepsDecisions
    BY <1>1, <2>1, <2>3 DEF KeepsDecisions, Follows
  <2>5. IdsUnique(task.actions)
    BY <2>1, <2>2 DEF ThreadOK, OfPlan, IdsUnique
  <2>6. Follows(checkpoint, task)
    BY <2>1, <2>2, <2>5 DEF Follows, IdsUnique, Advances, ThreadOK
  <2>7. ThreadFollows(task, checkpoint)
    BY <2>1, <2>5, <2>6 DEF ThreadFollows
  <2> QED BY <2>4, <2>7
<1> QED BY <1>2, <1>6, <1>7, <1>8

LEMMA EndsInTurn ==
  ASSUME Base, Turn, InTurn, "overlap" \notin faults', NEW r \in Requests
  PROVE  /\ \A task \in Task(Nat) : Left(r, task) => InTurn'
         /\ Raised(r) \/ GaveUp(r) => InTurn'
<1>1. ASSUME NEW task \in Task(Nat), Left(r, task) PROVE InTurn'
  <2> DEFINE x == Saving(request[r], task)
  <2>1. /\ request[r].pc = "running" /\ request' = [request EXCEPT ![r] = x] /\ db' = db
        /\ checkpoint' = checkpoint /\ faults' = faults /\ request[r] # Idle
        /\ Returned(request[r], task)
    BY <1>1 DEF Left, Idle
  <2>2. /\ "replanned" \notin faults /\ ThreadFollows(db, checkpoint)
        /\ Holds(request[r], checkpoint, db)
    BY <2>1 DEF InTurn
  <2>3. checkpoint.node \in {"plan", "wait", "end"}
    BY <2>1 DEF Turn, Returned
  <2>4. x.pc = "save" /\ x.kind = request[r].kind /\ x.read = request[r].read
    BY DEF Saving
  <2> HIDE DEF x
  <2>5. Holds(x, checkpoint, db)
    BY <2>1, <2>2, <2>3, <2>4 DEF Holds
  <2> QED BY <2>1, <2>2, <2>5, InTurnKept
<1>2. ASSUME Raised(r) \/ GaveUp(r) PROVE InTurn'
  <2>1. /\ request[r] # Idle /\ request' = [request EXCEPT ![r] = Idle] /\ checkpoint' = checkpoint
        /\ db' = db /\ "overlap" \notin faults
        /\ faults' \subseteq faults \cup {"conflict", "unique", "death"}
    BY <1>2 DEF Raised, GaveUp, Ended
  <2>2. "replanned" \notin faults' /\ ThreadFollows(db, checkpoint)
    BY <2>1 DEF InTurn
  <2> QED BY <2>1, <2>2, InTurnKept
<1> QED BY <1>1, <1>2

LEMMA InTurnStep ==
  ASSUME Base, Turn, Decisions, InTurn, [Next]_vars
  PROVE  InTurn' /\ [("overlap" \notin faults) => KeepsDecisions]_db
<1>1. CASE UNCHANGED vars
  BY <1>1 DEF vars, InTurn
<1>2. ASSUME NEW r \in Requests, StepOf(r)
      PROVE  InTurn' /\ [("overlap" \notin faults) => KeepsDecisions]_db
  <2>1. faults \subseteq faults'
    BY <1>2 DEF StepOf, Begin, Entered, Enter, Invoked, NodeStep, Left, Raised, Saved, GaveUp
  <2>2. CASE Saved(r)
    <3>1. "overlap" \notin faults => KeepsDecisions /\ InTurn'
      BY <2>2, SavedInTurn
    <3>2. "overlap" \in faults => InTurn'
      BY <2>1 DEF InTurn
    <3> QED BY <3>1, <3>2
  <2>3. CASE ~Saved(r)
    <3>1. "overlap" \notin faults' => InTurn'
      BY <1>2, <2>3, BeginInTurn, InvokedInTurn, MovedInTurn, EndsInTurn DEF StepOf
    <3>2. "overlap" \in faults' => InTurn'
      BY DEF InTurn
    <3>3. db' = db \/ db = None
      BY <1>2, <2>3 DEF StepOf, Begin, Invoked, Moved, Left, Raised, GaveUp
    <3> QED BY <3>1, <3>2, <3>3 DEF KeepsDecisions
  <2> QED BY <2>2, <2>3
<1> QED BY <1>1, <1>2, StepsAre

\* What was saved is not taken back, as long as requests do not overlap and whatever
\* dies: a decided action is not proposed again, an action that is over stays as it is,
\* and a task that is over stays over until its inputs change (DecisionsKeptInTurn).
THEOREM DecisionsAreKept == Spec => DecisionsKeptInTurn
<1> DEFINE I == Base /\ Turn /\ Decisions /\ InTurn
<1>1. Init => Turn /\ Decisions /\ InTurn
  BY TurnInit, DecisionsInit, InTurnInit
<1>2. I /\ [Next]_vars => Turn' /\ Decisions' /\ InTurn' /\ [("overlap" \notin faults) => KeepsDecisions]_db
  BY TurnStep, DecisionsStep, InTurnStep
<1> QED BY <1>1, <1>2, BaseHolds, PTL DEF Spec, DecisionsKeptInTurn

=============================================================================
