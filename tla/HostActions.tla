---------------------------- MODULE HostActions ----------------------------
(***************************************************************************)
(* The rules for host actions: WorkflowDomainService, and what             *)
(* HostActionResultService does to a workflow state (a record w, see       *)
(* TaskWorkflow) with a result of the host.  Pure: no variables.           *)
(*                                                                         *)
(* An action is [id, status, attempts, waitsFor, policy]; an id is <<round, *)
(* type>>, as stable_internal_id builds it.  waitsFor is the action whose  *)
(* output its input still has to be given (the folder of a document, the   *)
(* source of a link), or None.                                             *)
(***************************************************************************)
EXTENDS SequencePlaces

CONSTANT None

Statuses == {"proposed", "ready", "succeeded", "failed", "skipped"}
Outcomes == {"approved", "rejected", "modified", "succeeded", "failed", "retry", "skipped"}
TaskStatuses == {"clarification_required", "awaiting_decision",
                 "ready_for_host_action", "completed", "failed", "rejected"}
Terminal == {"completed", "failed", "rejected"}

\* Mutant: what the host has decided counts as completed.
Decided(status) == status # "proposed"
Completed(status) == status \in {"succeeded", "skipped"}

\* Mutant: the outcome is not checked against the status.
AnyOutcomeWhileOpen(status) == IF status \in {"proposed", "ready"} THEN Outcomes ELSE {}
AllowedOutcomes(status) ==
  CASE status = "proposed" -> {"approved", "rejected", "modified", "skipped"}
    [] status = "ready"    -> Outcomes \ {"approved"}
    [] OTHER               -> {}

\* Mutant: one attempt too many.
CanRetryOnceMore(a, outcome) ==
  a.attempts <= a.policy.maxAttempts /\ (outcome = "retry" \/ a.policy.retryable)
CanRetry(a, outcome) ==
  /\ a.attempts < a.policy.maxAttempts
  /\ outcome = "retry" \/ a.policy.retryable

StatusFor(a, outcome) ==
  CASE outcome = "succeeded"                -> "succeeded"
    [] outcome = "approved"                 -> "ready"
    [] outcome = "skipped"                  -> IF a.policy.allowSkip THEN "skipped" ELSE "failed"
    [] outcome \in {"rejected", "modified"} -> "skipped"
    [] outcome \in {"failed", "retry"}      -> IF CanRetry(a, outcome) THEN "ready" ELSE "failed"

WithStatus(actions, S) == {i \in DOMAIN actions : actions[i].status \in S}
WithId(actions, id)    == {i \in DOMAIN actions : actions[i].id = id}
Unconfirmed(actions)   == {i \in WithStatus(actions, {"proposed"}) : ~actions[i].policy.confirm}

-----------------------------------------------------------------------------
(***************************************************************************)
(* Which action the host is asked for.                                     *)
(***************************************************************************)

\* The first action that is neither over nor failed is the pending one; it is
\* ready at once if it needs no confirmation.
ScheduleNext(w) ==
  LET open == WithStatus(w.task.actions, {"proposed", "ready"})
      i    == Least(open)
  IN  IF open = {} THEN [w EXCEPT !.pending = {}]
      ELSE [w EXCEPT !.pending = {w.task.actions[i].id},
                     !.task.actions[i].status =
                       IF i \in Unconfirmed(w.task.actions) THEN "ready" ELSE @]

MergeActions(w, actions) ==
  LET known == {w.task.actions[i].id : i \in DOMAIN w.task.actions}
      new   == {i \in DOMAIN actions : actions[i].id \notin known}
  IN  ScheduleNext([w EXCEPT !.task.actions = @ \o Only(actions, new)])

\* Mutant: mark_result forgets that a proposed action may need a confirmation.
StopsAtAny(actions) == WithStatus(actions, {"failed", "ready", "proposed"})
\* Where mark_result stops looking for the first action that waits for a decision.
Stops(actions) == WithStatus(actions, {"failed", "ready"}) \cup Unconfirmed(actions)

MarkResult(task) ==
  LET proposed == WithStatus(task.actions, {"proposed"})
      stops    == Stops(task.actions)
      i        == Least(stops)
      Closed(status) == [task EXCEPT !.status = status, !.current = None]
  IN  IF task.status \in Terminal THEN task
      ELSE IF task.result = "clarification" THEN Closed("clarification_required")
      ELSE IF stops # {} /\ task.actions[i].status = "failed" THEN Closed("failed")
      ELSE IF stops # {} THEN
        [task EXCEPT !.actions[i].status = "ready", !.current = task.actions[i].id,
                     !.status = "ready_for_host_action"]
      ELSE IF proposed # {} THEN
        [task EXCEPT !.status = "awaiting_decision", !.current = task.actions[Least(proposed)].id]
      ELSE Closed("completed")

MarkFailed(task) ==
  [task EXCEPT !.status = "failed", !.current = None,
    !.actions = [i \in DOMAIN task.actions |->
      [task.actions[i] EXCEPT !.status = IF @ \in {"proposed", "ready"} THEN "failed" ELSE @]]]

-----------------------------------------------------------------------------
(***************************************************************************)
(* HostActionResultService.apply: a result changes its action, then which  *)
(* action is pending, then the status of the task.                         *)
(***************************************************************************)
Attempted(a, outcome) ==
  LET counted == [a EXCEPT !.attempts =
                    IF outcome \in {"succeeded", "failed", "retry"} THEN @ + 1 ELSE @]
  IN  [counted EXCEPT !.status = StatusFor(counted, outcome)]

Schedules(a, outcome) ==
  \/ outcome = "approved"
  \/ outcome \in {"failed", "retry"} /\ CanRetry(a, outcome)

\* A succeeded action gives its output to the later ones that wait for it; if some
\* wait and there is no output, it failed.
GiveOutput(actions, i, result) ==
  LET waiting == {j \in DOMAIN actions : j > i /\ actions[j].waitsFor = actions[i].id}
  IN  IF result.outcome # "succeeded" \/ waiting = {} THEN actions
      ELSE IF result.output THEN
        [j \in DOMAIN actions |->
          [actions[j] EXCEPT !.waitsFor = IF j \in waiting THEN None ELSE @]]
      ELSE [actions EXCEPT ![i].status = "failed"]

TakeResult(w, result) ==
  LET cleared == [w EXCEPT !.replan = FALSE, !.retry = None, !.error = FALSE]
      own     == WithId(w.task.actions, result.action)
      i       == Least(own)
      a       == Attempted(w.task.actions[i], result.outcome)
  IN  IF own = {} THEN cleared
      ELSE [cleared EXCEPT
             !.task.actions = GiveOutput([w.task.actions EXCEPT ![i] = a], i, result),
             !.task.current = a.id,
             !.replan = (result.outcome = "modified"),
             !.retry  = IF Schedules(a, result.outcome) THEN a.id ELSE None]

ApplyTaskStatus(w, outcome) ==
  LET actions  == w.task.actions
      proposed == WithStatus(actions, {"proposed"})
      ready    == {i \in WithStatus(actions, {"ready"}) : actions[i].id \in w.pending}
      asked    == {i \in proposed : actions[i].id \in w.pending}
      first    == Least(IF asked # {} THEN asked ELSE proposed)
      Ends(status) == [w EXCEPT !.pending = {}, !.task.current = None, !.task.status = status]
  IN  IF w.replan THEN Ends("clarification_required")
      ELSE IF outcome = "rejected" THEN Ends("rejected")
      ELSE IF WithStatus(actions, {"failed"}) # {} THEN Ends("failed")
      ELSE IF actions # <<>> /\ \A i \in DOMAIN actions : Completed(actions[i].status) THEN
        [w EXCEPT !.task.current = None, !.task.status = "completed"]
      ELSE IF w.retry # None \/ ready # {} THEN
        [w EXCEPT !.task.status = "ready_for_host_action",
                  !.task.current = IF ready # {} THEN actions[Least(ready)].id ELSE @]
      ELSE IF proposed # {} THEN
        [w EXCEPT !.task.status = "awaiting_decision", !.task.current = actions[first].id]
      ELSE [w EXCEPT !.task.status = IF outcome = "failed" THEN "failed" ELSE @]

ApplyActionResult(w, result) ==
  LET scheduled == ScheduleNext(TakeResult(w, result))
      pending   == scheduled.pending
      current   == IF pending = {} THEN scheduled.task.current
                   ELSE CHOOSE id \in pending : TRUE
  IN  ApplyTaskStatus([scheduled EXCEPT !.task.current = current], result.outcome)

RetryHostAction(w) ==
  LET own == WithId(w.task.actions, w.retry)
  IN  IF own = {} THEN [w EXCEPT !.retry = None]
      ELSE [w EXCEPT !.retry = None, !.pending = @ \cup {w.retry},
                     !.task.actions[Least(own)].status = "ready",
                     !.task.current = w.retry, !.task.status = "ready_for_host_action"]
=============================================================================
