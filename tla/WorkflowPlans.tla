---------------------------- MODULE WorkflowPlans ----------------------------
(***************************************************************************)
(* The plans of the language model: which are accepted (PlanningAgent,     *)
(* WorkflowPlan), and how WorkflowPlanCompiler makes steps of them.        *)
(*                                                                         *)
(* A plan is [scope, confirm, actions], an action [type, options, confirm];*)
(* options are a record of what the model gave.  A text is "" when it is   *)
(* blank.  A step is [type, scope, options], its scope that of its query.  *)
(* A context is [document, folder, now].  Time is counted in half days;    *)
(* weeks begin at multiples of Week, months have eight of them.            *)
(***************************************************************************)
EXTENDS Retrieval, SequencesExt

ActionTypes ==
  {"find_documents", "present_documents", "find_signals", "present_signals",
   "expand_signal_evidence", "synthesize_signals", "extract_on_demand_signals", "find_folders",
   "find_related", "classify_documents", "analyze_documents", "synthesize_report",
   "recommend_documents", "recommend_folder", "recommend_related", "answer_question",
   "summarize_documents", "generate_draft", "explore_ideas", "plan_host_actions",
   "request_clarification"}

Opt(options, name, default) == IF name \in DOMAIN options THEN options[name] ELSE default

\* f, and g where f says nothing.
Overlaid(f, g) == [x \in DOMAIN f \cup DOMAIN g |-> IF x \in DOMAIN f THEN f[x] ELSE g[x]]

\* optional_text_value
Text(value) == IF value = "" THEN None ELSE value
TextOption(options, name) == Text(Opt(options, name, None))

-----------------------------------------------------------------------------
Generating == {"answer_question", "summarize_documents", "generate_draft", "explore_ideas"}
OfDocuments == Generating \cup {"present_documents", "recommend_documents", "classify_documents"}
OfSignals == {"present_signals", "expand_signal_evidence", "synthesize_signals"}
RequiresInstruction == Generating \cup {"analyze_documents", "synthesize_signals"}

\* Mutant: a step only needs the other in the plan.
PriorAnywhere(actions, i, type) == \E j \in DOMAIN actions : actions[j].type = type
Prior(actions, i, type) == \E j \in 1 .. i - 1 : actions[j].type = type

\* _REQUIRED_PRIOR_ACTIONS
HasPriors(actions, i) ==
  LET type == actions[i].type
  IN  /\ type \in OfDocuments => Prior(actions, i, "find_documents")
      /\ type \in OfSignals => Prior(actions, i, "find_signals")
      /\ type = "analyze_documents" => Prior(actions, i, "classify_documents")
      /\ type = "synthesize_report" => Prior(actions, i, "analyze_documents")
      /\ type = "recommend_folder" => Prior(actions, i, "find_folders")

\* workflow_action_from_mapping; types, blank names and unknown fields are left out.
ActionAccepted(a) ==
  /\ a.type \in ActionTypes
  /\ a.type \in RequiresInstruction => TextOption(a.options, "instruction") # None

PlanAccepted(plan) ==
  /\ plan.actions # <<>>
  /\ \A i \in DOMAIN plan.actions : ActionAccepted(plan.actions[i]) /\ HasPriors(plan.actions, i)

-----------------------------------------------------------------------------
\* _query_with_source_scope; None when the task has no such source.
SourceScope(source, context) ==
  CASE source = "current_document" ->
         IF context.document = None THEN None
         ELSE [Everything EXCEPT !.documents = {context.document}]
    [] source = "current_folder" ->
         IF context.folder = None THEN None
         ELSE [Everything EXCEPT !.folders = {context.folder}]
    [] OTHER -> Everything

Day == 2
Week == 7 * Day
Month == 8 * Week
Start(unit, time) == time - (time % unit)

\* _period_timestamp: the start of the period is the timestamp asked for.
PeriodTimestamp(period, now) ==
  CASE period = "today" -> Start(Day, now)
    [] period = "yesterday" -> Start(Day, now) - Day
    [] period = "this_week" -> Start(Week, now)
    [] period = "last_week" -> Start(Week, now) - Week
    [] period = "this_month" -> Start(Month, now)
    [] period = "last_month" -> Start(Month, now) - Month
    [] OTHER -> None

Periods == {"today", "yesterday", "this_week", "last_week", "this_month", "last_month"}

\* The checks of the _temporal functions; temporal is [field, timestamp, period, sort].
TemporalAccepted(options) ==
  LET temporal == Opt(options, "temporal", None)
  IN  temporal # None =>
        /\ temporal.field \in {"created_at", "updated_at"}
        /\ temporal.timestamp = None => temporal.period \in Periods \cup {None}
        /\ temporal.sort \in {"asc", "desc", None}

\* _query_with_temporal_scope
TemporalScope(scope, options, now) ==
  LET temporal == Opt(options, "temporal", None)
  IN  IF temporal = None THEN scope
      ELSE [scope EXCEPT
             !.at = IF temporal.timestamp # None THEN temporal.timestamp
                    ELSE PeriodTimestamp(temporal.period, now),
             !.sort = IF temporal.sort = None THEN @ ELSE temporal.sort]

-----------------------------------------------------------------------------
NoOptions == [name \in {} |-> None]
Presentation(type) == [type |-> type, options |-> NoOptions, confirm |-> FALSE]

DocumentOutputs ==
  Generating \cup {"present_documents", "recommend_documents", "synthesize_report",
                   "plan_host_actions"}

\* Mutant: only document searches are presented.
DocumentsPresented(actions) ==
  LET types == {actions[i].type : i \in DOMAIN actions}
  IN  IF "find_documents" \in types /\ types \cap DocumentOutputs = {}
      THEN Append(actions, Presentation("present_documents"))
      ELSE actions

\* _ensure_document_search_output
WithOutput(actions) ==
  LET types == {actions[i].type : i \in DOMAIN actions}
  IN  IF "find_signals" \in types /\ types \cap OfSignals = {}
      THEN Append(actions, Presentation("present_signals"))
      ELSE IF "find_documents" \in types /\ types \cap DocumentOutputs = {}
      THEN Append(actions, Presentation("present_documents"))
      ELSE actions

\* Mutant: the option of the model is stronger than its confirmation.
OptionFirst(plan, action) ==
  IF action.type = "plan_host_actions" /\ (action.confirm \/ plan.confirm)
  THEN Overlaid(action.options, [requires_confirmation |-> TRUE])
  ELSE action.options

StepOptions(plan, action) ==
  IF action.type = "plan_host_actions" /\ (action.confirm \/ plan.confirm)
  THEN Overlaid([requires_confirmation |-> TRUE], action.options)
  ELSE action.options

PlanCompiles(plan, context) ==
  SourceScope(plan.scope, context) # None =>
    \A i \in DOMAIN plan.actions : TemporalAccepted(plan.actions[i].options)

Compiled(plan, context) ==
  LET scope == SourceScope(plan.scope, context)
      actions == WithOutput(plan.actions)
  IN  IF scope = None
      THEN <<[type |-> "request_clarification", scope |-> Everything, options |-> NoOptions]>>
      ELSE [i \in DOMAIN actions |->
              LET options == StepOptions(plan, actions[i])
              IN  [type |-> actions[i].type, options |-> options,
                   scope |-> TemporalScope(scope, options, context.now)]]
=============================================================================
