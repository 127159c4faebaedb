---------------------------- MODULE WorkflowSteps ----------------------------
(***************************************************************************)
(* What a step of a task does to the work w of the task: [artifacts,       *)
(* result, task, pending], artifacts the record of those written so far,   *)
(* result {} or {[type, value]}, task and pending as in HostActions.  One  *)
(* operator per step function of workflows/steps; s is the state of the    *)
(* stores, text what the language model answers, "" when that is blank.    *)
(* Pure: no variables.                                                     *)
(*                                                                         *)
(* A retrieved chunk is [of, score], a retrieved signal [signal, score], a *)
(* citation of a signal's evidence [signal, of, score].  Wording is left   *)
(* out; the task's metadata has no document (nothing in the core sets it). *)
(***************************************************************************)
EXTENDS WorkflowPlans

Host == INSTANCE HostActions

Read(w, name) == Opt(w.artifacts, name, None)
ReadList(w, name) == Opt(w.artifacts, name, <<>>)
Written(w, name) == name \in DOMAIN w.artifacts

\* output is {} or what the task has as its result from then on.
Outcome(artifacts, output) == [artifacts |-> artifacts, output |-> output]
Result(name, result) == Outcome([x \in {name} |-> result], {result})
Generated(text, citations) == [text |-> text, citations |-> citations]

-----------------------------------------------------------------------------
(* steps/retrieval.py and steps/retrieval_artifacts.py                     *)

\* retrieved_documents_from_results
Documents(results) ==
  LET firsts == FirstOf(results, [n \in DOMAIN results |-> Chunked(results[n])])
  IN  [n \in DOMAIN firsts |-> Chunked(firsts[n])]
OfDocument(results, d) == SelectSeq(results, LAMBDA r : Chunked(r) = d)

DocumentsOrSearch(s, w, step) ==
  IF Written(w, "document_retrieval") THEN Read(w, "document_retrieval")
  ELSE DocumentSearch(s, step.scope, FALSE)

FoldersOrSearch(s, w, step) ==
  IF Written(w, "folder_retrieval") THEN Read(w, "folder_retrieval")
  ELSE FolderSearch(s, step.scope, {})

\* Nothing found before is searched again, without the type asked for.
SignalsOrSearch(s, w, step) ==
  IF ReadList(w, "signal_retrieval") # <<>> THEN Read(w, "signal_retrieval")
  ELSE SignalSearch(s, step.scope, None)

CandidateDocuments(w) ==
  IF Written(w, "candidate_documents") THEN Read(w, "candidate_documents")
  ELSE Documents(ReadList(w, "document_retrieval"))
RelevantDocuments(w) ==
  IF Written(w, "relevant_documents") THEN Read(w, "relevant_documents") ELSE CandidateDocuments(w)

Found(results) == Outcome([document_retrieval |-> results, candidate_documents |-> Documents(results)], {})
FindDocuments(s, step) ==
  Found(DocumentSearch(s, step.scope, Opt(step.options, "require_comprehensive_search", FALSE)))

\* document_search_result: each document with its chunks.
Presented(results, documents) ==
  Descending([n \in DOMAIN documents |->
    LET own == OfDocument(results, documents[n])
    IN  [document |-> documents[n], evidence |-> own,
         score |-> Max({own[k].score : k \in DOMAIN own})]])

PresentDocuments(s, w, step) ==
  LET results == DocumentsOrSearch(s, w, step)
  IN  Result("document_search_result", Presented(results, Documents(results)))

FindSignals(s, step) ==
  Outcome([signal_retrieval |-> SignalSearch(s, step.scope, TextOption(step.options, "signal_type"))], {})

\* signal_evidence_from_results: a signal without evidence cites itself.
Evidence(signals) ==
  LET cited(r) == IF r.signal.evidence = <<>> THEN <<None>> ELSE r.signal.evidence
      all == FlattenSeq([n \in DOMAIN signals |->
               [k \in DOMAIN cited(signals[n]) |->
                  [signal |-> signals[n].signal.id, of |-> cited(signals[n])[k], score |-> signals[n].score]]])
  IN  FirstOf(all, [k \in DOMAIN all |-> <<all[k].signal, all[k].of>>])

EvidenceOrExpand(w, signals) ==
  IF Written(w, "signal_evidence") THEN Read(w, "signal_evidence") ELSE Evidence(signals)

NoSignals == Generated("no signals", <<>>)

SignalText(w, signals, text) ==
  IF signals = <<>> THEN NoSignals ELSE Generated(text, EvidenceOrExpand(w, signals))

\* Presented signals are listed, not written about.
PresentSignals(s, w, step) ==
  Result("signal_search_result", SignalText(w, SignalsOrSearch(s, w, step), "list"))
SynthesizeSignals(s, w, step, text) ==
  Result("summary", SignalText(w, SignalsOrSearch(s, w, step), text))

ExpandSignalEvidence(s, w, step) ==
  Outcome([signal_evidence |-> Evidence(SignalsOrSearch(s, w, step))], {})

\* merge_signal_results: of the same signal the best result, in the place of the first.
MergedSignals(signals) ==
  LET ids == [k \in DOMAIN signals |-> signals[k].signal.id]
      firsts == FirstOf(signals, ids)
      places(n) == {k \in DOMAIN signals : ids[k] = firsts[n].signal.id}
      top(n) == Max({signals[k].score : k \in places(n)})
      best(n) == Min({k \in places(n) : signals[k].score = top(n)})
  IN  Descending([n \in DOMAIN firsts |-> signals[best(n)]])

\* on_demand_signals_from_documents
OnDemandSignals(results, type) ==
  [n \in DOMAIN results |->
     [score |-> results[n].score,
      signal |-> [id |-> <<type, results[n].of>>, type |-> type, owner |-> "document",
                  source |-> Chunked(results[n]), evidence |-> <<results[n].of>>,
                  score |-> results[n].score]]]

Enough(w, step) == Len(ReadList(w, "signal_retrieval")) >= Opt(step.options, "min_signal_count", 1)

\* Mutant: the signals made are cited but not kept.
CitesOnly(s, w, step) ==
  LET type == TextOption(step.options, "signal_type")
      existing == ReadList(w, "signal_retrieval")
      made == OnDemandSignals(DocumentsOrSearch(s, w, step), IF type = None THEN "claim" ELSE type)
  IN  Outcome([signal_retrieval |-> existing,
               signal_evidence |-> Evidence(IF Enough(w, step) THEN existing ELSE existing \o made)], {})

MoreSignals(s, w, step, type) ==
  MergedSignals(ReadList(w, "signal_retrieval") \o SignalSearch(s, step.scope, type)
                \o OnDemandSignals(DocumentsOrSearch(s, w, step), IF type = None THEN "claim" ELSE type))

Extracted(signals) == Outcome([signal_retrieval |-> signals, signal_evidence |-> Evidence(signals)], {})
ExtractOnDemandSignals(s, w, step) ==
  Extracted(IF Enough(w, step) THEN ReadList(w, "signal_retrieval")
            ELSE MoreSignals(s, w, step, TextOption(step.options, "signal_type")))

FindFolders(s, step) == Outcome([folder_retrieval |-> FolderSearch(s, step.scope, {})], {})

DocumentItems(results) ==
  [n \in DOMAIN results |-> [kind |-> "document", of |-> Chunked(results[n]), score |-> results[n].score]]
FolderItems(results) ==
  [n \in DOMAIN results |-> [kind |-> "folder", of |-> results[n].of, score |-> results[n].score]]

FindRelated(s, w, step) ==
  Outcome([related_retrieval |-> Descending(DocumentItems(DocumentsOrSearch(s, w, step))
                                            \o FolderItems(FoldersOrSearch(s, w, step)))], {})

ClassifyDocuments(w) == Outcome([relevant_documents |-> CandidateDocuments(w)], {})

\* A relevant document that is not in the last retrieval is left out.
AnalyzeDocuments(w, text) ==
  LET results == ReadList(w, "document_retrieval")
      found == SelectSeq(RelevantDocuments(w), LAMBDA d : OfDocument(results, d) # <<>>)
  IN  Outcome([document_summaries |-> [n \in DOMAIN found |-> Generated(text, OfDocument(results, found[n]))]],
              {})

-----------------------------------------------------------------------------
(* steps/generation.py                                                     *)

RequestClarification == Outcome([clarification |-> "question"], {"clarification"})

SynthesizeReport(w) ==
  LET summaries == ReadList(w, "document_summaries")
  IN  Result("synthesized_report",
             Generated(IF \E n \in DOMAIN summaries : summaries[n].text # "" THEN "text" ELSE "",
                       FlattenSeq([n \in DOMAIN summaries |-> summaries[n].citations])))

\* answer_question, summarize_documents, generate_draft, explore_ideas
Generate(w, step, text) ==
  LET name == CASE step.type = "answer_question" -> "answer"
                [] step.type = "summarize_documents" -> "summary"
                [] step.type = "generate_draft" -> "draft"
                [] step.type = "explore_ideas" -> "ideas"
  IN  Result(name, Generated(text, ReadList(w, "document_retrieval")))

-----------------------------------------------------------------------------
(* steps/recommendation.py; a recommendation is its primary item, then the *)
(* alternatives.                                                           *)

RecommendDocuments(s, w, step) ==
  Result("document_recommendation", DocumentItems(DocumentsOrSearch(s, w, step)))

RecommendRelated(s, w, step) ==
  LET documents == IF Written(w, "document_recommendation") THEN Read(w, "document_recommendation")
                   ELSE DocumentItems(DocumentsOrSearch(s, w, step))
      folders == IF Written(w, "folder_recommendation") THEN Read(w, "folder_recommendation")
                 ELSE FolderItems(FoldersOrSearch(s, w, step))
  IN  Result("related_recommendation", Descending(documents \o folders))

ExplicitText(step) == \E name \in {"title", "body"} : TextOption(step.options, name) # None

\* The document to find a folder for; None is a made-up id.
SourceDocument(step, context) ==
  IF ExplicitText(step) \/ context.document = None
  THEN Opt(step.options, "document_id", context.document)
  ELSE context.document

SourceFound(s, step, context) ==
  ExplicitText(step) \/ context.document \in {None} \cup (s.current \cap s.indexed)

\* Only an empty body option leaves nothing to search for.
SourceBlank(step, context) ==
  ~ExplicitText(step) /\ context.document = None /\ Opt(step.options, "body", None) = ""

\* Mutant: the folders of the document are not left out.
ContextFolderOnly(s, step, context) == {context.folder} \ {None}

\* _with_current_folder_exclusions
ExcludedFolders(s, step, context) ==
  LET d == SourceDocument(step, context)
      ofGraph == IF d = None THEN {} ELSE FoldersOf(s, d)
      ofTables == {r[2] : r \in {p \in s.relations : p[1] = context.document}}
      given == IF ExplicitText(step) \/ context.document = None
               THEN Opt(step.options, "folder_ids", {}) ELSE {}
      base == CASE ofGraph # {} -> ofGraph
                [] ofGraph = {} /\ ofTables # {} -> ofTables
                [] OTHER -> given
  IN  base \cup ({context.folder} \ {None})

FolderMatches(s, step, context) ==
  IF SourceBlank(step, context) THEN <<>>
  ELSE FolderSearch(s, Everything, ExcludedFolders(s, step, context))

RecommendFolder(s, step, context) ==
  Result("folder_recommendation", FolderItems(FolderMatches(s, step, context)))

-----------------------------------------------------------------------------
(* steps/host_action.py and host_actions/builder.py                        *)

HostActionTypes == {"create_folder", "create_document", "move_document", "update_document", "link_documents"}

Requested(options) == Opt(options, "host_actions", {})

Policy(options) ==
  [maxAttempts |-> Opt(options, "max_attempts", 2), allowSkip |-> Opt(options, "allow_skip", FALSE),
   retryable |-> Opt(options, "retryable", TRUE), confirm |-> Opt(options, "requires_confirmation", TRUE)]

\* _document_body
HasBody(w, options) ==
  \/ TextOption(options, "body") # None
  \/ \E name \in {"draft", "synthesized_report", "summary"} : Written(w, name) /\ Read(w, name).text # ""

ActionId(w, type) == <<w.round, type>>

Action(w, options, type, waitsFor, input) ==
  [id |-> ActionId(w, type), status |-> IF Policy(options).confirm THEN "proposed" ELSE "ready",
   attempts |-> 0, waitsFor |-> waitsFor, policy |-> Policy(options), input |-> input]

\* Mutant: the id of a document is promised before it is known to have a body.
PromisedId(w, options, type) ==
  IF type \in Requested(options) THEN ActionId(w, type) ELSE None

\* create_folder_action_id, create_document_action_id
RequestedId(w, options, type) ==
  IF type \in Requested(options) /\ (type = "create_document" => HasBody(w, options))
  THEN ActionId(w, type) ELSE None

RecommendedFolder(w) ==
  IF Written(w, "folder_recommendation") THEN Read(w, "folder_recommendation")[1].of ELSE None

RecommendedTarget(w) ==
  LET items == ReadList(w, "related_recommendation")
  IN  IF items # <<>> /\ items[1].kind = "document" THEN items[1].of ELSE None

LinkTarget(w, options) ==
  IF Opt(options, "target", None) # None THEN options.target ELSE RecommendedTarget(w)

\* An action without its input is left out; metadata is the set of its fields.
HasInput(w, options, type) ==
  LET d == Opt(options, "document_id", None)
  IN  CASE type = "create_folder" -> TRUE
        [] type = "create_document" -> HasBody(w, options)
        [] type = "move_document" -> Written(w, "folder_recommendation") /\ d # None
        [] type = "update_document" ->
             /\ d # None
             /\ \/ HasBody(w, options) \/ TextOption(options, "title") # None
                \/ Opt(options, "metadata", {}) # {}
        [] type = "link_documents" ->
             /\ LinkTarget(w, options) # None
             /\ d # None \/ RequestedId(w, options, "create_document") # None

HostActionsFor(w, options) ==
  LET d == Opt(options, "document_id", None)
      folder == RequestedId(w, options, "create_folder")
      created == RequestedId(w, options, "create_document")
      If(type, waitsFor, input) ==
        IF type \in Requested(options) /\ HasInput(w, options, type)
        THEN <<Action(w, options, type, waitsFor, input)>> ELSE <<>>
  IN  If("create_folder", None, <<>>)
      \o If("create_document", folder, IF folder = None THEN <<RecommendedFolder(w)>> ELSE <<>>)
      \o If("move_document", None, <<d, RecommendedFolder(w)>>)
      \o If("update_document", None, <<d>>)
      \o If("link_documents", IF d = None THEN created ELSE None, <<d, LinkTarget(w, options)>>)

-----------------------------------------------------------------------------
(* WorkflowStepExecutor.execute                                            *)

StepFails(s, w, step, context) ==
  \/ step.type = "find_signals" /\ SignalSearchRefused(step.scope)
  \/ step.type \in OfSignals /\ ReadList(w, "signal_retrieval") = <<>> /\ SignalSearchRefused(step.scope)
  \/ step.type = "extract_on_demand_signals" /\ ~Enough(w, step) /\ SignalSearchRefused(step.scope)
  \/ /\ step.type = "recommend_folder"
     /\ SourceFound(s, step, context) => FolderMatches(s, step, context) = <<>>
  \/ step.type = "plan_host_actions" /\ ~(Requested(step.options) \subseteq HostActionTypes)

StepOutcome(s, w, step, context, text) ==
  CASE step.type = "find_documents" -> FindDocuments(s, step)
    [] step.type = "present_documents" -> PresentDocuments(s, w, step)
    [] step.type = "find_signals" -> FindSignals(s, step)
    [] step.type = "present_signals" -> PresentSignals(s, w, step)
    [] step.type = "expand_signal_evidence" -> ExpandSignalEvidence(s, w, step)
    [] step.type = "synthesize_signals" -> SynthesizeSignals(s, w, step, text)
    [] step.type = "extract_on_demand_signals" -> ExtractOnDemandSignals(s, w, step)
    [] step.type = "find_folders" -> FindFolders(s, step)
    [] step.type = "find_related" -> FindRelated(s, w, step)
    [] step.type = "classify_documents" -> ClassifyDocuments(w)
    [] step.type = "analyze_documents" -> AnalyzeDocuments(w, text)
    [] step.type = "synthesize_report" -> SynthesizeReport(w)
    [] step.type = "recommend_documents" -> RecommendDocuments(s, w, step)
    [] step.type = "recommend_folder" -> RecommendFolder(s, step, context)
    [] step.type = "recommend_related" -> RecommendRelated(s, w, step)
    [] step.type \in Generating -> Generate(w, step, text)
    [] step.type = "plan_host_actions" -> Outcome([action_plan |-> "plan"], {"plan"})
    [] step.type = "request_clarification" -> RequestClarification

\* A host action step adds its actions to the task; the output of a step
\* replaces the result of the task.
RecordOutcome(w, type, outcome) ==
  [w EXCEPT !.artifacts = Overlaid(outcome.artifacts, @),
            !.result = IF outcome.output = {} THEN @
                       ELSE {[type |-> type, value |-> value] : value \in outcome.output}]

AfterStep(s, w, step, context, text) ==
  RecordOutcome(IF step.type = "plan_host_actions"
                THEN Host!MergeActions(w, HostActionsFor(w, step.options)) ELSE w,
                step.type, StepOutcome(s, w, step, context, text))
=============================================================================
