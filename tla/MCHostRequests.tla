--------------------------- MODULE MCHostRequests ---------------------------
(***************************************************************************)
(* Requests of the host: a source to index or to delete, up to its command *)
(* (SourceRequests), indexing requests as concurrent transactions          *)
(* (IndexingTransactions), or a task (TaskSteps).  They share nothing here *)
(* but the run: what indexing does to the stores is an arbitrary change of *)
(* them between two steps of the task.                                     *)
(***************************************************************************)
EXTENDS SourceRequests, IndexingTransactions, TaskSteps

-----------------------------------------------------------------------------
(* Bodies with each field in turn blank, padded, or not a UUID or          *)
(* timestamp, and bodies of all texts of up to four characters.            *)

Written4 == UNION {[1 .. n -> {" ", "y"}] : n \in 0 .. 4}
Samples == {<<>>, <<" ">>, <<"x">>, <<" ", "y">>, <<"x", "-">>}

Body ==
  [kind |-> "document", tenant |-> <<"x">>, type |-> Null, id |-> <<"x">>, version |-> <<"x">>,
   title |-> <<"x">>, body |-> <<"y">>, created |-> <<"t">>, updated |-> <<"t", " ">>,
   snapshot |-> Null]
Snapshots ==
  [version : {Null, <<" ">>, <<" ", "x">>, <<"y">>},
   folders : {<<>>, <<<<"y">>, <<" ", "x">>, <<"y", " ">>>>, <<<<"x", "-">>>>}]
Documents4 ==
  {[Body EXCEPT !.title = t, !.body = b] : t \in {<<>>, <<" ">>, <<"x", " ">>}, b \in Written4}
  \cup {[Body EXCEPT ![f] = t] : f \in {"tenant", "type", "id", "version"}, t \in Samples}
  \cup {[Body EXCEPT ![f] = t] : f \in {"created", "updated"}, t \in {<<>>, <<"n">>, <<" ", "t">>}}
  \cup {[Body EXCEPT !.version = <<"x", " ">>, !.snapshot = s] : s \in Snapshots}

Folder ==
  [kind |-> "folder", tenant |-> <<"x">>, id |-> <<"x">>, version |-> <<"x">>, name |-> <<"x">>,
   created |-> <<"t">>, updated |-> <<"t">>, path |-> Null, parent |-> Null, description |-> <<>>]
Folders ==
  {[Folder EXCEPT ![f] = t] :
     f \in {"tenant", "id", "version", "name", "path", "parent", "description"}, t \in Samples}

Quote == [chunk |-> 0, quote |-> <<" ", "x">>, start |-> Null, end |-> Null]
Summary ==
  [type |-> "summary", text |-> <<"x", " ">>, label |-> Null, confidence |-> 100, evidence |-> <<Quote>>]
Entity == [Summary EXCEPT !.type = "entity", !.label = <<"-", "x", "-", " ", "y", "-">>]
Claim ==
  [Summary EXCEPT !.type = "claim",
                  !.evidence = <<Quote, [Quote EXCEPT !.chunk = 1, !.start = 0, !.end = 0]>>]
Answers ==
  {<<>>, <<Summary>>, <<Entity>>, <<Summary, Entity>>, <<Summary, Claim>>, <<Summary, Summary>>,
   <<Summary, Entity, [Entity EXCEPT !.label = <<"x", "-", "y">>]>>,
   <<Summary, [Entity EXCEPT !.label = <<" ">>, !.text = <<"-">>]>>,
   <<Summary, [Entity EXCEPT !.label = <<" ">>, !.text = <<"y">>]>>,
   <<[Summary EXCEPT !.evidence = <<>>]>>,
   <<[Summary EXCEPT !.evidence = <<[Quote EXCEPT !.start = 1, !.end = 0]>>]>>,
   <<[Summary EXCEPT !.confidence = 101]>>, <<[Summary EXCEPT !.text = <<" ">>]>>}

RowTenants == {<<"x">>}
FolderSequences == {<<>>, <<<<"x">>>>, <<<<"x">>, <<"y">>>>}

ChunkPolicies ==
  {[size |-> 2, overlap |-> 0], [size |-> 2, overlap |-> 1], [size |-> 3, overlap |-> 1]}

-----------------------------------------------------------------------------
(* The stores: documents 1 and 2 in folder 101, 3 in 102; then 1 and 2 have*)
(* moved to 102; then 2 is deleted, a graph that has not heard of anything,*)
(* and a table that puts 1 in 103.                                         *)

World ==
  [nodes |-> {1, 2, 3}, inFolder |-> {<<1, 101>>, <<2, 101>>, <<3, 102>>}, deleted |-> {},
   known |-> {101, 102, 103}, current |-> {1, 2, 3}, indexed |-> {1, 2, 3},
   relations |-> {<<1, 101>>, <<2, 101>>, <<3, 102>>},
   time |-> (1 :> 84) @@ (2 :> 80) @@ (3 :> 84) @@ (101 :> 70) @@ (102 :> 84) @@ (103 :> 60),
   near |-> (1 :> 60) @@ (2 :> 90) @@ (3 :> 45), linked |-> (2 :> 50) @@ (3 :> 80),
   chunkNear |-> (20 :> 95) @@ (21 :> 92) @@ (22 :> 91) @@ (10 :> 70) @@ (30 :> 40),
   worded |-> (10 :> 20) @@ (11 :> 0) @@ (22 :> 80) @@ (23 :> 70) @@ (30 :> 90) @@ (20 :> 0),
   titled |-> (1 :> 30),
   folderNear |-> (101 :> 75) @@ (102 :> 50) @@ (103 :> 20), folderNamed |-> (103 :> 40),
   signals |->
     {[id |-> <<"indexed", 1>>, type |-> "claim", owner |-> "document", source |-> 1,
       evidence |-> <<10, 11>>, score |-> 70],
      [id |-> <<"indexed", 2>>, type |-> "concept", owner |-> "folder", source |-> 101,
       evidence |-> <<>>, score |-> 50],
      [id |-> <<"indexed", 3>>, type |-> "claim", owner |-> "document", source |-> 3,
       evidence |-> <<30, 30>>, score |-> 70]}]

Moved ==
  [World EXCEPT !.inFolder = {<<1, 102>>, <<2, 102>>, <<3, 102>>}, !.relations = @ \cup {<<1, 103>>},
                !.signals = {g \in @ : g.id # <<"indexed", 1>>}]

Behind ==
  [World EXCEPT !.nodes = {3}, !.inFolder = {}, !.linked = (3 :> 80), !.known = {101, 102},
                !.current = {1, 3}, !.indexed = {3}, !.deleted = {102}, !.near = (1 :> 60) @@ (3 :> 45),
                !.chunkNear = (10 :> 70), !.relations = {<<1, 101>>, <<1, 103>>, <<3, 102>>},
                !.worded = (10 :> 20) @@ (11 :> 0) @@ (30 :> 90), !.signals = {}]

Worlds == {World, Moved, Behind}

TaskContexts ==
  {[document |-> 1, folder |-> 101, now |-> 85], [document |-> 2, folder |-> None, now |-> 85],
   [document |-> None, folder |-> None, now |-> 85]}

-----------------------------------------------------------------------------
(* Plans.                                                                  *)

A(type) == [type |-> type, options |-> NoOptions, confirm |-> FALSE]
With(type, options) == [type |-> type, options |-> options, confirm |-> FALSE]
Confirmed(type, options) == [type |-> type, options |-> options, confirm |-> TRUE]
Instructed(type) == With(type, [instruction |-> "text"])
Plan(scope, actions) == [scope |-> scope, confirm |-> FALSE, actions |-> actions]
Dated84(period, timestamp, sort) ==
  [temporal |-> [field |-> "updated_at", timestamp |-> timestamp, period |-> period, sort |-> sort]]

Find == A("find_documents")

\* Documents, in every scope and with every restriction in time.
Searches ==
  {Plan(scope, <<With("find_documents", options)>>) :
     scope \in {"global", "current_document", "current_folder"},
     options \in {NoOptions, [require_comprehensive_search |-> TRUE], Dated84("today", None, "asc"),
                  Dated84(None, 80, None), Dated84(None, None, "desc"), Dated84("someday", None, None)}}

Writings ==
  {Plan("global", <<Find, Instructed(type)>>) : type \in Generating}
  \cup {Plan("current_folder", <<Find, A("classify_documents"), Instructed("analyze_documents"),
                                 A("synthesize_report")>>),
        Plan("global", <<Find, A("classify_documents"), Find, Instructed("analyze_documents"),
                         A("synthesize_report")>>)}

SignalPlans ==
  {Plan(scope, <<With("find_signals", type)>> \o rest) :
     scope \in {"global", "current_document", "current_folder"},
     type \in {NoOptions, [signal_type |-> "concept"], [signal_type |-> ""]},
     rest \in {<<>>, <<A("present_signals")>>, <<A("expand_signal_evidence")>>,
               <<A("expand_signal_evidence"), Instructed("synthesize_signals")>>,
               <<With("extract_on_demand_signals", [min_signal_count |-> 3]), A("present_signals")>>,
               <<Find, A("extract_on_demand_signals"), Instructed("synthesize_signals")>>}}
  \cup {Plan("global", <<With("find_signals", Dated84("today", None, None))>>)}

Recommendations ==
  {Plan("global", <<A("find_folders"), With("recommend_folder", options)>> \o rest) :
     options \in {NoOptions, [title |-> "text"], [body |-> ""],
                  [title |-> "text", document_id |-> 2, folder_ids |-> {101, 103}]},
     rest \in {<<>>, <<Find, A("recommend_documents"), A("recommend_related"),
                       With("plan_host_actions",
                            [host_actions |-> {"move_document", "link_documents"}, document_id |-> 1])>>}}
  \cup {Plan("current_folder", <<Find, A("find_folders"), A("find_related")>>),
        Plan("global", <<A("recommend_related"), A("find_related"), A("request_clarification")>>)}

HostPlans ==
  {[scope |-> "global", confirm |-> confirm,
    actions |-> before \o <<[type |-> "plan_host_actions", options |-> options, confirm |-> own],
                            Confirmed("plan_host_actions",
                              [host_actions |-> {"create_folder", "update_document"}, document_id |-> 3,
                               metadata |-> {"tags"}, requires_confirmation |-> FALSE])>>] :
     confirm \in BOOLEAN, own \in BOOLEAN,
     before \in {<<>>, <<Find, Instructed("generate_draft")>>},
     options \in {[host_actions |-> {"create_folder", "create_document", "link_documents"}, target |-> 2],
                  [host_actions |-> HostActionTypes, requires_confirmation |-> FALSE, body |-> "text",
                   document_id |-> 1, target |-> 2],
                  [host_actions |-> {"create_document", "delete_document"}]}}

\* The plans the agent or the compiler refuses.
Refused ==
  {Plan("global", <<>>), Plan("global", <<A("delete_documents")>>), Plan("global", <<A("answer_question")>>),
   Plan("global", <<Instructed("answer_question"), Find>>), Plan("global", <<A("present_signals"), A("find_signals")>>),
   Plan("global", <<Find, With("answer_question", [instruction |-> ""])>>),
   Plan("global", <<Find, Instructed("analyze_documents")>>), Plan("global", <<Find, A("synthesize_report")>>),
   Plan("global", <<A("recommend_folder")>>)}

TaskPlans == Searches \cup Writings \cup SignalPlans \cup Recommendations \cup HostPlans \cup Refused

-----------------------------------------------------------------------------
(* Transactions: folders 2 and 3 in 1, documents 10 and 11 in 2.           *)

Tree == <<0, 1, 1>>
InFolders == [d \in {10, 11} |-> {2}]
Indexes(d, v, folders) == [kind |-> "index", document |-> d, version |-> v, folders |-> folders]
Moves(f, parent) == [kind |-> "folder", folder |-> f, parent |-> parent]
Transactions ==
  {Indexes(10, 2, Unset), Indexes(10, 3, {3}), Indexes(11, 1, {1}), Indexes(11, 2, {}),
   [kind |-> "empty", document |-> 10, version |-> 2],
   [kind |-> "delete", document |-> 10], [kind |-> "delete", document |-> 11],
   Moves(3, 2), Moves(2, 1)}

-----------------------------------------------------------------------------
Init ==
  \/ SourceInit /\ NoTask /\ NoTransaction
  \/ NoSource /\ TaskInit /\ NoTransaction
  \/ NoSource /\ NoTask /\ TransactionInit
Next ==
  \/ SourceNext /\ UNCHANGED taskVars /\ UNCHANGED transactionVars
  \/ TaskNext /\ UNCHANGED sourceVars /\ UNCHANGED transactionVars
  \/ TransactionNext /\ UNCHANGED sourceVars /\ UNCHANGED taskVars
Spec == Init /\ [][Next]_<<sourceVars, taskVars, transactionVars>>
=============================================================================
