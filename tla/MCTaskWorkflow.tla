--------------------------- MODULE MCTaskWorkflow ---------------------------
(***************************************************************************)
(* Instances of TaskWorkflow for TLC: plans with two actions the host must *)
(* approve, the second waiting for the output of the first; with one it    *)
(* may skip and need not approve, or has to approve; and without any.      *)
(* Requests are alike, where nothing is said of what they do eventually.   *)
(***************************************************************************)
EXTENDS TaskWorkflow, TLC

Asking == [maxAttempts |-> 2, allowSkip |-> FALSE, retryable |-> TRUE, confirm |-> TRUE]
Plain  == [maxAttempts |-> 1, allowSkip |-> TRUE, retryable |-> FALSE, confirm |-> FALSE]

TwoActions == [steps |-> <<"work", "plan_host_actions">>,
               types |-> <<"create_folder", "create_document">>, policy |-> Asking]
OneAction  == [steps |-> <<"plan_host_actions", "answer">>,
               types |-> <<"create_document">>, policy |-> Plain]
AskFirst   == [OneAction EXCEPT !.steps = <<"plan_host_actions">>, !.policy = Asking]
Answer     == [steps |-> <<"answer">>, types |-> <<>>, policy |-> Asking]
Clarify    == [steps |-> <<"clarify">>, types |-> <<>>, policy |-> Asking]

AllPlans == {TwoActions, OneAction, Answer, Clarify}
AskFirstOnly == {AskFirst}

RequestsAlike == Permutations(Requests)

\* No step reads ended or faults, and the two properties of TaskRequests read only
\* whether a plan was made beside a report.
State == <<db, checkpoint, request, reports, deaths, approved, "replanned" \in faults>>
=============================================================================
