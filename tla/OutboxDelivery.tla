--------------------------- MODULE OutboxDelivery ---------------------------
(***************************************************************************)
(* One partition of the outbox topic, the outbox workers of one projection *)
(* target (a consumer group), the dead-letter topic and the replay script. *)
(* A worker polls a message, hands it to the dispatcher with retries,      *)
(* commits its offset, and publishes what it cannot project to the         *)
(* dead-letter topic.  Offsets count from 1; an offset n is committed when *)
(* committed >= n.                                                         *)
(*                                                                         *)
(* External: Debezium and Kafka.  A worker that polls too late, or whose   *)
(* session ends, loses the partition to another one while it still works   *)
(* on a message; the commit of a worker that lost it is refused.           *)
(***************************************************************************)
EXTENDS Naturals, Sequences

CONSTANTS
  Workers,
  Events,             \* the contents of messages
  Undecodable,        \* those that message_codec refuses
  MaxRetries,         \* RetryPolicy.max_retries
  LosesDeadLetters,   \* a produced dead letter may fail after flush() returned
  None                \* no worker owns the partition

\* Bounds.
CONSTANTS
  MaxMessages,        \* messages in the partition
  MaxFaults           \* failures, crashes, lost partitions and lost copies

ASSUME DeliveryAssumption ==
  /\ Undecodable \subseteq Events
  /\ MaxRetries \in Nat /\ MaxMessages \in Nat /\ MaxFaults \in Nat
  /\ LosesDeadLetters \in BOOLEAN
  /\ None \notin Workers

VARIABLES
  topic,              \* the messages of the partition
  committed, owner,   \* external: the group's offset and the member that owns it
  worker,             \* per worker: where it is in run_once, and on which message
  projected,          \* history: offsets the dispatcher has consumed without error
  deadLetters,        \* the dead-letter topic
  replay,             \* the replay script: its offset, if it has produced the next letter,
                      \* and (history) the letters that did not reach the topic
  faults

vars == <<topic, committed, owner, worker, projected, deadLetters, replay, faults>>

Fault == faults < MaxFaults /\ faults' = faults + 1

Goes(w, pc) == worker' = [worker EXCEPT ![w].pc = pc]

-----------------------------------------------------------------------------
(***************************************************************************)
(* Debezium and the consumer group (external).                             *)
(***************************************************************************)
Publish(e) ==
  /\ Len(topic) < MaxMessages
  /\ topic' = Append(topic, e)
  /\ UNCHANGED <<committed, owner, worker, projected, deadLetters, replay, faults>>

Start(w) ==
  /\ worker[w].pc = "stopped" /\ owner # w
  /\ Goes(w, "poll")
  /\ UNCHANGED <<topic, committed, owner, projected, deadLetters, replay, faults>>

\* A member joins the group, or comes back to it, when it polls.
Assign(w) ==
  /\ owner = None /\ worker[w].pc = "poll"
  /\ owner' = w
  /\ worker' = [worker EXCEPT ![w].position = committed]
  /\ UNCHANGED <<topic, committed, projected, deadLetters, replay, faults>>

\* The session of a dead member ends; a live one may lose its partition too.
Revoke ==
  /\ owner # None
  /\ IF worker[owner].pc = "stopped" THEN UNCHANGED faults ELSE Fault
  /\ owner' = None
  /\ UNCHANGED <<topic, committed, worker, projected, deadLetters, replay>>

Crash(w) ==
  /\ worker[w].pc # "stopped"
  /\ Fault
  /\ Goes(w, "stopped")
  /\ UNCHANGED <<topic, committed, owner, projected, deadLetters, replay>>

-----------------------------------------------------------------------------
(***************************************************************************)
(* OutboxWorkerRuntime and OutboxProjectionMessageConsumer.                *)
(***************************************************************************)
Poll(w) ==
  LET next == worker[w].position + 1 IN
  /\ worker[w].pc = "poll" /\ owner = w
  /\ next <= Len(topic)
  /\ worker' = [worker EXCEPT ![w] =
       IF topic[next] \in Undecodable
       THEN [pc |-> "deadLetter", position |-> next, attempts |-> 1]
       ELSE [pc |-> "dispatch", position |-> next, attempts |-> 0]]
  /\ UNCHANGED <<topic, committed, owner, projected, deadLetters, replay, faults>>

\* Mutant: one retry too many.
AfterFailureOnceMore(n) == IF n > MaxRetries + 1 THEN "deadLetter" ELSE "dispatch"

\* Where the retry loop goes when an attempt, the n-th, raises.
AfterFailure(n) == IF n > MaxRetries THEN "deadLetter" ELSE "dispatch"

\* Every dispatch is an attempt, and takes the worker to the state pc.
Dispatches(w, pc) ==
  /\ worker[w].pc = "dispatch"
  /\ worker' = [worker EXCEPT ![w].attempts = @ + 1, ![w].pc = pc]
  /\ UNCHANGED <<topic, committed, owner, deadLetters, replay>>

Project(w) ==
  /\ Dispatches(w, "commit")
  /\ projected' = projected \cup {worker[w].position}
  /\ UNCHANGED faults

ProjectFails(w) ==
  /\ Dispatches(w, AfterFailure(worker[w].attempts + 1))
  /\ Fault
  /\ UNCHANGED projected

\* An ApplicationServiceError is not retried.
ProjectRejected(w) ==
  /\ Dispatches(w, "deadLetter")
  /\ UNCHANGED <<projected, faults>>

Commit(w) ==
  /\ worker[w].pc = "commit" /\ owner = w
  /\ committed' = worker[w].position
  /\ Goes(w, "poll")
  /\ UNCHANGED <<topic, owner, projected, deadLetters, replay, faults>>

\* The commit is part of the attempt: its failure dispatches the event again.
CommitFails(w) ==
  /\ worker[w].pc = "commit"
  /\ IF owner = w THEN Fault ELSE UNCHANGED faults
  /\ Goes(w, AfterFailure(worker[w].attempts))
  /\ UNCHANGED <<topic, committed, owner, projected, deadLetters, replay>>

\* Mutant: the offset is committed before the dead letter is published.
PublishDeadLetterLast(w) ==
  /\ worker[w].pc = "deadLetter" /\ owner = w
  /\ committed' = worker[w].position
  /\ Goes(w, "commitDeadLetter")
  /\ UNCHANGED <<topic, owner, projected, deadLetters, replay, faults>>

PublishDeadLetter(w) ==
  /\ worker[w].pc = "deadLetter"
  /\ \/ deadLetters' = Append(deadLetters, [event |-> topic[worker[w].position],
                                            offset |-> worker[w].position,
                                            attempts |-> worker[w].attempts])
     \/ LosesDeadLetters /\ UNCHANGED deadLetters
  /\ Goes(w, "commitDeadLetter")
  /\ UNCHANGED <<topic, committed, owner, projected, replay, faults>>

\* Mutant: a dead-lettered message is left uncommitted.
CommitNoDeadLetter(w) ==
  /\ worker[w].pc = "commitDeadLetter" /\ owner = w
  /\ Goes(w, "poll")
  /\ UNCHANGED <<topic, committed, owner, projected, deadLetters, replay, faults>>

CommitDeadLetter(w) ==
  /\ worker[w].pc = "commitDeadLetter" /\ owner = w
  /\ committed' = worker[w].position
  /\ Goes(w, "poll")
  /\ UNCHANGED <<topic, owner, projected, deadLetters, replay, faults>>

\* What _dead_letter raises ends run_forever, which closes the consumer.
Fails(w) ==
  /\ \/ worker[w].pc = "deadLetter" /\ Fault
     \/ worker[w].pc = "commitDeadLetter" /\ IF owner = w THEN Fault ELSE UNCHANGED faults
  /\ Goes(w, "stopped")
  /\ owner' = IF owner = w THEN None ELSE owner
  /\ UNCHANGED <<topic, committed, projected, deadLetters, replay>>

-----------------------------------------------------------------------------
(***************************************************************************)
(* replay_dead_letter_events.                                              *)
(***************************************************************************)
\* Mutant: the script commits before it produces.
ReplayProducesNothing ==
  /\ ~replay.produced /\ replay.offset < Len(deadLetters)
  /\ replay' = [replay EXCEPT !.produced = TRUE]
  /\ UNCHANGED <<topic, committed, owner, worker, projected, deadLetters, faults>>

\* The script asks for no delivery report either: the copy may fail after flush()
\* returned, and the script goes on to commit all the same.
ReplayProduces ==
  /\ ~replay.produced /\ replay.offset < Len(deadLetters)
  /\ \/ /\ Len(topic) < MaxMessages
        /\ topic' = Append(topic, deadLetters[replay.offset + 1].event)
        /\ replay' = [replay EXCEPT !.produced = TRUE]
        /\ UNCHANGED faults
     \/ /\ Fault
        /\ replay' = [replay EXCEPT !.produced = TRUE, !.lost = @ \cup {replay.offset + 1}]
        /\ UNCHANGED topic
  /\ UNCHANGED <<committed, owner, worker, projected, deadLetters>>

ReplayCommits ==
  /\ replay.produced
  /\ replay' = [replay EXCEPT !.offset = @ + 1, !.produced = FALSE]
  /\ UNCHANGED <<topic, committed, owner, worker, projected, deadLetters, faults>>

ReplayStops ==
  /\ replay.produced
  /\ Fault
  /\ replay' = [replay EXCEPT !.produced = FALSE]
  /\ UNCHANGED <<topic, committed, owner, worker, projected, deadLetters>>

-----------------------------------------------------------------------------
Init ==
  /\ topic = << >>
  /\ committed = 0
  /\ owner = None
  /\ worker = [w \in Workers |-> [pc |-> "stopped", position |-> 0, attempts |-> 0]]
  /\ projected = {}
  /\ deadLetters = << >>
  /\ replay = [offset |-> 0, produced |-> FALSE, lost |-> {}]
  /\ faults = 0

\* The steps a running worker takes by itself.
WorkerStep(w) ==
  \/ Poll(w)
  \/ Project(w) \/ ProjectFails(w) \/ ProjectRejected(w)
  \/ Commit(w) \/ CommitFails(w)
  \/ PublishDeadLetter(w) \/ CommitDeadLetter(w) \/ Fails(w)

ReplayStep == ReplayProduces \/ ReplayCommits \/ ReplayStops

Next ==
  \/ \E e \in Events : Publish(e)
  \/ \E w \in Workers : Start(w) \/ Assign(w) \/ Crash(w) \/ WorkerStep(w)
  \/ Revoke
  \/ ReplayStep

Spec == Init /\ [][Next]_vars

-----------------------------------------------------------------------------
(***************************************************************************)
(* Properties.                                                             *)
(***************************************************************************)
DeadLettered == {deadLetters[i].offset : i \in DOMAIN deadLetters}

\* Variables have their types; no message gets more than MaxRetries + 1 attempts.
TypeOK ==
  /\ topic \in Seq(Events)
  /\ committed \in Nat
  /\ owner \in Workers \cup {None}
  /\ worker \in [Workers -> [pc : {"stopped", "poll", "dispatch", "commit", "deadLetter",
                                   "commitDeadLetter"},
                             position : Nat, attempts : 0 .. MaxRetries + 1]]
  /\ projected \subseteq Nat
  /\ deadLetters \in Seq([event : Events, offset : Nat, attempts : 1 .. MaxRetries + 1])
  /\ replay \in [offset : Nat, produced : BOOLEAN, lost : SUBSET Nat]
  /\ faults \in Nat

\* Whatever fails, crashes or changes hands, no committed message is lost: it was
\* projected, or is on the dead-letter topic ("Failed messages are published to
\* indexing-events.dlq").
NoMessageSkipped == \A n \in 1 .. committed : n \in projected \cup DeadLettered

\* The workers of a group deliver their partition as AtLeastOnceLog promises: none
\* skipped, none handled for the first time ahead of its turn, no commit undone, even
\* when a worker that lost the partition is still busy.
Promise == INSTANCE AtLeastOnceLog WITH
  Messages <- Events, log <- topic,
  handled <- projected \cup DeadLettered, cursor <- committed
DeliversInOrder == Promise!Spec

\* Of the dead letters the replay script is done with, none is missing but those the
\* broker did not take: wherever the script stops and is run again, each of the others is
\* in the topic again, behind the message it is a copy of.
ReplayLosesNothing ==
  \A i \in (1 .. replay.offset) \ replay.lost :
    \E n \in DOMAIN topic : n > deadLetters[i].offset /\ topic[n] = deadLetters[i].event

(***************************************************************************)
(* Fairness: a running worker does not rest between polls, the group       *)
(* assigns a free partition, and a stopped worker is restarted.            *)
(***************************************************************************)
FairSpec ==
  /\ Spec
  /\ \A w \in Workers : WF_vars(WorkerStep(w)) /\ WF_vars(Start(w))
  /\ WF_vars(\E w \in Workers : Assign(w))
  /\ WF_vars(owner # None /\ worker[owner].pc = "stopped" /\ Revoke)

\* No message blocks the partition: each is committed in the end, and the messages
\* behind it are reached.
EveryMessageSettled ==
  \A n \in 1 .. MaxMessages : Len(topic) >= n ~> committed >= n
=============================================================================
