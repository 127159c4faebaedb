------------------------ MODULE OutboxDeliveryProofs ------------------------
(***************************************************************************)
(* Proofs about OutboxDelivery: its types, that no committed message is    *)
(* lost, that it implements AtLeastOnceLog, and that the replay script     *)
(* loses no dead letter.  The argument: the group's offset moves only by   *)
(* the commit of the worker that owns the partition, and that worker is    *)
(* always on the message right behind it; a worker that lost the partition *)
(* is on that message or an earlier one.                                   *)
(***************************************************************************)
EXTENDS OutboxDelivery, TLAPS

Busy(w) == worker[w].pc \notin {"stopped", "poll"}
Handled == projected \cup DeadLettered

WorkerStates ==
  [pc : {"stopped", "poll", "dispatch", "commit", "deadLetter", "commitDeadLetter"},
   position : Nat, attempts : 0 .. MaxRetries + 1]
Letters == [event : Events, offset : Nat, attempts : 1 .. MaxRetries + 1]

\* A worker that owns the partition is at its offset, or on the message behind it.
OwnerInv ==
  owner # None =>
    /\ worker[owner].pc = "poll" => worker[owner].position = committed
    /\ Busy(owner) => worker[owner].position = committed + 1

\* Any busy worker is on a message that exists, at most the one behind the offset.
WorkerInv ==
  \A w \in Workers :
    /\ Busy(w) => /\ worker[w].position \in 1 .. Len(topic)
                  /\ worker[w].position <= committed + 1
    /\ worker[w].pc = "dispatch" => worker[w].attempts <= MaxRetries
    /\ worker[w].pc \in {"commit", "deadLetter"} => worker[w].attempts >= 1
    /\ worker[w].pc = "commit" => worker[w].position \in projected
    /\ worker[w].pc = "commitDeadLetter" /\ ~LosesDeadLetters
         => worker[w].position \in DeadLettered

HandledInv ==
  /\ committed <= Len(topic)
  /\ ~LosesDeadLetters => NoMessageSkipped

Inv == TypeOK /\ OwnerInv /\ WorkerInv /\ HandledInv

-----------------------------------------------------------------------------
\* Appending to the dead-letter topic adds the offset of the letter.
LEMMA AppendDeadLetter ==
  ASSUME NEW T, NEW s \in Seq(T), NEW e \in T
  PROVE  /\ Append(s, e) \in Seq(T)
         /\ DOMAIN Append(s, e) = DOMAIN s \cup {Len(s) + 1}
         /\ \A i \in DOMAIN s : Append(s, e)[i] = s[i]
         /\ Append(s, e)[Len(s) + 1] = e
  OBVIOUS

LEMMA InitInv == Init => Inv
  BY DeliveryAssumption DEF Init, Inv, TypeOK, OwnerInv, WorkerInv, HandledInv,
     NoMessageSkipped, Busy

\* A letter on the dead-letter topic is a letter.
LEMMA LetterTyped ==
  ASSUME TypeOK, NEW i \in 1 .. Len(deadLetters)
  PROVE  deadLetters[i] \in Letters
<1>1. deadLetters \in Seq(Letters)
  BY DEF TypeOK, Letters
<1> QED
  BY <1>1

\* The steps that leave the workers alone.
LEMMA OutsideKeepsInv ==
  ASSUME Inv, (\E e \in Events : Publish(e)) \/ Revoke \/ ReplayStep
  PROVE  Inv'
<1> USE DeliveryAssumption
<1>1. UNCHANGED <<committed, worker, projected, deadLetters>>
  BY DEF Publish, Revoke, ReplayStep, ReplayProduces, ReplayCommits, ReplayStops
<1>t. /\ topic \in Seq(Events) /\ owner \in Workers \cup {None} /\ faults \in Nat
      /\ replay \in [offset : Nat, produced : BOOLEAN, lost : SUBSET Nat]
      /\ Len(topic) \in Nat /\ Len(deadLetters) \in Nat
  BY DEF Inv, TypeOK
<1>o. replay.offset \in Nat /\ replay.produced \in BOOLEAN /\ replay.lost \in SUBSET Nat
  BY <1>t
<1>2. TypeOK'
  <2>1. topic' = topic \/ \E e \in Events : topic' = Append(topic, e)
    <3>1. CASE ReplayProduces
      <4>1. replay.offset + 1 \in 1 .. Len(deadLetters)
        BY <3>1, <1>t, <1>o DEF ReplayProduces
      <4>2. deadLetters[replay.offset + 1].event \in Events
        BY <4>1, LetterTyped DEF Inv, Letters
      <4> QED
        BY <3>1, <4>2 DEF ReplayProduces
    <3> QED
      BY <3>1 DEF Publish, Revoke, ReplayStep, ReplayCommits, ReplayStops
  <2>2. topic' \in Seq(Events)
    BY <2>1, <1>t
  <2>3. replay' \in [offset : Nat, produced : BOOLEAN, lost : SUBSET Nat]
    <3>1. CASE ReplayCommits
      <4>1. replay' = [offset |-> replay.offset + 1, produced |-> FALSE, lost |-> replay.lost]
        BY <3>1, <1>t DEF ReplayCommits
      <4> QED
        BY <4>1, <1>o
    <3>2. CASE ReplayProduces
      <4>1. CASE replay' = [replay EXCEPT !.produced = TRUE]
        BY <4>1, <1>t
      <4>2. ASSUME NEW lost, lost = replay.lost \cup {replay.offset + 1},
                   replay' = [replay EXCEPT !.produced = TRUE, !.lost = lost]
            PROVE  replay' \in [offset : Nat, produced : BOOLEAN, lost : SUBSET Nat]
        <5>1. lost \in SUBSET Nat
          BY <4>2, <1>o
        <5>2. replay' = [offset |-> replay.offset, produced |-> TRUE, lost |-> lost]
          BY <4>2, <1>t
        <5> QED
          BY <5>1, <5>2, <1>o
      <4> QED
        BY <3>2, <4>1, <4>2 DEF ReplayProduces
    <3>3. CASE ReplayStops
      BY <3>3, <1>t DEF ReplayStops
    <3>4. CASE UNCHANGED replay
      BY <3>4, <1>t
    <3> QED
      BY <3>1, <3>2, <3>3, <3>4 DEF Publish, Revoke, ReplayStep
  <2>4. owner' \in Workers \cup {None} /\ faults' \in Nat
    BY <1>t DEF Publish, Revoke, ReplayStep, ReplayProduces, ReplayCommits,
       ReplayStops, Fault
  <2> QED
    BY <1>1, <2>2, <2>3, <2>4 DEF Inv, TypeOK
<1>3. Len(topic') \in Nat /\ Len(topic) \in Nat /\ Len(topic) <= Len(topic')
  BY <1>t DEF Publish, Revoke, ReplayStep, ReplayProduces, ReplayCommits, ReplayStops
<1>4. DeadLettered' = DeadLettered
  BY <1>1 DEF DeadLettered
<1>5. owner' = owner \/ owner' = None
  BY DEF Publish, Revoke, ReplayStep, ReplayProduces, ReplayCommits, ReplayStops
<1>6. OwnerInv'
  BY <1>1, <1>5 DEF Inv, OwnerInv, Busy
<1>7. WorkerInv'
  BY <1>1, <1>3, <1>4 DEF Inv, TypeOK, WorkerInv, Busy
<1>8. HandledInv'
  BY <1>1, <1>3, <1>4 DEF Inv, TypeOK, HandledInv, NoMessageSkipped
<1> QED
  BY <1>2, <1>6, <1>7, <1>8 DEF Inv

\* A worker that takes a step leaves the others where they are.
LEMMA OneWorkerMoves ==
  ASSUME TypeOK, NEW w \in Workers, NEW r \in WorkerStates,
         worker' = [worker EXCEPT ![w] = r]
  PROVE  /\ worker' \in [Workers -> WorkerStates]
         /\ worker'[w] = r
         /\ \A v \in Workers \ {w} : worker'[v] = worker[v]
  BY DEF TypeOK, WorkerStates

\* What a step of worker w must do to keep Inv.
LEMMA WorkerKeepsInv ==
  ASSUME Inv, NEW w \in Workers, TypeOK',
         UNCHANGED topic,
         \A v \in Workers \ {w} : worker'[v] = worker[v],
         projected \subseteq projected', DeadLettered \subseteq DeadLettered',
         \/ committed' = committed
         \/ /\ owner = w /\ committed' = committed + 1 /\ committed + 1 <= Len(topic)
            /\ ~LosesDeadLetters => committed + 1 \in (projected \cup DeadLettered)',
         owner' \in {owner, None, w},
         owner' = w =>
           /\ worker'[w].pc = "poll" => worker'[w].position = committed'
           /\ Busy(w)' => worker'[w].position = committed' + 1,
         Busy(w)' => worker'[w].position \in 1 .. Len(topic)
                     /\ worker'[w].position <= committed' + 1,
         worker'[w].pc = "dispatch" => worker'[w].attempts <= MaxRetries,
         worker'[w].pc \in {"commit", "deadLetter"} => worker'[w].attempts >= 1,
         worker'[w].pc = "commit" => worker'[w].position \in projected',
         worker'[w].pc = "commitDeadLetter" /\ ~LosesDeadLetters
           => worker'[w].position \in DeadLettered'
  PROVE  Inv'
<1> USE DeliveryAssumption
<1>t. committed \in Nat /\ Len(topic) \in Nat /\ committed' \in Nat /\ owner \in Workers \cup {None}
  BY DEF Inv, TypeOK
<1>1. OwnerInv'
  <2>1. CASE owner' = w
    BY <2>1 DEF OwnerInv
  <2>2. CASE owner' # w /\ owner' # None
    BY <2>2, <1>t DEF OwnerInv, Inv, Busy
  <2> QED
    BY <2>1, <2>2 DEF OwnerInv
<1>2. WorkerInv'
  <2> SUFFICES ASSUME NEW v \in Workers
      PROVE  /\ Busy(v)' => /\ worker'[v].position \in 1 .. Len(topic)
                            /\ worker'[v].position <= committed' + 1
             /\ worker'[v].pc = "dispatch" => worker'[v].attempts <= MaxRetries
             /\ worker'[v].pc \in {"commit", "deadLetter"} => worker'[v].attempts >= 1
             /\ worker'[v].pc = "commit" => worker'[v].position \in projected'
             /\ worker'[v].pc = "commitDeadLetter" /\ ~LosesDeadLetters
                  => worker'[v].position \in DeadLettered'
    BY DEF WorkerInv
  <2>1. CASE v = w
    BY <2>1
  <2>2. CASE v # w
    <3>1. worker'[v] = worker[v]
      BY <2>2
    <3>2. Busy(v) => worker[v].position \in 1 .. Len(topic)
                     /\ worker[v].position <= committed' + 1
      BY <1>t DEF Inv, WorkerInv
    <3> QED
      BY <3>1, <3>2 DEF Inv, WorkerInv, Busy
  <2> QED
    BY <2>1, <2>2
<1>3. HandledInv'
  BY <1>t DEF Inv, HandledInv, NoMessageSkipped
<1> QED
  BY <1>1, <1>2, <1>3 DEF Inv

\* What Inv says of one worker.
LEMMA WorkerFacts ==
  ASSUME Inv, NEW w \in Workers
  PROVE  /\ worker[w] \in WorkerStates
         /\ topic \in Seq(Events) /\ Len(topic) \in Nat /\ committed \in Nat
         /\ owner \in Workers \cup {None} /\ faults \in Nat /\ MaxRetries \in Nat
         /\ projected \subseteq Nat /\ deadLetters \in Seq(Letters)
         /\ None \notin Workers
         /\ committed <= Len(topic)
         /\ Busy(w) => worker[w].position \in 1 .. Len(topic)
                       /\ worker[w].position <= committed + 1
         /\ owner = w =>
              /\ worker[w].pc = "poll" => worker[w].position = committed
              /\ Busy(w) => worker[w].position = committed + 1
         /\ worker[w].pc = "dispatch" => worker[w].attempts <= MaxRetries
         /\ worker[w].pc \in {"commit", "deadLetter"} => worker[w].attempts >= 1
         /\ worker[w].pc = "commit" => worker[w].position \in projected
         /\ worker[w].pc = "commitDeadLetter" /\ ~LosesDeadLetters
              => worker[w].position \in DeadLettered
<1>1. worker[w] \in WorkerStates /\ deadLetters \in Seq(Letters)
  BY DEF Inv, TypeOK, WorkerStates, Letters
<1>2. owner = w => owner # None
  BY DeliveryAssumption
<1> QED
  BY <1>1, <1>2, DeliveryAssumption DEF Inv, TypeOK, OwnerInv, WorkerInv, HandledInv

\* An assignment to the fields of worker w, as a new state of it.
LEMMA WorkerFields ==
  ASSUME TypeOK, NEW w \in Workers, NEW p, NEW n, NEW a
  PROVE  /\ worker' = [worker EXCEPT ![w].pc = p]
              => worker' = [worker EXCEPT ![w] = [pc |-> p, position |-> worker[w].position,
                                                  attempts |-> worker[w].attempts]]
         /\ worker' = [worker EXCEPT ![w].position = n]
              => worker' = [worker EXCEPT ![w] = [pc |-> worker[w].pc, position |-> n,
                                                  attempts |-> worker[w].attempts]]
         /\ worker' = [worker EXCEPT ![w].attempts = @ + 1, ![w].pc = p]
              => worker' = [worker EXCEPT ![w] = [pc |-> p, position |-> worker[w].position,
                                                  attempts |-> worker[w].attempts + 1]]
  BY DEF TypeOK

\* A worker that starts, polls or gets the partition.
LEMMA PollingKeepsInv ==
  ASSUME Inv, NEW w \in Workers, Start(w) \/ Assign(w) \/ Crash(w) \/ Poll(w)
  PROVE  Inv'
<1> USE WorkerFacts DEF Goes
<1>d. DeadLettered' = DeadLettered
  BY DEF Start, Assign, Crash, Poll, DeadLettered
<1>1. CASE Start(w)
  <2> DEFINE r == [pc |-> "poll", position |-> worker[w].position,
                   attempts |-> worker[w].attempts]
  <2>1. r \in WorkerStates /\ worker' = [worker EXCEPT ![w] = r]
    BY <1>1, WorkerFields DEF Start, WorkerStates, Inv
  <2>2. worker' \in [Workers -> WorkerStates] /\ worker'[w] = r
        /\ \A v \in Workers \ {w} : worker'[v] = worker[v]
    BY <2>1, OneWorkerMoves DEF Inv
  <2>3. TypeOK'
    BY <1>1, <2>2 DEF Start, Inv, TypeOK, WorkerStates
  <2> QED
    BY <1>1, <1>d, <2>2, <2>3, WorkerKeepsInv DEF Start, Busy
<1>2. CASE Assign(w)
  <2> DEFINE r == [pc |-> worker[w].pc, position |-> committed,
                   attempts |-> worker[w].attempts]
  <2>0. worker' = [worker EXCEPT ![w] = r]
    BY <1>2, WorkerFields DEF Assign, Inv
  <2>1. r \in WorkerStates /\ worker' = [worker EXCEPT ![w] = r] /\ r.pc = "poll"
    BY <1>2, <2>0 DEF Assign, WorkerStates
  <2>2. worker' \in [Workers -> WorkerStates] /\ worker'[w] = r
        /\ \A v \in Workers \ {w} : worker'[v] = worker[v]
    BY <2>1, OneWorkerMoves DEF Inv
  <2>3. TypeOK'
    BY <1>2, <2>2 DEF Assign, Inv, TypeOK, WorkerStates
  <2> QED
    BY <1>2, <1>d, <2>1, <2>2, <2>3, WorkerKeepsInv DEF Assign, Busy
<1>3. CASE Crash(w)
  <2> DEFINE r == [pc |-> "stopped", position |-> worker[w].position,
                   attempts |-> worker[w].attempts]
  <2>1. r \in WorkerStates /\ worker' = [worker EXCEPT ![w] = r]
    BY <1>3, WorkerFields DEF Crash, WorkerStates, Inv
  <2>2. worker' \in [Workers -> WorkerStates] /\ worker'[w] = r
        /\ \A v \in Workers \ {w} : worker'[v] = worker[v]
    BY <2>1, OneWorkerMoves DEF Inv
  <2>3. faults' \in Nat
    BY <1>3 DEF Crash, Fault
  <2>4. TypeOK'
    BY <1>3, <2>2, <2>3 DEF Crash, Inv, TypeOK, WorkerStates
  <2> QED
    BY <1>3, <1>d, <2>2, <2>4, WorkerKeepsInv DEF Crash, Busy
<1>4. CASE Poll(w)
  <2> DEFINE r == IF topic[worker[w].position + 1] \in Undecodable
                  THEN [pc |-> "deadLetter", position |-> worker[w].position + 1,
                        attempts |-> 1]
                  ELSE [pc |-> "dispatch", position |-> worker[w].position + 1,
                        attempts |-> 0]
  <2>0. worker[w].position \in Nat
    BY DEF WorkerStates
  <2>1. r \in WorkerStates /\ worker' = [worker EXCEPT ![w] = r]
    BY <1>4, <2>0 DEF Poll, WorkerStates
  <2>2. worker' \in [Workers -> WorkerStates] /\ worker'[w] = r
        /\ \A v \in Workers \ {w} : worker'[v] = worker[v]
    BY <2>1, OneWorkerMoves DEF Inv
  <2>3. TypeOK'
    BY <1>4, <2>2 DEF Poll, Inv, TypeOK, WorkerStates
  <2>4. owner = w /\ worker[w].position = committed /\ committed + 1 <= Len(topic)
    BY <1>4 DEF Poll
  <2>5. /\ r.position = committed + 1 /\ r.pc \in {"deadLetter", "dispatch"}
        /\ r.pc = "dispatch" => r.attempts <= MaxRetries
        /\ r.pc = "deadLetter" => r.attempts >= 1
    BY <2>4
  <2> QED
    BY <1>4, <1>d, <2>2, <2>3, <2>4, <2>5, WorkerKeepsInv DEF Poll, Busy
<1> QED
  BY <1>1, <1>2, <1>3, <1>4

\* A worker that dispatches its message.
LEMMA DispatchKeepsInv ==
  ASSUME Inv, NEW w \in Workers, Project(w) \/ ProjectFails(w) \/ ProjectRejected(w)
  PROVE  Inv'
<1> USE WorkerFacts
<1>d. DeadLettered' = DeadLettered
  BY DEF Project, ProjectFails, ProjectRejected, Dispatches, DeadLettered
<1> SUFFICES ASSUME NEW pc \in {"commit", "dispatch", "deadLetter"}, Dispatches(w, pc),
                    pc = "dispatch" => worker[w].attempts + 1 <= MaxRetries,
                    faults' \in Nat,
                    \/ projected' = projected \cup {worker[w].position}
                    \/ projected' = projected /\ pc # "commit"
             PROVE  Inv'
  <2>1. CASE Project(w)
    BY <2>1 DEF Project
  <2>2. CASE ProjectFails(w)
    <3>1. worker[w].attempts + 1 \in Nat
      BY DEF WorkerStates
    <3> QED
      BY <2>2, <3>1 DEF ProjectFails, AfterFailure, Fault
  <2>3. CASE ProjectRejected(w)
    BY <2>3 DEF ProjectRejected
  <2> QED
    BY <2>1, <2>2, <2>3
<1> DEFINE r == [pc |-> pc, position |-> worker[w].position,
                 attempts |-> worker[w].attempts + 1]
<1>1. /\ Busy(w) /\ worker[w].attempts <= MaxRetries
      /\ worker[w].position \in Nat /\ worker[w].attempts \in Nat
  BY DEF Dispatches, Busy, WorkerStates
<1>2. r \in WorkerStates
  BY <1>1 DEF WorkerStates
<1>3. worker' = [worker EXCEPT ![w] = r]
  BY WorkerFields DEF Dispatches, Inv
<1>4. worker' \in [Workers -> WorkerStates] /\ worker'[w] = r
      /\ \A v \in Workers \ {w} : worker'[v] = worker[v]
  BY <1>2, <1>3, OneWorkerMoves DEF Inv
<1>5. projected' \subseteq Nat
  BY <1>1
<1>6. TypeOK'
  BY <1>4, <1>5 DEF Dispatches, Inv, TypeOK, WorkerStates
<1>7. pc = "commit" => worker[w].position \in projected'
  OBVIOUS
<1>8. UNCHANGED <<topic, committed, owner>> /\ projected \subseteq projected'
  BY DEF Dispatches
<1>9. /\ worker'[w].pc = pc /\ worker'[w].position = worker[w].position
      /\ worker'[w].attempts = worker[w].attempts + 1
  BY <1>4
<1>a. /\ pc = "dispatch" => worker[w].attempts + 1 <= MaxRetries
      /\ worker[w].attempts + 1 >= 1
  BY <1>1
<1> HIDE DEF r
<1> QED
  BY <1>1, <1>d, <1>4, <1>6, <1>7, <1>8, <1>9, <1>a, WorkerKeepsInv DEF Busy

\* A worker that commits its message, or fails to.
LEMMA CommitKeepsInv ==
  ASSUME Inv, NEW w \in Workers, Commit(w) \/ CommitFails(w) \/ CommitDeadLetter(w)
  PROVE  Inv'
<1> USE WorkerFacts DEF Goes
<1>d. DeadLettered' = DeadLettered
  BY DEF Commit, CommitFails, CommitDeadLetter, DeadLettered
<1>p. worker[w].position \in Nat /\ worker[w].attempts \in Nat
  BY DEF WorkerStates
<1>m. PICK pc \in {"poll", "dispatch", "deadLetter"} :
         /\ worker' = [worker EXCEPT ![w].pc = pc]
         /\ \/ pc = "poll" /\ owner = w /\ committed' = worker[w].position
            \/ /\ pc # "poll" /\ worker[w].pc = "commit" /\ committed' = committed
               /\ pc = "dispatch" => worker[w].attempts <= MaxRetries
  BY <1>p DEF Commit, CommitFails, CommitDeadLetter, AfterFailure
<1> DEFINE r == [pc |-> pc, position |-> worker[w].position,
                 attempts |-> worker[w].attempts]
<1>1. r \in WorkerStates
  BY DEF WorkerStates
<1>2. worker' = [worker EXCEPT ![w] = r]
  BY <1>m, WorkerFields DEF Inv
<1>3. worker' \in [Workers -> WorkerStates] /\ worker'[w] = r
      /\ \A v \in Workers \ {w} : worker'[v] = worker[v]
  BY <1>1, <1>2, OneWorkerMoves DEF Inv
<1>4. Busy(w)
  BY DEF Commit, CommitFails, CommitDeadLetter, Busy
<1>5. faults' \in Nat
  BY DEF Commit, CommitFails, CommitDeadLetter, Fault
<1>6. UNCHANGED <<topic, owner, projected>>
  BY DEF Commit, CommitFails, CommitDeadLetter
<1>7. TypeOK'
  BY <1>3, <1>5, <1>6, <1>m, <1>p
     DEF Commit, CommitFails, CommitDeadLetter, Inv, TypeOK, WorkerStates
<1>8. CASE pc = "poll"
  <2>1. worker[w].position = committed + 1
    BY <1>8, <1>m, <1>4
  <2>2. ~LosesDeadLetters => committed + 1 \in projected \cup DeadLettered
    BY <2>1, <1>8, <1>m DEF Commit, CommitFails, CommitDeadLetter, AfterFailure
  <2>3. committed + 1 <= Len(topic)
    BY <2>1, <1>4
  <2> QED
    BY <1>8, <1>d, <1>3, <1>4, <1>6, <1>7, <1>m, <2>1, <2>2, <2>3, WorkerKeepsInv
       DEF Busy
<1>9. CASE pc # "poll"
  <2>1. worker[w].pc = "commit" /\ committed' = committed
        /\ (pc = "dispatch" => worker[w].attempts <= MaxRetries)
    BY <1>9, <1>m
  <2> QED
    BY <1>9, <1>d, <1>3, <1>4, <1>6, <1>7, <2>1, WorkerKeepsInv DEF Busy
<1> QED
  BY <1>8, <1>9

\* A worker that publishes a dead letter.
LEMMA PublishKeepsInv ==
  ASSUME Inv, NEW w \in Workers, PublishDeadLetter(w)
  PROVE  Inv'
<1> USE WorkerFacts DEF Goes
<1> DEFINE letter == [event |-> topic[worker[w].position], offset |-> worker[w].position,
                      attempts |-> worker[w].attempts]
           r == [pc |-> "commitDeadLetter", position |-> worker[w].position,
                 attempts |-> worker[w].attempts]
<1>0. /\ worker[w].pc = "deadLetter" /\ worker' = [worker EXCEPT ![w].pc = "commitDeadLetter"]
      /\ UNCHANGED <<topic, committed, owner, projected, replay, faults>>
  BY Zenon DEF PublishDeadLetter
<1>1. /\ Busy(w) /\ worker[w].position \in Nat /\ worker[w].position \in 1 .. Len(topic)
      /\ worker[w].attempts \in 1 .. MaxRetries + 1
  BY <1>0 DEF Busy, WorkerStates
<1>2. letter \in Letters /\ r \in WorkerStates
  BY <1>1 DEF Letters, WorkerStates
<1>3. worker' = [worker EXCEPT ![w] = r]
  BY <1>0, WorkerFields DEF Inv
<1>4. worker' \in [Workers -> WorkerStates] /\ worker'[w] = r
      /\ \A v \in Workers \ {w} : worker'[v] = worker[v]
  BY <1>2, <1>3, OneWorkerMoves DEF Inv
<1>5. \/ deadLetters' = Append(deadLetters, letter)
      \/ LosesDeadLetters /\ UNCHANGED deadLetters
  BY Zenon DEF PublishDeadLetter
<1>6. deadLetters' \in Seq(Letters)
  <2> HIDE DEF letter
  <2>1. deadLetters \in Seq(Letters)
    OBVIOUS
  <2>2. Append(deadLetters, letter) \in Seq(Letters)
    BY <1>2, <2>1, AppendDeadLetter
  <2> QED
    BY <1>5, <2>1, <2>2
<1>7. TypeOK'
  BY <1>0, <1>4, <1>6 DEF Inv, TypeOK, WorkerStates, Letters
<1>8. /\ DeadLettered \subseteq DeadLettered'
      /\ ~LosesDeadLetters => worker[w].position \in DeadLettered'
  <2>1. CASE UNCHANGED deadLetters /\ LosesDeadLetters
    BY <2>1 DEF DeadLettered
  <2>2. CASE deadLetters' = Append(deadLetters, letter)
    <3>1. /\ DOMAIN deadLetters' = DOMAIN deadLetters \cup {Len(deadLetters) + 1}
          /\ \A i \in DOMAIN deadLetters : deadLetters'[i] = deadLetters[i]
          /\ deadLetters'[Len(deadLetters) + 1] = letter
      BY <1>2, <2>2, AppendDeadLetter
    <3> QED
      BY <3>1 DEF DeadLettered
  <2> QED
    BY <1>5, <2>1, <2>2
<1>9. /\ worker'[w].pc = "commitDeadLetter" /\ worker'[w].position = worker[w].position
      /\ worker[w].position <= committed + 1
      /\ owner = w => worker[w].position = committed + 1
  BY <1>1, <1>4
<1> HIDE WorkerFacts DEF letter, r
<1> QED
  BY <1>0, <1>1, <1>4, <1>7, <1>8, <1>9, WorkerKeepsInv DEF Busy

\* A worker that stops because it could not dead-letter its message.
LEMMA FailsKeepsInv ==
  ASSUME Inv, NEW w \in Workers, Fails(w)
  PROVE  Inv'
<1> USE WorkerFacts DEF Goes
<1> DEFINE r == [pc |-> "stopped", position |-> worker[w].position,
                 attempts |-> worker[w].attempts]
<1>1. r \in WorkerStates /\ worker' = [worker EXCEPT ![w] = r]
  BY WorkerFields DEF Fails, WorkerStates, Inv
<1>2. worker' \in [Workers -> WorkerStates] /\ worker'[w] = r
      /\ \A v \in Workers \ {w} : worker'[v] = worker[v]
  BY <1>1, OneWorkerMoves DEF Inv
<1>3. faults' \in Nat
  BY DEF Fails, Fault
<1>4. owner' \in Workers \cup {None} /\ owner' \in {owner, None} /\ owner' # w
  BY DEF Fails
<1>5. TypeOK'
  BY <1>2, <1>3, <1>4 DEF Fails, Inv, TypeOK, WorkerStates
<1>6. DeadLettered' = DeadLettered
  BY DEF Fails, DeadLettered
<1> QED
  BY <1>2, <1>4, <1>5, <1>6, WorkerKeepsInv DEF Fails, Busy

\* Inv is inductive.
LEMMA NextKeepsInv == Inv /\ [Next]_vars => Inv'
<1> SUFFICES ASSUME Inv, [Next]_vars PROVE Inv'
  OBVIOUS
<1>1. CASE Next
  BY <1>1, OutsideKeepsInv, PollingKeepsInv, DispatchKeepsInv, CommitKeepsInv,
     PublishKeepsInv, FailsKeepsInv DEF Next, WorkerStep
<1>2. CASE UNCHANGED vars
  BY <1>2 DEF vars, Inv, TypeOK, OwnerInv, WorkerInv, HandledInv, NoMessageSkipped, Busy,
     DeadLettered
<1> QED
  BY <1>1, <1>2

-----------------------------------------------------------------------------
\* The strengthened invariant holds of every state of the delivery.
THEOREM DeliveryInvariant == Spec => []Inv
  BY InitInv, NextKeepsInv, PTL DEF Spec

\* The variables have their types, and no message gets more than MaxRetries + 1
\* attempts (RetryPolicy and stop_after_attempt in runtime.py).
THEOREM DeliveryTypeCorrect == Spec => []TypeOK
<1>1. Inv => TypeOK
  BY DEF Inv
<1> QED
  BY <1>1, DeliveryInvariant, PTL

\* With a dead-letter topic that takes what it is given, no number of workers, crashes
\* and lost partitions loses a committed message.
THEOREM NoneSkipped == ~LosesDeadLetters => (Spec => []NoMessageSkipped)
<1> SUFFICES ASSUME ~LosesDeadLetters PROVE Spec => []NoMessageSkipped
  OBVIOUS
<1>1. Inv => NoMessageSkipped
  BY DEF Inv, HandledInv
<1> QED
  BY <1>1, DeliveryInvariant, PTL

-----------------------------------------------------------------------------
(***************************************************************************)
(* OutboxDelivery implements AtLeastOnceLog.  A dispatch or a dead letter  *)
(* of the message behind the offset is Handle; one of a worker that lost   *)
(* the partition repeats an offset that NoMessageSkipped says is handled.  *)
(***************************************************************************)
PHandled == projected \cup DeadLettered

LEMMA HandlesOrRepeats ==
  ASSUME Inv, ~LosesDeadLetters, NEW w \in Workers, Busy(w),
         UNCHANGED <<topic, committed>>, PHandled' = PHandled \cup {worker[w].position}
  PROVE  Promise!Handle \/ UNCHANGED PHandled
<1> USE WorkerFacts
<1>1. worker[w].position \in 1 .. Len(topic) /\ worker[w].position <= committed + 1
  OBVIOUS
<1>2. CASE worker[w].position = committed + 1
  BY <1>1, <1>2 DEF Promise!Handle, PHandled
<1>3. CASE worker[w].position # committed + 1
  <2>1. worker[w].position \in 1 .. committed
    BY <1>1, <1>3
  <2>2. worker[w].position \in PHandled
    BY <2>1 DEF Inv, HandledInv, NoMessageSkipped, PHandled
  <2> QED
    BY <2>2
<1> QED
  BY <1>2, <1>3

\* The steps of a worker.
LEMMA WorkerStepRefines ==
  ASSUME Inv, ~LosesDeadLetters, NEW w \in Workers, WorkerStep(w)
  PROVE  [Promise!Next]_Promise!vars
<1> USE WorkerFacts
<1>1. CASE Project(w)
  <2>1. PHandled' = PHandled \cup {worker[w].position} /\ Busy(w)
        /\ UNCHANGED <<topic, committed>>
    BY <1>1 DEF Project, Dispatches, PHandled, DeadLettered, Busy
  <2> QED
    BY <2>1, HandlesOrRepeats DEF Promise!Next, Promise!vars, PHandled
<1>2. CASE PublishDeadLetter(w)
  <2> DEFINE letter == [event |-> topic[worker[w].position],
                        offset |-> worker[w].position, attempts |-> worker[w].attempts]
  <2>1. /\ worker[w].pc = "deadLetter" /\ UNCHANGED <<topic, committed, projected>>
        /\ deadLetters' = Append(deadLetters, letter)
    BY <1>2, Zenon DEF PublishDeadLetter
  <2>a. /\ worker[w].position \in Nat /\ worker[w].position \in 1 .. Len(topic)
        /\ worker[w].attempts \in 1 .. MaxRetries + 1
    BY <2>1 DEF Busy, WorkerStates
  <2>2. letter.offset = worker[w].position /\ letter \in Letters
    BY <2>a DEF Letters
  <2> HIDE DEF letter
  <2>3. /\ DOMAIN deadLetters' = DOMAIN deadLetters \cup {Len(deadLetters) + 1}
        /\ \A i \in DOMAIN deadLetters : deadLetters'[i] = deadLetters[i]
        /\ deadLetters'[Len(deadLetters) + 1] = letter
    <3>1. deadLetters \in Seq(Letters)
      OBVIOUS
    <3> QED
      BY <3>1, <2>1, <2>2, AppendDeadLetter
  <2>4. DeadLettered' = DeadLettered \cup {worker[w].position}
    BY <2>2, <2>3 DEF DeadLettered
  <2>5. PHandled' = PHandled \cup {worker[w].position} /\ Busy(w)
    BY <2>1, <2>4 DEF PHandled, Busy
  <2> QED
    BY <2>1, <2>5, HandlesOrRepeats DEF Promise!Next, Promise!vars, PHandled
<1>3. CASE Commit(w) \/ CommitDeadLetter(w)
  <2>1. /\ Busy(w) /\ owner = w /\ committed' = worker[w].position
        /\ UNCHANGED <<topic, projected, deadLetters>>
        /\ worker[w].pc \in {"commit", "commitDeadLetter"}
    BY <1>3 DEF Commit, CommitDeadLetter, Busy
  <2>2. worker[w].position = committed + 1 /\ worker[w].position \in PHandled
    BY <2>1 DEF PHandled
  <2> QED
    BY <2>1, <2>2 DEF Promise!Next, Promise!Advance, PHandled, DeadLettered
<1>4. CASE Poll(w) \/ ProjectFails(w) \/ ProjectRejected(w) \/ CommitFails(w) \/ Fails(w)
  <2>1. UNCHANGED <<topic, committed, projected, deadLetters>>
    BY <1>4 DEF Poll, ProjectFails, ProjectRejected, CommitFails, Fails, Dispatches
  <2> QED
    BY <2>1 DEF Promise!vars, DeadLettered
<1> QED
  BY <1>1, <1>2, <1>3, <1>4 DEF WorkerStep

LEMMA StepRefines ==
  ASSUME Inv, ~LosesDeadLetters, [Next]_vars
  PROVE  [Promise!Next]_Promise!vars
<1>1. CASE \E e \in Events : Publish(e)
  BY <1>1 DEF Publish, Promise!Next, Promise!Publish, DeadLettered
<1>2. CASE ReplayProduces
  <2>0. replay.offset \in Nat /\ Len(deadLetters) \in Nat
    BY DEF Inv, TypeOK
  <2>1. replay.offset + 1 \in 1 .. Len(deadLetters)
    BY <1>2, <2>0 DEF ReplayProduces
  <2>2. deadLetters[replay.offset + 1].event \in Events
    BY <2>1, LetterTyped DEF Inv, Letters
  <2> QED
    BY <1>2, <2>2 DEF ReplayProduces, Promise!Next, Promise!Publish, Promise!vars, DeadLettered
<1>3. CASE \E w \in Workers : WorkerStep(w)
  BY <1>3, WorkerStepRefines
<1>4. CASE (\E w \in Workers : Start(w) \/ Assign(w) \/ Crash(w)) \/ Revoke
           \/ ReplayCommits \/ ReplayStops \/ UNCHANGED vars
  <2>1. UNCHANGED <<topic, committed, projected, deadLetters>>
    BY <1>4 DEF Start, Assign, Crash, Revoke, ReplayCommits, ReplayStops, vars
  <2> QED
    BY <2>1 DEF Promise!vars, DeadLettered
<1> QED
  BY <1>1, <1>2, <1>3, <1>4 DEF Next, ReplayStep

\* The workers of a consumer group deliver the partition as AtLeastOnceLog promises
\* (OutboxWorkerRuntime.process in runtime.py), for every number of workers, messages,
\* retries and faults, as long as the dead-letter topic takes what it is given.
THEOREM DeliveryImplementsLog == ~LosesDeadLetters => (Spec => DeliversInOrder)
<1> SUFFICES ASSUME ~LosesDeadLetters PROVE Spec => DeliversInOrder
  OBVIOUS
<1>1. Init => Promise!Init
  BY DEF Init, Promise!Init, DeadLettered
<1>2. Inv /\ [Next]_vars => [Promise!Next]_Promise!vars
  BY StepRefines
<1> QED
  BY <1>1, <1>2, DeliveryInvariant, PTL DEF Spec, DeliversInOrder, Promise!Spec

-----------------------------------------------------------------------------
(***************************************************************************)
(* The replay script.  Both topics only grow, so what was copied stays     *)
(* copied; a dead letter is never ahead of the end of the topic, so its    *)
(* copy is behind it, unless the broker did not take the copy.             *)
(***************************************************************************)
Copied(i) ==
  \E n \in DOMAIN topic : n > deadLetters[i].offset /\ topic[n] = deadLetters[i].event

Kept(i) == i \in replay.lost \/ Copied(i)

ReplayInv ==
  /\ \A i \in DOMAIN deadLetters : deadLetters[i].offset <= Len(topic)
  /\ replay.offset <= Len(deadLetters)
  /\ replay.produced => replay.offset + 1 <= Len(deadLetters) /\ Kept(replay.offset + 1)
  /\ \A i \in 1 .. replay.offset : Kept(i)

LEMMA StillCopied ==
  ASSUME TypeOK, TypeOK', NEW i \in 1 .. Len(deadLetters), Copied(i),
         UNCHANGED topic \/ (\E e \in Events : topic' = Append(topic, e)),
         deadLetters'[i] = deadLetters[i]
  PROVE  Copied(i)'
<1>1. topic \in Seq(Events)
  BY DEF TypeOK
<1>2. \A n \in DOMAIN topic : n \in DOMAIN topic' /\ topic'[n] = topic[n]
  BY <1>1
<1> QED
  BY <1>2 DEF Copied

\* A step that leaves the script alone keeps ReplayInv.
LEMMA OthersKeepReplayInv ==
  ASSUME Inv, Inv', ReplayInv, UNCHANGED replay,
         UNCHANGED topic \/ (\E e \in Events : topic' = Append(topic, e)),
         \/ UNCHANGED deadLetters
         \/ \E l \in Letters : /\ deadLetters' = Append(deadLetters, l)
                                /\ l.offset <= Len(topic)
  PROVE  ReplayInv'
<1>t. /\ topic \in Seq(Events) /\ deadLetters \in Seq(Letters) /\ TypeOK /\ TypeOK'
      /\ Len(topic) \in Nat /\ Len(deadLetters) \in Nat
  BY DEF Inv, TypeOK, Letters
<1>r. replay.offset \in Nat
  BY DEF Inv, TypeOK
<1>1. Len(topic') \in Nat /\ Len(topic) <= Len(topic')
  BY <1>t
<1>2. \A i \in 1 .. Len(deadLetters) : i \in DOMAIN deadLetters' /\ deadLetters'[i] = deadLetters[i]
  BY <1>t, AppendDeadLetter
<1>3. Len(deadLetters') \in Nat /\ Len(deadLetters) <= Len(deadLetters')
  BY <1>t
<1>4. \A i \in 1 .. Len(deadLetters) : Kept(i) => Kept(i)'
  BY <1>t, <1>2, StillCopied DEF Kept
<1>5. \A i \in DOMAIN deadLetters' : deadLetters'[i].offset <= Len(topic')
  <2> SUFFICES ASSUME NEW i \in DOMAIN deadLetters'
               PROVE  deadLetters'[i].offset <= Len(topic')
    OBVIOUS
  <2>1. CASE i \in 1 .. Len(deadLetters)
    <3>1. deadLetters'[i] = deadLetters[i] /\ deadLetters[i] \in Letters
      BY <2>1, <1>2, <1>t
    <3>2. deadLetters[i].offset \in Nat /\ deadLetters[i].offset <= Len(topic)
      BY <2>1, <3>1, <1>t DEF ReplayInv, Letters
    <3> QED
      BY <3>1, <3>2, <1>1, <1>t
  <2>2. CASE i \notin 1 .. Len(deadLetters)
    <3>1. PICK l \in Letters : /\ deadLetters' = Append(deadLetters, l)
                               /\ l.offset <= Len(topic)
      BY <2>2, <1>t
    <3>2. deadLetters'[i] = l
      BY <2>2, <3>1, <1>t, AppendDeadLetter
    <3>3. l.offset \in Nat
      BY DEF Letters
    <3> QED
      BY <3>1, <3>2, <3>3, <1>1, <1>t
  <2> QED
    BY <2>1, <2>2
<1>6. replay.offset <= Len(deadLetters)
      /\ (replay.produced => /\ replay.offset + 1 <= Len(deadLetters)
                             /\ Kept(replay.offset + 1))
      /\ \A i \in 1 .. replay.offset : Kept(i)
  BY DEF ReplayInv
<1>7. \A i \in 1 .. replay.offset : Kept(i)'
  BY <1>4, <1>6, <1>t, <1>r
<1>8. replay.produced => /\ replay.offset + 1 <= Len(deadLetters')
                         /\ Kept(replay.offset + 1)'
  BY <1>3, <1>4, <1>6, <1>t, <1>r
<1>9. replay.offset <= Len(deadLetters')
  BY <1>3, <1>6, <1>t, <1>r
<1> QED
  BY <1>5, <1>7, <1>8, <1>9 DEF ReplayInv, Kept, Copied

\* The script's own steps.
LEMMA ReplayStepKeepsReplayInv ==
  ASSUME Inv, Inv', ReplayInv, ReplayStep
  PROVE  ReplayInv'
<1>0. TypeOK /\ TypeOK'
  BY DEF Inv
<1>o. TypeOK
  BY <1>0
<1>t. /\ topic \in Seq(Events) /\ Len(topic) \in Nat /\ Len(deadLetters) \in Nat
      /\ replay \in [offset : Nat, produced : BOOLEAN, lost : SUBSET Nat]
  BY <1>o DEF TypeOK
<1>r. replay \in [offset : Nat, produced : BOOLEAN, lost : SUBSET Nat] /\ replay.offset \in Nat
  BY <1>t
<1>l. \A i \in 1 .. Len(deadLetters) : deadLetters[i].offset \in Nat
  BY LetterTyped DEF Inv, Letters
<1>d. UNCHANGED deadLetters
  BY DEF ReplayStep, ReplayProduces, ReplayCommits, ReplayStops
<1>1. CASE ReplayProduces
  <2>0. PICK k \in 1 .. Len(deadLetters) : k = replay.offset + 1
    BY <1>1, <1>t, <1>r DEF ReplayProduces
  <2>1. /\ replay.offset < Len(deadLetters)
        /\ replay'.offset = replay.offset /\ replay'.produced = TRUE
        /\ replay.lost \subseteq replay'.lost
    BY <1>1, <1>r DEF ReplayProduces
  <2>2. UNCHANGED topic \/ (\E e \in Events : topic' = Append(topic, e))
    BY <1>1, <2>0, LetterTyped DEF ReplayProduces, Inv, Letters
  <2>3. Kept(k)'
    <3>1. CASE topic' = Append(topic, deadLetters[k].event)
      <4>1. PICK e \in Events : e = deadLetters[k].event /\ topic' = Append(topic, e)
        BY <3>1, LetterTyped DEF Inv, Letters
      <4>2. Len(topic) + 1 \in DOMAIN topic' /\ topic'[Len(topic) + 1] = e
        BY <4>1, <1>t
      <4>3. deadLetters[k].offset <= Len(topic) /\ deadLetters[k].offset \in Nat
        BY <1>l DEF ReplayInv
      <4>4. Len(topic) + 1 > deadLetters'[k].offset /\ deadLetters'[k].event = e
        BY <4>1, <4>3, <1>d, <1>t
      <4> QED
        BY <4>2, <4>4 DEF Kept, Copied
    <3>2. CASE k \in replay'.lost
      BY <3>2 DEF Kept
    <3> QED
      BY <3>1, <3>2, <1>1, <1>r, <2>0 DEF ReplayProduces
  <2>4. \A i \in 1 .. replay.offset : Kept(i)'
    <3> SUFFICES ASSUME NEW i \in 1 .. replay.offset PROVE Kept(i)'
      OBVIOUS
    <3>1. i \in 1 .. Len(deadLetters) /\ Kept(i)
      BY <2>1, <1>t, <1>r DEF ReplayInv
    <3> QED
      BY <3>1, <2>1, <2>2, <1>0, <1>d, <1>t, StillCopied DEF Kept
  <2>5. \A i \in DOMAIN deadLetters' : deadLetters'[i].offset <= Len(topic')
    <3>1. Len(topic') \in Nat /\ Len(topic) <= Len(topic')
      BY <2>2, <1>t
    <3> QED
      BY <1>d, <1>l, <1>t, <3>1 DEF ReplayInv
  <2>6. k <= Len(deadLetters') /\ replay.offset <= Len(deadLetters')
    BY <2>0, <1>d, <1>t, <1>r
  <2> QED
    BY <2>0, <2>1, <2>3, <2>4, <2>5, <2>6 DEF ReplayInv, Kept, Copied
<1>2. CASE ReplayCommits
  <2>1. /\ UNCHANGED topic /\ replay.produced /\ replay'.lost = replay.lost
        /\ replay'.offset = replay.offset + 1 /\ replay'.produced = FALSE
    BY <1>2, <1>r DEF ReplayCommits
  <2>2. replay.offset + 1 <= Len(deadLetters) /\ Kept(replay.offset + 1)
    BY <2>1 DEF ReplayInv
  <2>3. \A i \in 1 .. replay.offset + 1 : Kept(i)
    BY <2>2, <1>r DEF ReplayInv
  <2> QED
    BY <2>1, <2>2, <2>3, <1>d DEF ReplayInv, Kept, Copied
<1>3. CASE ReplayStops
  <2>0. replay' = [replay EXCEPT !.produced = FALSE] /\ UNCHANGED topic
    BY <1>3 DEF ReplayStops
  <2>1. /\ UNCHANGED topic /\ replay'.offset = replay.offset /\ replay'.produced = FALSE
        /\ replay'.lost = replay.lost
    BY <2>0, <1>r
  <2> QED
    BY <2>1, <1>d DEF ReplayInv, Kept, Copied
<1> QED
  BY <1>1, <1>2, <1>3 DEF ReplayStep

LEMMA NextKeepsReplayInv ==
  ASSUME Inv, Inv', ReplayInv, [Next]_vars
  PROVE  ReplayInv'
<1>1. CASE ReplayStep
  BY <1>1, ReplayStepKeepsReplayInv
<1>2. CASE \E w \in Workers : PublishDeadLetter(w)
  <2> PICK w \in Workers : PublishDeadLetter(w)
    BY <1>2
  <2> DEFINE letter == [event |-> topic[worker[w].position],
                        offset |-> worker[w].position, attempts |-> worker[w].attempts]
  <2>1. /\ worker[w].pc = "deadLetter" /\ UNCHANGED <<topic, replay>>
        /\ \/ deadLetters' = Append(deadLetters, letter)
           \/ UNCHANGED deadLetters
    BY Zenon DEF PublishDeadLetter
  <2>2. /\ worker[w].position \in Nat /\ worker[w].position \in 1 .. Len(topic)
        /\ worker[w].attempts \in 1 .. MaxRetries + 1 /\ Len(topic) \in Nat
    <3>1. Busy(w) /\ w \in Workers
      BY <2>1 DEF Busy
    <3> QED
      BY <3>1, <2>1, WorkerFacts DEF WorkerStates
  <2>3. letter \in Letters /\ letter.offset <= Len(topic)
    <3>1. topic \in Seq(Events)
      BY DEF Inv, TypeOK
    <3> QED
      BY <2>2, <3>1 DEF Letters
  <2> HIDE DEF letter
  <2> QED
    BY <2>1, <2>3, OthersKeepReplayInv
<1>3. CASE (\E e \in Events : Publish(e)) \/ Revoke \/ UNCHANGED vars
           \/ \E w \in Workers : \/ Start(w) \/ Assign(w) \/ Crash(w)
                                 \/ Poll(w) \/ Project(w) \/ ProjectFails(w)
                                 \/ ProjectRejected(w) \/ Commit(w) \/ CommitFails(w)
                                 \/ CommitDeadLetter(w) \/ Fails(w)
  <2>1. /\ UNCHANGED <<deadLetters, replay>>
        /\ UNCHANGED topic \/ (\E e \in Events : topic' = Append(topic, e))
    BY <1>3 DEF Publish, Revoke, vars, Start, Assign, Crash, Poll, Project, ProjectFails,
       ProjectRejected, Dispatches, Commit, CommitFails, CommitDeadLetter, Fails
  <2> QED
    BY <2>1, OthersKeepReplayInv
<1> QED
  BY <1>1, <1>2, <1>3 DEF Next, WorkerStep

\* However often the replay script stops between its produce and its commit, every dead
\* letter it has committed whose copy the broker took each time is in the topic again,
\* behind the message it is a copy of; the others are lost, as the script commits without
\* a delivery report (replay_dead_letter_events.py).
THEOREM ReplayKeepsDeadLetters == Spec => []ReplayLosesNothing
<1>1. Init => ReplayInv
  BY DEF Init, ReplayInv
<1>2. Inv /\ Inv' /\ ReplayInv /\ [Next]_vars => ReplayInv'
  BY NextKeepsReplayInv
<1>3. ReplayInv => ReplayLosesNothing
  BY DEF ReplayInv, ReplayLosesNothing, Kept, Copied
<1> QED
  BY <1>1, <1>2, <1>3, DeliveryInvariant, PTL DEF Spec
=============================================================================
