-------------------------- MODULE ProjectionProofs --------------------------
(***************************************************************************)
(* Theorems about the vector targets of ProjectionTargets, for every       *)
(* scenario and any number of faults.  First what one source's worker does *)
(* to its points and ledger, as operators on values; then what the logs    *)
(* say of the manifest; then the invariant of the composition.             *)
(***************************************************************************)
EXTENDS IndexingManifestProofs, ProjectionTargets, FiniteSetTheorems

-----------------------------------------------------------------------------
(***************************************************************************)
(* The handlers.  There are four kinds.                                    *)
(***************************************************************************)
Replace == <<"check", "clear", "upsert", "recordAll">>
Replacing == <<"clear", "upsert", "recordAll">>
Refilling == <<"upsert", "recordAll">>
RecordingAll == <<"recordAll">>
Put == <<"check", "clear", "upsert", "recordOne">>
Putting == <<"clear", "upsert", "recordOne">>
RefillingOne == <<"upsert", "recordOne">>
RecordingOne == <<"recordOne">>
Prune == <<"check", "clearStale", "forgetStale">>
Pruning == <<"clearStale", "forgetStale">>
ForgettingStale == <<"forgetStale">>
Drop == <<"clear", "forgetAll">>
ForgettingAll == <<"forgetAll">>
Done == << >>

Kinds == {Replace, Put, Prune, Drop}

\* What is left of a handler that has not written yet, and of one that has.
Unbegun(kind) ==
  CASE kind = Replace -> {Replace, Replacing}
    [] kind = Put -> {Put, Putting}
    [] kind = Prune -> {Prune, Pruning}
    [] kind = Drop -> {Drop}
Midway(kind) ==
  CASE kind = Replace -> {Refilling, RecordingAll}
    [] kind = Put -> {RefillingOne, RecordingOne}
    [] kind = Prune -> {ForgettingStale}
    [] kind = Drop -> {ForgettingAll}

Left(kind) == Unbegun(kind) \cup Midway(kind) \cup {Done}

LEMMA HandlersAre ==
  /\ ProjectDocumentChunks = Replace /\ DropDocumentChunks = Drop
  /\ ProjectDocumentVector = Put /\ DropDocumentVector = Drop
  /\ ProjectDocumentSignals = Replace /\ DropDocumentSignals = Drop
  /\ ProjectFolderVector = Put /\ DropFolderVector = Drop
  /\ ProjectFolderSignals = Replace /\ DropFolderSignalVectors = Drop
  /\ InvalidateFolderSignals = Prune
<1>1. <<"check">> \o <<"clear", "upsert">> \o <<"recordAll">> = Replace
  <2> DEFINE l == <<"check">> \o <<"clear", "upsert">> \o <<"recordAll">>
             r == <<"check", "clear", "upsert", "recordAll">>
             E == {"check", "clear", "upsert", "recordAll"}
  <2>1. l \in Seq(E) /\ Len(l) = 4 /\ l[1] = "check" /\ l[2] = "clear" /\ l[3] = "upsert" /\ l[4] = "recordAll"
    OBVIOUS
  <2>2. r \in Seq(E) /\ Len(r) = 4 /\ r[1] = "check" /\ r[2] = "clear" /\ r[3] = "upsert" /\ r[4] = "recordAll"
    OBVIOUS
  <2> HIDE DEF l, r, E
  <2>3. l = r
    BY <2>1, <2>2
  <2> QED
    BY <2>3 DEF l, r, Replace
<1>2. <<"check">> \o <<"clear", "upsert">> \o <<"recordOne">> = Put
  <2> DEFINE l == <<"check">> \o <<"clear", "upsert">> \o <<"recordOne">>
             r == <<"check", "clear", "upsert", "recordOne">>
             E == {"check", "clear", "upsert", "recordOne"}
  <2>1. l \in Seq(E) /\ Len(l) = 4 /\ l[1] = "check" /\ l[2] = "clear" /\ l[3] = "upsert" /\ l[4] = "recordOne"
    OBVIOUS
  <2>2. r \in Seq(E) /\ Len(r) = 4 /\ r[1] = "check" /\ r[2] = "clear" /\ r[3] = "upsert" /\ r[4] = "recordOne"
    OBVIOUS
  <2> HIDE DEF l, r, E
  <2>3. l = r
    BY <2>1, <2>2
  <2> QED
    BY <2>3 DEF l, r, Put
<1>3. <<"check">> \o <<"clearStale">> \o <<"forgetStale">> = Prune
  <2> DEFINE l == <<"check">> \o <<"clearStale">> \o <<"forgetStale">>
             r == <<"check", "clearStale", "forgetStale">>
             E == {"check", "clearStale", "forgetStale"}
  <2>1. l \in Seq(E) /\ Len(l) = 3 /\ l[1] = "check" /\ l[2] = "clearStale" /\ l[3] = "forgetStale"
    OBVIOUS
  <2>2. r \in Seq(E) /\ Len(r) = 3 /\ r[1] = "check" /\ r[2] = "clearStale" /\ r[3] = "forgetStale"
    OBVIOUS
  <2> HIDE DEF l, r, E
  <2>3. l = r
    BY <2>1, <2>2
  <2> QED
    BY <2>3 DEF l, r, Prune
<1>4. <<"clear">> \o <<"forgetAll">> = Drop
  <2> DEFINE l == <<"clear">> \o <<"forgetAll">>
             r == <<"clear", "forgetAll">>
             E == {"clear", "forgetAll"}
  <2>1. l \in Seq(E) /\ Len(l) = 2 /\ l[1] = "clear" /\ l[2] = "forgetAll"
    OBVIOUS
  <2>2. r \in Seq(E) /\ Len(r) = 2 /\ r[1] = "clear" /\ r[2] = "forgetAll"
    OBVIOUS
  <2> HIDE DEF l, r, E
  <2>3. l = r
    BY <2>1, <2>2
  <2> QED
    BY <2>3 DEF l, r, Drop
<1>5. /\ ProjectDocumentChunks = Replace /\ ProjectDocumentSignals = Replace
      /\ ProjectFolderSignals = Replace
  BY <1>1, Zenon DEF ProjectDocumentChunks, ProjectDocumentSignals, ProjectFolderSignals,
     ReplaceDocumentChunks, ReplaceDocumentSignals, ReplaceFolderSignalPoints
<1>6. ProjectDocumentVector = Put /\ ProjectFolderVector = Put /\ InvalidateFolderSignals = Prune
  BY <1>2, <1>3, Zenon DEF ProjectDocumentVector, ProjectFolderVector, InvalidateFolderSignals,
     UpsertDocumentVector, UpsertFolderVector, DeleteStaleFolderSignals
<1>7. /\ DropDocumentChunks = Drop /\ DropDocumentVector = Drop /\ DropDocumentSignals = Drop
      /\ DropFolderVector = Drop /\ DropFolderSignalVectors = Drop
  BY <1>4, Zenon DEF DropDocumentChunks, DropDocumentVector, DropDocumentSignals,
     DropFolderVector, DropFolderSignalVectors, DeleteDocumentChunks, DeleteDocumentVector,
     DeleteDocumentSignals, DeleteFolderVector, DeleteFolderSignals
<1> QED
  BY <1>5, <1>6, <1>7

\* The steps of each handler, one after the other.
LEMMA StepsGoOn ==
  /\ Head(Replace) = "check" /\ Tail(Replace) = Replacing
  /\ Head(Replacing) = "clear" /\ Tail(Replacing) = Refilling
  /\ Head(Refilling) = "upsert" /\ Tail(Refilling) = RecordingAll
  /\ Head(RecordingAll) = "recordAll" /\ Tail(RecordingAll) = Done
  /\ Head(Put) = "check" /\ Tail(Put) = Putting
  /\ Head(Putting) = "clear" /\ Tail(Putting) = RefillingOne
  /\ Head(RefillingOne) = "upsert" /\ Tail(RefillingOne) = RecordingOne
  /\ Head(RecordingOne) = "recordOne" /\ Tail(RecordingOne) = Done
  /\ Head(Prune) = "check" /\ Tail(Prune) = Pruning
  /\ Head(Pruning) = "clearStale" /\ Tail(Pruning) = ForgettingStale
  /\ Head(ForgettingStale) = "forgetStale" /\ Tail(ForgettingStale) = Done
  /\ Head(Drop) = "clear" /\ Tail(Drop) = ForgettingAll
  /\ Head(ForgettingAll) = "forgetAll" /\ Tail(ForgettingAll) = Done
BY DEF Replace, Replacing, Refilling, RecordingAll, Put, Putting, RefillingOne, RecordingOne,
       Prune, Pruning, ForgettingStale, Drop, ForgettingAll, Done

LEMMA StepLengths ==
  /\ Len(Replace) = 4 /\ Len(Replacing) = 3 /\ Len(Refilling) = 2 /\ Len(RecordingAll) = 1
  /\ Len(Put) = 4 /\ Len(Putting) = 3 /\ Len(RefillingOne) = 2 /\ Len(RecordingOne) = 1
  /\ Len(Prune) = 3 /\ Len(Pruning) = 2 /\ Len(ForgettingStale) = 1
  /\ Len(Drop) = 2 /\ Len(ForgettingAll) = 1 /\ Len(Done) = 0
BY DEF Replace, Replacing, Refilling, RecordingAll, Put, Putting, RefillingOne, RecordingOne,
       Prune, Pruning, ForgettingStale, Drop, ForgettingAll, Done

\* No two of the kinds are the same, and what is left tells how far a handler is.
LEMMA KindsDiffer ==
  /\ Replace # Put /\ Replace # Prune /\ Replace # Drop
  /\ Put # Prune /\ Put # Drop /\ Prune # Drop
<1>1. Replacing # Refilling /\ Putting # Pruning
  BY StepsGoOn, StepLengths
<1> QED
  BY <1>1, StepsGoOn, StepLengths

LEMMA LeftIs ==
  /\ Unbegun(Replace) = {Replace, Replacing} /\ Midway(Replace) = {Refilling, RecordingAll}
  /\ Unbegun(Put) = {Put, Putting} /\ Midway(Put) = {RefillingOne, RecordingOne}
  /\ Unbegun(Prune) = {Prune, Pruning} /\ Midway(Prune) = {ForgettingStale}
  /\ Unbegun(Drop) = {Drop} /\ Midway(Drop) = {ForgettingAll}
BY KindsDiffer DEF Unbegun, Midway

LEMMA LeftDiffers ==
  ASSUME NEW kind \in Kinds
  PROVE  /\ Done \notin Unbegun(kind) \cup Midway(kind)
         /\ Unbegun(kind) \cap Midway(kind) = {}
         /\ kind \in Unbegun(kind)
<1>1. CASE kind = Replace
  <2>1. Replace # Done /\ Replacing # Done /\ Refilling # Done /\ RecordingAll # Done
    BY DEF Replace, Replacing, Refilling, RecordingAll, Done
  <2>2. Replace # Refilling /\ Replace # RecordingAll
    BY StepsGoOn
  <2>3. Replacing # Refilling /\ Replacing # RecordingAll
    BY StepsGoOn
  <2> QED
    BY <1>1, <2>1, <2>2, <2>3, LeftIs
<1>2. CASE kind = Put
  <2>1. Put # RefillingOne /\ Put # RecordingOne /\ Putting # RefillingOne /\ Putting # RecordingOne
    BY StepsGoOn
  <2>2. Put # Done /\ Putting # Done /\ RefillingOne # Done /\ RecordingOne # Done
    BY StepLengths
  <2> QED
    BY <1>2, <2>1, <2>2, LeftIs
<1>3. CASE kind = Prune
  BY SMTT(20), <1>3, StepLengths, LeftIs
<1>4. CASE kind = Drop
  BY <1>4, StepLengths, LeftIs
<1> QED
  BY <1>1, <1>2, <1>3, <1>4 DEF Kinds

\* The writes of each kind.
LEMMA WritesAre ==
  ASSUME NEW kind \in Kinds, NEW todo \in Left(kind), todo # Done
  PROVE  /\ Head(todo) = "check" => kind # Drop /\ todo = kind
         /\ Head(todo) # "check" =>
              \/ kind = Replace /\ todo \in {Replacing, Refilling, RecordingAll}
              \/ kind = Put /\ todo \in {Putting, RefillingOne, RecordingOne}
              \/ kind = Prune /\ todo \in {Pruning, ForgettingStale}
              \/ kind = Drop /\ todo \in {Drop, ForgettingAll}
<1>1. CASE kind = Replace
  BY <1>1, StepsGoOn, LeftIs, KindsDiffer DEF Left
<1>2. CASE kind = Put
  BY <1>2, StepsGoOn, LeftIs, KindsDiffer DEF Left
<1>3. CASE kind = Prune
  BY <1>3, StepsGoOn, LeftIs, KindsDiffer DEF Left
<1>4. CASE kind = Drop
  BY <1>4, StepsGoOn, LeftIs DEF Left
<1> QED
  BY <1>1, <1>2, <1>3, <1>4 DEF Kinds

\* A write goes on to what is left after a first write, and then to the end.
LEMMA WritesGoOn ==
  ASSUME NEW kind \in Kinds, NEW todo \in Left(kind), todo # Done, Head(todo) # "check"
  PROVE  /\ Tail(todo) \in Midway(kind) \cup {Done}
         /\ todo \in Unbegun(kind) => Tail(todo) \in Midway(kind)
         /\ todo = kind => kind = Drop
<1>1. CASE kind = Replace
  BY <1>1, StepsGoOn, LeftIs DEF Left
<1>2. CASE kind = Put
  BY <1>2, StepsGoOn, LeftIs DEF Left
<1>3. CASE kind = Prune
  BY <1>3, StepsGoOn, LeftIs DEF Left
<1>4. CASE kind = Drop
  BY <1>4, StepsGoOn, LeftIs DEF Left
<1> QED
  BY <1>1, <1>2, <1>3, <1>4 DEF Kinds

-----------------------------------------------------------------------------
(***************************************************************************)
(* One source's worker on values: kind and want are the handler and the    *)
(* points of each event the target consumes, by its place in the log; c is *)
(* the cursor, own and late the tasks, P the points and G the ledger.      *)
(***************************************************************************)
Later(kind, i) == \E j \in DOMAIN kind : j > i
Newest(kind, c, i) == \A j \in DOMAIN kind : i < j => c < j

\* The store holds what the i-th event says.
Agree(want, i, P, G) == P = (IF i = 0 THEN {} ELSE want[i]) /\ G = Records(P)

Settles(kind, want, i, P, G) == Later(kind, i) \/ Agree(want, i, P, G)

\* A task's steps are those left of its handler, and it writes what is a deletion or was
\* found current.
TaskOK(kind, task) ==
  /\ task.at \in DOMAIN kind /\ task.at \in Nat \ {0}
  /\ kind[task.at] \in Kinds /\ task.todo \in Left(kind[task.at])
  /\ task.todo \notin {kind[task.at], Done} /\ kind[task.at] # Drop => task.current

\* A worker that lost the partition is not ahead of its owner, and a replayed event was
\* handled before.
Placed(kind, c, own, late) ==
  /\ DOMAIN kind \subseteq Nat \ {0} /\ c \in DOMAIN kind \cup {0}
  /\ own # Idle => TaskOK(kind, own) /\ (own.replay => own.at <= c) /\ (~own.replay => c < own.at)
  /\ late # Idle => TaskOK(kind, late) /\ (late.at <= c \/ (own # Idle /\ late.at = own.at))

\* Between two writes of a handler the points are none or already the event's.
Half(want, task, P) ==
  P = IF task.todo \in {RecordingAll, RecordingOne} THEN want[task.at] ELSE {}

Kept(kind, want, c, own, P, G) ==
  /\ own = Idle => Settles(kind, want, c, P, G)
  /\ own # Idle =>
       /\ own.todo \in Unbegun(kind[own.at]) =>
            Newest(kind, c, own.at) \/ Settles(kind, want, c, P, G)
       /\ own.todo \in Midway(kind[own.at]) =>
            Newest(kind, c, own.at) /\ Half(want, own, P)
       /\ own.todo = Done => Settles(kind, want, IF own.replay THEN c ELSE own.at, P, G)

\* What a write does to a source that is in order.
Wrote(want, task, P, G, P2, G2) ==
  CASE Head(task.todo) = "clear" -> P2 = {} /\ G2 = G
    [] Head(task.todo) = "clearStale" -> P2 = {} /\ G2 = G
    [] Head(task.todo) = "upsert" -> P2 = want[task.at] /\ G2 = G
    [] Head(task.todo) \in {"recordAll", "recordOne"} -> P2 = P /\ G2 = Records(want[task.at])
    [] Head(task.todo) \in {"forgetAll", "forgetStale"} -> P2 = P /\ G2 = {}

LEMMA NoRecords == Records({}) = {}
BY DEF Records

\* A handler that begins anew was not begun.
LEMMA BeginKeeps ==
  ASSUME NEW kind, NEW want, NEW c, NEW own, NEW P, NEW G, NEW i \in DOMAIN kind, i \in Nat \ {0},
         NEW replay \in BOOLEAN, kind[i] \in Kinds,
         Newest(kind, c, i) \/ Settles(kind, want, c, P, G)
  PROVE  /\ Task(i, replay, kind[i]) # Idle
         /\ TaskOK(kind, Task(i, replay, kind[i]))
         /\ Kept(kind, want, c, Task(i, replay, kind[i]), P, G)
<1> DEFINE task == Task(i, replay, kind[i])
<1>1. /\ task.at = i /\ task.replay = replay /\ task.todo = kind[i] /\ task # Idle
  BY DEF Task, Idle
<1>2. task.todo \in Unbegun(kind[i]) /\ task.todo \notin Midway(kind[i]) /\ task.todo # Done
  BY <1>1, LeftDiffers
<1> HIDE DEF task
<1>3. TaskOK(kind, task)
  BY <1>1, <1>2 DEF TaskOK, Left
<1>4. Kept(kind, want, c, task, P, G)
  BY <1>1, <1>2 DEF Kept
<1> QED
  BY <1>1, <1>3, <1>4 DEF task

\* What the source's worker may be at any time it is begun again.
LEMMA BeganInOrder ==
  ASSUME NEW kind, NEW want, NEW c, NEW own, NEW late, NEW P, NEW G,
         Placed(kind, c, own, late), own # Idle, Kept(kind, want, c, own, P, G)
  PROVE  Newest(kind, c, own.at) \/ Settles(kind, want, c, P, G)
<1>1. TaskOK(kind, own) /\ (~own.replay => c < own.at) /\ c \in Nat /\ own.at \in Nat
  BY DEF Placed, TaskOK
<1>2. CASE ~own.replay
  BY <1>1, <1>2 DEF Newest, Placed
<1>3. CASE own.replay
  BY <1>1, <1>3 DEF Kept, TaskOK, Left
<1> QED
  BY <1>2, <1>3

\* An event that is handled again is the newest one handled, or is not written.
LEMMA NewestIsLast ==
  ASSUME NEW kind, NEW c, NEW own, NEW late, Placed(kind, c, own, late), own # Idle, own.replay,
         Newest(kind, c, own.at)
  PROVE  own.at = c
<1>1. own.at <= c /\ own.at \in Nat \ {0} /\ c \in DOMAIN kind \cup {0} /\ c \in Nat
  BY DEF Placed, TaskOK
<1> QED
  BY <1>1 DEF Newest

\* The owner writes, in order: it goes on from what its event left, or begins with a write
\* after which nothing else is there.
LEMMA OwnerWriteKeeps ==
  ASSUME NEW kind, NEW want, NEW c, NEW own, NEW late, NEW P, NEW G, NEW P2, NEW G2, NEW own2,
         Placed(kind, c, own, late), own # Idle, own.todo # Done, Head(own.todo) # "check",
         own.todo \in Midway(kind[own.at]) => Half(want, own, P),
         Newest(kind, c, own.at),
         kind[own.at] \in {Prune, Drop} => want[own.at] = {},
         Wrote(want, own, P, G, P2, G2),
         own2.at = own.at, own2.replay = own.replay, own2.todo = Tail(own.todo), own2 # Idle
  PROVE  Kept(kind, want, c, own2, P2, G2)
<1>1. TaskOK(kind, own) /\ kind[own.at] \in Kinds /\ own.todo \in Left(kind[own.at])
  BY DEF Placed, TaskOK
<1>2. own2.todo \in Midway(kind[own.at]) \cup {Done}
      /\ (own.todo \in Unbegun(kind[own.at]) => own2.todo \in Midway(kind[own.at]))
  BY <1>1, WritesGoOn
<1>3. /\ own2.todo \notin Unbegun(kind[own.at])
      /\ Done \notin Midway(kind[own.at])
  <2>1. Done \notin Unbegun(kind[own.at]) \cup Midway(kind[own.at])
        /\ Unbegun(kind[own.at]) \cap Midway(kind[own.at]) = {}
    BY <1>1, LeftDiffers
  <2> QED
    BY <1>2, <2>1
<1>7. \/ kind[own.at] = Replace /\ own.todo \in {Replacing, Refilling, RecordingAll}
      \/ kind[own.at] = Put /\ own.todo \in {Putting, RefillingOne, RecordingOne}
      \/ kind[own.at] = Prune /\ own.todo \in {Pruning, ForgettingStale}
      \/ kind[own.at] = Drop /\ own.todo \in {Drop, ForgettingAll}
  BY <1>1, WritesAre
<1>4. ASSUME own2.todo \in Midway(kind[own.at]) PROVE Half(want, own2, P2)
  <2>5. own2.todo # Done
    BY <1>3, <1>4
  <2>1. CASE kind[own.at] = Replace
    <3>1. own.todo = Replacing \/ own.todo = Refilling
      BY <1>7, <2>5, <2>1, KindsDiffer, StepsGoOn
    <3>2. CASE own.todo = Replacing
      BY <3>2, StepsGoOn DEF Wrote, Half
    <3>3. CASE own.todo = Refilling
      BY <3>3, StepsGoOn DEF Wrote, Half
    <3> QED
      BY <3>1, <3>2, <3>3
  <2>2. CASE kind[own.at] = Put
    <3>1. own.todo = Putting \/ own.todo = RefillingOne
      BY <1>7, <2>5, <2>2, KindsDiffer, StepsGoOn
    <3>2. CASE own.todo = Putting
      BY <3>2, StepsGoOn DEF Wrote, Half
    <3>3. CASE own.todo = RefillingOne
      BY <3>3, StepsGoOn DEF Wrote, Half
    <3> QED
      BY <3>1, <3>2, <3>3
  <2>3. CASE kind[own.at] = Prune
    <3>1. own.todo = Pruning
      BY <1>7, <2>5, <2>3, KindsDiffer, StepsGoOn
    <3> QED
      BY <3>1, StepsGoOn DEF Wrote, Half
  <2>4. CASE kind[own.at] = Drop
    <3>1. own.todo = Drop
      BY <1>7, <2>5, <2>4, KindsDiffer, StepsGoOn
    <3> QED
      BY <3>1, StepsGoOn DEF Wrote, Half
  <2> QED
    BY <1>1, <2>1, <2>2, <2>3, <2>4 DEF Kinds

<1>5. ASSUME own2.todo = Done PROVE P2 = want[own.at] /\ G2 = Records(P2)
  <2>1. own.todo \in Midway(kind[own.at]) /\ Half(want, own, P)
    BY <1>1, <1>2, <1>5, LeftDiffers DEF Left
  <2>2. own.todo \in {RecordingAll, RecordingOne, ForgettingStale, ForgettingAll}
    <3>1. Tail(Refilling) # Done /\ Tail(RefillingOne) # Done
      BY StepsGoOn, StepLengths
    <3> QED
      BY <1>1, <1>5, <2>1, <3>1, LeftIs DEF Kinds
  <2>3. CASE own.todo \in {RecordingAll, RecordingOne}
    BY <2>1, <2>3, StepsGoOn DEF Wrote, Half
  <2>4. CASE own.todo \in {ForgettingStale, ForgettingAll}
    <3>1. kind[own.at] \in {Prune, Drop}
      <4>1. Head(own.todo) \in {"forgetStale", "forgetAll"}
        BY <2>4, StepsGoOn
      <4>2. CASE kind[own.at] = Replace
        BY ZenonT(30), <2>1, <4>1, <4>2, LeftIs, StepsGoOn
      <4>3. CASE kind[own.at] = Put
        BY <2>1, <4>1, <4>3, LeftIs, StepsGoOn
      <4> QED
        BY <1>1, <4>2, <4>3 DEF Kinds
    <3>2. own.todo \notin {RecordingAll, RecordingOne}
      BY <2>4, StepsGoOn
    <3>3. P = {}
      BY <2>1, <3>2 DEF Half
    <3> QED
      BY <2>4, <3>1, <3>3, StepsGoOn, NoRecords DEF Wrote
  <2> QED
    BY <2>2, <2>3, <2>4
<1>6. ASSUME own2.todo = Done
      PROVE  Settles(kind, want, IF own2.replay THEN c ELSE own2.at, P2, G2)
  <2>1. own.at # 0 /\ (own.replay => own.at = c)
    BY <1>1, NewestIsLast DEF TaskOK
  <2> QED
    BY <1>5, <1>6, <2>1 DEF Settles, Agree
<1> QED
  BY <1>1, <1>2, <1>3, <1>4, <1>6, LeftDiffers DEF Kept

\* An event found out of date has a later one behind it.
LEMMA StaleKeeps ==
  ASSUME NEW kind, NEW want, NEW c, NEW own, NEW late, NEW P, NEW G, NEW own2,
         Placed(kind, c, own, late), own # Idle, own.todo = kind[own.at],
         Kept(kind, want, c, own, P, G), Later(kind, own.at),
         own2.at = own.at, own2.replay = own.replay, own2.todo = Done, own2 # Idle
  PROVE  Kept(kind, want, c, own2, P, G)
<1>1. TaskOK(kind, own) /\ kind[own.at] \in Kinds
  BY DEF Placed, TaskOK
<1>2. Newest(kind, c, own.at) \/ Settles(kind, want, c, P, G)
  BY BeganInOrder
<1>3. Newest(kind, c, own.at) => Later(kind, c)
  BY DEF Newest, Later, Placed
<1>4. Settles(kind, want, IF own.replay THEN c ELSE own.at, P, G)
  BY <1>2, <1>3 DEF Settles
<1> QED
  BY <1>1, <1>4, LeftDiffers DEF Kept

\* An event found current goes on to its first write.
LEMMA FreshKeeps ==
  ASSUME NEW kind, NEW want, NEW c, NEW own, NEW late, NEW P, NEW G, NEW own2,
         Placed(kind, c, own, late), own # Idle, own.todo \in Left(kind[own.at]),
         own.todo # Done, Head(own.todo) = "check", Kept(kind, want, c, own, P, G),
         own2.at = own.at, own2.replay = own.replay, own2.todo = Tail(own.todo), own2 # Idle
  PROVE  Kept(kind, want, c, own2, P, G)
<1>1. TaskOK(kind, own) /\ kind[own.at] \in Kinds
  BY DEF Placed, TaskOK
<1>2. own.todo = kind[own.at] /\ kind[own.at] # Drop
  BY <1>1, WritesAre
<1>4. own2.todo \in Unbegun(kind[own.at])
  <2>1. CASE kind[own.at] = Replace
    BY <1>2, <2>1, StepsGoOn, LeftIs
  <2>2. CASE kind[own.at] = Put
    BY <1>2, <2>2, StepsGoOn, LeftIs
  <2>3. CASE kind[own.at] = Prune
    BY <1>2, <2>3, StepsGoOn, LeftIs
  <2> QED
    BY <1>1, <1>2, <2>1, <2>2, <2>3 DEF Kinds
<1>3. Newest(kind, c, own.at) \/ Settles(kind, want, c, P, G)
  BY BeganInOrder
<1> QED
  BY <1>1, <1>3, <1>4, LeftDiffers DEF Kept

\* The offset is committed, and the events behind it settle.
LEMMA FinishKeeps ==
  ASSUME NEW kind, NEW want, NEW c, NEW own, NEW P, NEW G, own # Idle, own.todo = Done,
         NEW late, Placed(kind, c, own, late), Kept(kind, want, c, own, P, G)
  PROVE  Kept(kind, want, IF own.replay THEN c ELSE own.at, Idle, P, G)
BY DEF Kept

\* A worker that lost the partition writes while the owner has not begun the same event.
LEMMA LateWriteKeeps ==
  ASSUME NEW kind, NEW want, NEW c, NEW own, NEW late, NEW P, NEW G,
         Placed(kind, c, own, late), own # Idle, own.todo \in Unbegun(kind[own.at]),
         Newest(kind, c, own.at)
  PROVE  Kept(kind, want, c, own, P, G)
<1>1. kind[own.at] \in Kinds
  BY DEF Placed, TaskOK
<1> QED
  BY <1>1, LeftDiffers DEF Kept

\* A task's next step.
LEMMA StepOK ==
  ASSUME NEW kind, NEW task, NEW next, TaskOK(kind, task), task.todo # Done,
         next.at = task.at, next.todo = Tail(task.todo),
         IF Head(task.todo) = "check" THEN next.current ELSE next.current = task.current
  PROVE  TaskOK(kind, next)
<1>1. /\ kind[task.at] \in Kinds /\ task.todo \in Left(kind[task.at])
      /\ task.at \in DOMAIN kind /\ task.at \in Nat \ {0}
      /\ task.todo \notin {kind[task.at], Done} /\ kind[task.at] # Drop => task.current
  BY DEF TaskOK
<1>2. CASE Head(task.todo) = "check"
  <2>1. task.todo = kind[task.at] /\ kind[task.at] # Drop
    BY <1>1, <1>2, WritesAre
  <2>2. next.todo \in Left(kind[task.at])
    <3>1. CASE kind[task.at] = Replace
      BY <2>1, <3>1, StepsGoOn, LeftIs DEF Left
    <3>2. CASE kind[task.at] = Put
      BY <2>1, <3>2, StepsGoOn, LeftIs DEF Left
    <3>3. CASE kind[task.at] = Prune
      BY <2>1, <3>3, StepsGoOn, LeftIs DEF Left
    <3> QED
      BY <1>1, <2>1, <3>1, <3>2, <3>3 DEF Kinds
  <2> QED
    BY <1>1, <1>2, <2>2 DEF TaskOK
<1>3. CASE Head(task.todo) # "check"
  <2>1. /\ next.todo \in Midway(kind[task.at]) \cup {Done}
        /\ task.todo = kind[task.at] => kind[task.at] = Drop
    BY <1>1, <1>3, WritesGoOn
  <2>2. next.todo \in Left(kind[task.at])
    BY <2>1 DEF Left
  <2>3. next.todo \notin {kind[task.at], Done} /\ kind[task.at] # Drop => next.current
    BY <1>1, <1>3, <2>1
  <2> QED
    BY <1>1, <2>2, <2>3 DEF TaskOK
<1> QED
  BY <1>2, <1>3

\* The log grows.
LEMMA GrowthKeeps ==
  ASSUME NEW kind, NEW want, NEW kind2, NEW want2, NEW c, NEW own, NEW late, NEW P, NEW G,
         Placed(kind, c, own, late),
         \A i \in DOMAIN kind : i \in DOMAIN kind2 /\ kind2[i] = kind[i] /\ want2[i] = want[i],
         \A j \in DOMAIN kind2 \ DOMAIN kind :
           j \in Nat \ {0} /\ \A i \in DOMAIN kind : i < j
  PROVE  /\ Placed(kind2, c, own, late)
         /\ Kept(kind, want, c, own, P, G) => Kept(kind2, want2, c, own, P, G)
<1>1. \A task : TaskOK(kind, task) => TaskOK(kind2, task)
  BY DEF TaskOK
<1>2. DOMAIN kind \subseteq Nat \ {0} /\ c \in DOMAIN kind \cup {0} /\ c \in Nat
  BY DEF Placed
<1>3. DOMAIN kind2 \subseteq Nat \ {0} /\ c \in DOMAIN kind2 \cup {0}
  BY <1>2
<1>4. Placed(kind2, c, own, late)
  BY <1>1, <1>3 DEF Placed
<1>5. \A i \in DOMAIN kind \cup {0} :
        Settles(kind, want, i, P, G) => Settles(kind2, want2, i, P, G)
  BY <1>2 DEF Settles, Later, Agree
<1>6. \A j \in DOMAIN kind2 \ DOMAIN kind : c < j
  BY <1>2
<1>7. \A i : Newest(kind, c, i) => Newest(kind2, c, i)
  BY <1>6 DEF Newest
<1>8. ASSUME Kept(kind, want, c, own, P, G), own = Idle
      PROVE  Kept(kind2, want2, c, own, P, G)
  BY <1>2, <1>5, <1>8 DEF Kept
<1>9. ASSUME Kept(kind, want, c, own, P, G), own # Idle
      PROVE  Kept(kind2, want2, c, own, P, G)
  <2>1. own.at \in DOMAIN kind /\ kind2[own.at] = kind[own.at] /\ want2[own.at] = want[own.at]
    BY <1>9 DEF Placed, TaskOK
  <2>2. own.todo \in Unbegun(kind2[own.at]) =>
          Newest(kind2, c, own.at) \/ Settles(kind2, want2, c, P, G)
    BY <1>2, <1>5, <1>7, <1>9, <2>1 DEF Kept
  <2>3. own.todo \in Midway(kind2[own.at]) => Newest(kind2, c, own.at) /\ Half(want2, own, P)
    BY <1>7, <1>9, <2>1 DEF Kept, Half
  <2>4. own.todo = Done => Settles(kind2, want2, IF own.replay THEN c ELSE own.at, P, G)
    BY <1>2, <1>5, <1>9, <2>1 DEF Kept
  <2> QED
    BY <1>9, <2>2, <2>3, <2>4 DEF Kept
<1> QED
  BY <1>4, <1>8, <1>9

-----------------------------------------------------------------------------
(***************************************************************************)
(* The handlers of the events a vector target consumes, and their points.  *)
(***************************************************************************)
VectorTargets == {"chunks", "documents", "signals", "folders"}

KindOf(target, type) ==
  IF type \in Deletions THEN Drop
  ELSE IF type = "FOLDER_SIGNALS_INVALIDATED" THEN Prune
  ELSE IF target \in {"documents", "folders"} THEN Put ELSE Replace

LEMMA ConsumedIs ==
  /\ scenario.target = "chunks" => Consumed = ChunkEvents
  /\ scenario.target = "documents" => Consumed = DocumentVectorEvents
  /\ scenario.target = "signals" => Consumed = SignalEvents
  /\ scenario.target = "folders" => Consumed = FolderVectorEvents
<1>1. scenario.target = "chunks" => Consumed = ChunkEvents
  BY DEF Consumed
<1>2. scenario.target = "documents" => Consumed = DocumentVectorEvents
  BY DEF Consumed
<1>3. scenario.target = "signals" => Consumed = SignalEvents
  BY DEF Consumed
<1>4. scenario.target = "folders" => Consumed = FolderVectorEvents
  BY DEF Consumed
<1> QED
  BY <1>1, <1>2, <1>3, <1>4

LEMMA HandlerOf ==
  ASSUME scenario.target \in VectorTargets, NEW e, e.type \in Consumed
  PROVE  Steps(e) = KindOf(scenario.target, e.type) /\ Steps(e) \in Kinds
<1>1. Steps(e) = VectorSteps(e)
  BY DEF Steps, VectorTargets
<1>2. CASE scenario.target = "chunks"
  <2>1. e.type \in ChunkEvents /\ VectorSteps(e) = ChunkSteps(e)
    BY <1>2, ConsumedIs DEF VectorSteps
  <2> QED
    BY <1>1, <1>2, <2>1, HandlersAre DEF ChunkEvents, ChunkSteps, Deletions, Kinds, KindOf
<1>3. CASE scenario.target = "documents"
  <2>1. e.type \in DocumentVectorEvents /\ VectorSteps(e) = DocumentSteps(e)
    BY <1>3, ConsumedIs DEF VectorSteps
  <2> QED
    BY <1>1, <1>3, <2>1, HandlersAre DEF DocumentVectorEvents, DocumentSteps, Deletions, Kinds, KindOf
<1>4. CASE scenario.target = "folders"
  <2>1. e.type \in FolderVectorEvents /\ VectorSteps(e) = FolderSteps(e)
    BY <1>4, ConsumedIs DEF VectorSteps
  <2> QED
    BY <1>1, <1>4, <2>1, HandlersAre DEF FolderVectorEvents, FolderSteps, Deletions, Kinds, KindOf
<1>5. CASE scenario.target = "signals"
  <2>1. e.type \in SignalEvents
    BY <1>5, ConsumedIs
  <2>2. VectorSteps(e) = SignalSteps(e)
    BY <1>5 DEF VectorSteps
  <2>3. CASE e.type \in {"DOCUMENT_INDEXED", "DOCUMENT_DELETED"}
    BY <1>1, <1>5, <2>2, <2>3, HandlersAre DEF SignalSteps, DocumentSignalSteps, Deletions, Kinds, KindOf
  <2>4. CASE e.type \in {"FOLDER_SIGNALS_INDEXED", "FOLDER_SIGNALS_INVALIDATED", "FOLDER_DELETED"}
    BY <1>1, <1>5, <2>2, <2>4, HandlersAre DEF SignalSteps, FolderSignalSteps, Deletions, Kinds, KindOf
  <2> QED
    BY <2>1, <2>3, <2>4 DEF SignalEvents
<1> QED
  BY <1>2, <1>3, <1>4, <1>5 DEF VectorTargets

\* A document or a folder has one record in the targets of documents and of folders.
ItemOf == IF scenario.target = "documents" THEN "document" ELSE "folder"

LEMMA OneRecord ==
  ASSUME scenario.target \in {"documents", "folders"}, NEW e, e.type \in Consumed,
         e.type \notin Deletions
  PROVE  \E r : Records(PointsOf(e)) = {r} /\ r.item = ItemOf
<1>1. \E p : PointsOf(e) = {p} /\ p.item = ItemOf
  <2>1. CASE scenario.target = "documents"
    <3>1. e.type = "DOCUMENT_INDEXED"
      BY <2>1, ConsumedIs DEF DocumentVectorEvents, Deletions
    <3>2. PointsOf(e) = {DocumentVector(e)}
      BY <2>1, <3>1 DEF PointsOf
    <3>3. DocumentVector(e).item = ItemOf
      BY <2>1 DEF DocumentVector, ItemOf
    <3> QED
      BY <3>2, <3>3
  <2>2. CASE scenario.target = "folders"
    <3>1. e.type = "FOLDER_INDEXED"
      BY <2>2, ConsumedIs DEF FolderVectorEvents, Deletions
    <3>2. PointsOf(e) = {FolderVector(e)}
      BY <2>2, <3>1 DEF PointsOf
    <3>3. FolderVector(e).item = ItemOf
      BY <2>2 DEF FolderVector, ItemOf
    <3> QED
      BY <3>2, <3>3
  <2> QED
    BY <2>1, <2>2
<1>2. PICK p : PointsOf(e) = {p} /\ p.item = ItemOf
  BY <1>1
<1>3. Records({p}) = {Record(p)} /\ Record(p).item = p.item
  BY DEF Records, Record
<1> QED
  BY <1>2, <1>3

\* The points of a folder's signals are made of one input.
LEMMA OneDigest ==
  ASSUME scenario.target = "signals", NEW e, e.type = "FOLDER_SIGNALS_INDEXED"
  PROVE  /\ \A p \in PointsOf(e) : p.digest = e.input
         /\ \A r \in Records(PointsOf(e)) : r.digest = e.input
<1>1. PointsOf(e) = FolderSignalVectors(e)
  BY DEF PointsOf
<1>2. \A p \in PointsOf(e) : p.digest = e.input
  BY <1>1 DEF FolderSignalVectors
<1> QED
  BY <1>2 DEF Records, Record

-----------------------------------------------------------------------------
(***************************************************************************)
(* The write side of the composition takes the manifest's own steps, and   *)
(* announces signals.                                                      *)
(***************************************************************************)
CommitDocument(d) ==
  /\ ~NewestCommitted(d)
  /\ \/ \E x \in Extractions, v \in {Len(hostDocs[d].edits)} :
          v > 0 /\ (IndexDocument(d, v, x) \/ IndexBlankDocument(d, v))
     \/ DeleteDocument(d)
  /\ DocumentStep(d)

LEMMA PublishIs ==
  ASSUME TypeOK, scenario \in Scenario, Publish
  PROVE  HostStep
<1>1. /\ scenario.contents \subseteq Contents /\ scenario.snapshots \subseteq SUBSET Folders
      /\ scenario.folders \subseteq Folders /\ scenario.parents \subseteq Folders \cup {NoFolder}
      /\ scenario.labels \subseteq Labels
  BY DEF Scenario
<1>2. ASSUME NEW d \in Documents, NEW c \in scenario.contents, NEW snapshot \in Snapshots,
             PublishDocument(d, [content |-> c, snapshot |-> snapshot.given,
                                 folders |-> snapshot.folders,
                                 updatedAt |-> Len(hostDocs[d].edits) + 1])
      PROVE  HostStep
  <2>1. /\ snapshot.given \in BOOLEAN /\ snapshot.folders \in SUBSET Folders
        /\ snapshot.given \/ snapshot.folders = {}
    <3>1. CASE snapshot \in [given : {TRUE}, folders : scenario.snapshots]
      BY <1>1, <3>1
    <3>2. CASE snapshot \in [given : {FALSE}, folders : {{}}]
      BY <3>2
    <3>3. snapshot \in [given : {TRUE}, folders : scenario.snapshots]
          \/ snapshot \in [given : {FALSE}, folders : {{}}]
      BY DEF Snapshots
    <3> QED
      BY <3>1, <3>2, <3>3
  <2>2. Len(hostDocs[d].edits) + 1 \in NextUpdatedAt(hostDocs[d].edits)
    BY <1>2 DEF PublishDocument
  <2> QED
    BY <1>1, <1>2, <2>1, <2>2 DEF HostStep
<1>3. ASSUME NEW f \in scenario.folders, NEW p \in scenario.parents, NEW l \in scenario.labels,
             PublishFolder(f, [parent |-> p, label |-> l,
                               updatedAt |-> Len(hostFolders[f].edits) + 1])
      PROVE  HostStep
  <2>1. Len(hostFolders[f].edits) + 1 \in NextUpdatedAt(hostFolders[f].edits)
    BY <1>3 DEF PublishFolder
  <2> QED
    BY <1>1, <1>3, <2>1 DEF HostStep
<1> QED
  BY <1>2, <1>3 DEF Publish, HostStep

LEMMA WriteSideIs ==
  ASSUME TypeOK, scenario \in Scenario, WriteSide
  PROVE  /\ \/ HostStep
            \/ \E d \in Documents : CommitDocument(d)
            \/ \E f \in Folders : FolderStep(f)
            \/ \E f \in Folders : AnnounceFolderSignals(f)
         /\ untold' = untold \cup {f \in Folders : Live(f)' /\ ~InvalidationLogged(f)'}
         /\ UNCHANGED <<scenario, cursor, work, disturbed, faults>>
<1>1. /\ untold' = untold \cup {f \in Folders : Live(f)' /\ ~InvalidationLogged(f)'}
      /\ UNCHANGED <<scenario, cursor, work, disturbed, faults>>
  BY DEF WriteSide
<1>2. CASE Publish
  BY <1>1, <1>2, PublishIs
<1>3. CASE BuildSignals
  BY <1>1, <1>3 DEF BuildSignals, FolderStep
<1>4. CASE CommitRequest
  <2>1. ASSUME NEW d \in Documents, ~NewestCommitted(d),
               \/ \E v \in {Len(hostDocs[d].edits)}, x \in Extractions :
                     v > 0 /\ (IndexDocument(d, v, x) \/ IndexBlankDocument(d, v))
               \/ DeleteDocument(d)
        PROVE  CommitDocument(d)
    <3>1. hostDocs[d].edits \in Seq(DocumentEdit)
      BY DEF TypeOK, Host
    <3>2. Len(hostDocs[d].edits) > 0 => Len(hostDocs[d].edits) \in DOMAIN hostDocs[d].edits
      BY <3>1
    <3> QED
      BY <2>1, <3>2 DEF CommitDocument, DocumentStep
  <2>2. ASSUME NEW f \in Folders,
               \/ \E v \in {Len(hostFolders[f].edits)} : v > 0 /\ IndexFolder(f, v)
               \/ DeleteFolder(f)
        PROVE  FolderStep(f)
    <3>1. hostFolders[f].edits \in Seq(FolderEdit)
      BY DEF TypeOK, Host
    <3>2. Len(hostFolders[f].edits) > 0 => Len(hostFolders[f].edits) \in DOMAIN hostFolders[f].edits
      BY <3>1
    <3> QED
      BY <2>2, <3>2 DEF FolderStep
  <2> QED
    BY <1>1, <1>4, <2>1, <2>2 DEF CommitRequest
<1> QED
  BY <1>2, <1>3, <1>4 DEF WriteSide

\* Signals are announced while they are current.
LEMMA AnnouncedIsCurrent ==
  ASSUME ManifestInv, NEW f \in Folders, AnnounceFolderSignals(f)
  PROVE  /\ UNCHANGED <<hostVars, docVars, folderVars, signalBuild, docEvents>>
         /\ folderEvents' = [folderEvents EXCEPT
              ![f] = Append(@, FolderSignalsIndexed(folderSignals[f]))]
         /\ ~Has(folderEvents[f], FolderSignalsIndexed(folderSignals[f]))
         /\ FolderSignalsIndexed(folderSignals[f]) \in FolderEvents
         /\ Live(f) /\ folderSignals[f].input = folderIndex[f].signalInput
         /\ folderSignals[f] # None
<1>1. folderSignals[f] # None /\ folderSignals[f] \in SignalRows
  BY DEF AnnounceFolderSignals, SignalsUnannounced, ManifestInv, TypeOK
<1>2. folderIndex[f].live /\ folderSignals[f].input = SignalInput(f)
  BY <1>1 DEF ManifestInv, ReadySignalsAreCurrent
<1>3. Live(f) /\ folderSignals[f].input = folderIndex[f].signalInput
  BY <1>2 DEF ManifestInv, FolderDigestsFresh, ManifestConsistent
<1>4. FolderSignalsIndexed(folderSignals[f]) \in FolderEvents
  BY <1>1 DEF SignalRows, FolderSignalsIndexed, FolderEvents
<1>5. ~Has(folderEvents[f], FolderSignalsIndexed(folderSignals[f]))
  BY DEF AnnounceFolderSignals, SignalsUnannounced, Has
<1> QED
  BY <1>1, <1>3, <1>4, <1>5 DEF AnnounceFolderSignals

LEMMA WriteSideKeeps ==
  ASSUME ManifestInv, LogInv, scenario \in Scenario, WriteSide
  PROVE  ManifestInv' /\ LogInv'
<1>1. ~LateRequests /\ ~ReuseDeletedVersions
  BY FeedAssumption
<1>2. CASE Next
  BY <1>1, <1>2, NextInv, NextLogs
<1>3. ASSUME NEW f \in Folders, AnnounceFolderSignals(f)
      PROVE  ManifestInv' /\ LogInv'
  <2> DEFINE event == FolderSignalsIndexed(folderSignals[f])
  <2>1. /\ UNCHANGED <<hostVars, docVars, folderVars, signalBuild, docEvents>>
        /\ folderEvents' = [folderEvents EXCEPT ![f] = Append(@, event)]
        /\ ~Has(folderEvents[f], event) /\ event \in FolderEvents
    BY <1>3, AnnouncedIsCurrent
  <2>2. event.type = "FOLDER_SIGNALS_INDEXED"
    BY DEF FolderSignalsIndexed
  <2> HIDE DEF event
  <2>3. TypeOK' /\ VersionInv'
    BY <2>1 DEF LogInv, VersionInv, TypeOK, hostVars, docVars, folderVars
  <2>4. ManifestInv'
    BY <2>1, <2>3, TablesUnchanged
  <2>5. Logged(folderEvents[f], event) = Append(folderEvents[f], event)
    BY <2>1 DEF Logged, Has
  <2>6. FolderLog(hostFolders[f], folderSource[f], Append(folderEvents[f], event))
    BY <2>1, <2>2, <2>5, SignalEventKeepsFolderLog DEF LogInv, FolderTypes
  <2>7. folderEvents' = [g \in Folders |-> folderEvents'[g]]
    BY <2>1 DEF LogInv
  <2>8. \A g \in Folders : FolderLog(hostFolders'[g], folderSource'[g], folderEvents'[g])
    BY <2>1, <2>6 DEF LogInv, hostVars, folderVars
  <2>9. docEvents' = docEvents /\ UNCHANGED <<hostDocs, docSource, docIndex, member>>
    BY <2>1 DEF hostVars, docVars
  <2> QED
    BY <2>3, <2>4, <2>7, <2>8, <2>9 DEF LogInv
<1>4. Next \/ \E f \in Folders : AnnounceFolderSignals(f)
  <2>1. \A d \in Documents : CommitDocument(d) => DocumentStep(d)
    BY DEF CommitDocument
  <2> QED
    BY <2>1, WriteSideIs DEF Next, ManifestInv
<1> QED
  BY <1>2, <1>3, <1>4

\* A log that grows keeps what it holds.
Grows(log, new) ==
  /\ \A i \in DOMAIN log : i \in DOMAIN new /\ new[i] = log[i]
  /\ \A j \in DOMAIN new \ DOMAIN log : j \in Nat \ {0} /\ \A i \in DOMAIN log : i < j

LEMMA LoggedGrows ==
  ASSUME NEW E, NEW log \in Seq(E), NEW e \in E
  PROVE  /\ Grows(log, Logged(log, e)) /\ Logged(log, e) \in Seq(E)
         /\ Grows(log, Append(log, e))
<1>1. Grows(log, log)
  BY DEF Grows
<1> DEFINE new == Append(log, e)
<1>2. /\ new \in Seq(E) /\ DOMAIN new = 1..Len(log) + 1 /\ DOMAIN log = 1..Len(log)
      /\ Len(log) \in Nat
      /\ \A i \in 1..Len(log) : new[i] = log[i]
  OBVIOUS
<1> HIDE DEF new
<1>3. Grows(log, new)
  BY <1>2 DEF Grows
<1>4. Logged(log, e) = log \/ Logged(log, e) = new
  BY DEF Logged, new
<1> QED
  BY <1>1, <1>2, <1>3, <1>4 DEF new

LEMMA GrowsTwice ==
  ASSUME NEW E, NEW a \in Seq(E), NEW b \in Seq(E), NEW c \in Seq(E), Grows(a, b), Grows(b, c)
  PROVE  Grows(a, c)
<1>1. DOMAIN a = 1..Len(a) /\ DOMAIN b = 1..Len(b) /\ DOMAIN c = 1..Len(c)
      /\ Len(a) \in Nat /\ Len(b) \in Nat /\ Len(c) \in Nat
  OBVIOUS
<1> QED
  BY <1>1 DEF Grows

-----------------------------------------------------------------------------
(***************************************************************************)
(* What the logs say of the documents: each version is committed once, so  *)
(* the last event of a live document has the extraction that is stored.    *)
(***************************************************************************)
LastIsStored(d) ==
  docSource[d].live =>
    Ends(docEvents[d], ContentTypes,
         DocumentIndexed(docSource[d].version, docSource[d].content, docIndex[d].extraction))

LEMMA CommitKeepsLast ==
  ASSUME ManifestInv, LogInv, NEW d \in Documents, CommitDocument(d)
  PROVE  /\ LastIsStored(d)' /\ Grows(docEvents[d], docEvents'[d])
         /\ \A e \in Documents \ {d} : /\ docSource'[e] = docSource[e] /\ docIndex'[e] = docIndex[e]
                                     /\ docEvents'[e] = docEvents[e]
<1> DEFINE host == hostDocs[d]
           row == docSource[d]
           log == docEvents[d]
           n == Len(hostDocs[d].edits)
<1>1. /\ TypeOK /\ log \in Seq(DocumentEvents) /\ row.version \in 0..n /\ n \in Nat
      /\ \A e : Has(log, e) => e.version \in 1..row.version
      /\ host.edits \in Seq(DocumentEdit)
  <2>1. TypeOK /\ DocumentLog(host, row, docIndex[d], member[d], log)
    BY DEF LogInv, VersionInv
  <2>2. host.edits \in Seq(DocumentEdit)
    BY <2>1 DEF TypeOK, Host
  <2> QED
    BY <2>1, <2>2 DEF DocumentLog, RowOfHost, EventsOfHost
<1>2. ASSUME NEW x \in Extractions, n > 0, IndexDocument(d, n, x)
      PROVE  /\ LastIsStored(d)' /\ Grows(log, docEvents'[d])
             /\ \A e \in Documents \ {d} : /\ docSource'[e] = docSource[e]
                                         /\ docIndex'[e] = docIndex[e]
                                         /\ docEvents'[e] = docEvents[e]
  <2> DEFINE edit == host.edits[n]
             event == DocumentIndexed(n, edit.content, x)
             once == Logged(log, event)
  <2>1. edit \in DocumentEdit
    BY <1>1, <1>2
  <2>2. edit.content \in Contents /\ edit.folders \in SUBSET Folders
    BY <2>1 DEF DocumentEdit
  <2>3. event \in DocumentEvents /\ event.type = "DOCUMENT_INDEXED" /\ event.version = n
        /\ RelationsIndexed(n, edit.folders) \in DocumentEvents
        /\ RelationsIndexed(n, edit.folders).type = "DOCUMENT_FOLDER_RELATIONS_INDEXED"
    BY <1>1, <2>2, EventTypes
  <2>4. n > row.version
    <3>1. ~host.deleted
      BY <1>2, FeedAssumption DEF IndexDocument, MayIndex
    <3>2. row.version # n
      BY <3>1 DEF CommitDocument, NewestCommitted
    <3> QED
      BY <1>1, <3>2
  <2>5. ~Has(log, event)
    BY <1>1, <2>3, <2>4
  <2>6. docEvents' = [docEvents EXCEPT ![d] =
          IF edit.snapshot THEN Logged(once, RelationsIndexed(n, edit.folders)) ELSE once]
    BY <1>2 DEF IndexDocument
  <2>7. /\ docSource' = [docSource EXCEPT ![d] =
             [version |-> n, updatedAt |-> edit.updatedAt, content |-> edit.content, live |-> TRUE]]
        /\ docIndex' = [docIndex EXCEPT ![d] =
             [input |-> edit.content, extraction |-> x, live |-> TRUE]]
    BY <1>2 DEF IndexDocument
  <2>8. /\ docSource'[d].version = n /\ docSource'[d].content = edit.content
        /\ docIndex'[d].extraction = x
    BY <1>1, <2>7 DEF TypeOK
  <2> HIDE DEF log, event, edit
  <2>9. /\ once \in Seq(DocumentEvents) /\ Grows(log, once)
        /\ Ends(once, ContentTypes, event)
    <3>1. once \in Seq(DocumentEvents) /\ Grows(log, once)
      BY <1>1, <2>3, LoggedGrows
    <3>2. event.type \in ContentTypes
      BY <2>3 DEF ContentTypes
    <3>3. Ends(once, ContentTypes, event)
      BY <1>1, <2>3, <2>5, <3>2, NewEventEnds
    <3> QED
      BY <3>1, <3>3
  <2> DEFINE rel == RelationsIndexed(n, edit.folders)
             twice == Logged(once, rel)
  <2> HIDE DEF once
  <2>10. rel \in DocumentEvents /\ rel.type \notin ContentTypes
    BY <2>3 DEF ContentTypes
  <2> HIDE DEF rel
  <2>11. /\ twice \in Seq(DocumentEvents) /\ Grows(log, twice)
         /\ Ends(twice, ContentTypes, event)
    <3>1. twice \in Seq(DocumentEvents) /\ Grows(once, twice)
      BY <2>9, <2>10, LoggedGrows
    <3>2. Ends(twice, ContentTypes, event)
      BY <2>9, <2>10, OtherEventKeepsEnds
    <3>3. Grows(log, twice)
      BY <1>1, <2>9, <3>1, GrowsTwice
    <3> QED
      BY <3>1, <3>2, <3>3
  <2>12. docEvents'[d] = IF edit.snapshot THEN twice ELSE once
    BY <2>6 DEF LogInv, rel, once, twice
  <2>13. Grows(log, docEvents'[d]) /\ Ends(docEvents'[d], ContentTypes, event)
    BY <2>9, <2>11, <2>12
  <2>14. LastIsStored(d)'
    BY <2>8, <2>13 DEF LastIsStored, event
  <2>15. \A e \in Documents \ {d} : /\ docSource'[e] = docSource[e] /\ docIndex'[e] = docIndex[e]
                                  /\ docEvents'[e] = docEvents[e]
    BY <1>1, <2>6, <2>7 DEF TypeOK, LogInv
  <2> QED
    BY <2>13, <2>14, <2>15
<1>3. ASSUME NEW r, r.version \in Nat, Retract(d, r), [r EXCEPT !.live = FALSE].live = FALSE
      PROVE  /\ LastIsStored(d)' /\ Grows(log, docEvents'[d])
             /\ \A e \in Documents \ {d} : /\ docSource'[e] = docSource[e]
                                         /\ docIndex'[e] = docIndex[e]
                                         /\ docEvents'[e] = docEvents[e]
  <2>1. docSource'[d].live = FALSE /\ docEvents'[d] = Logged(log, DocumentDeleted(r.version))
    BY <1>1, <1>3 DEF Retract, TypeOK, LogInv
  <2>2. DocumentDeleted(r.version) \in DocumentEvents
    BY <1>3, EventTypes
  <2>3. Grows(log, docEvents'[d])
    BY <1>1, <2>1, <2>2, LoggedGrows
  <2>4. \A e \in Documents \ {d} : /\ docSource'[e] = docSource[e] /\ docIndex'[e] = docIndex[e]
                                 /\ docEvents'[e] = docEvents[e]
    BY <1>1, <1>3 DEF Retract, TypeOK, LogInv
  <2> QED
    BY <2>1, <2>3, <2>4 DEF LastIsStored
<1>4. ASSUME n > 0, IndexBlankDocument(d, n)
      PROVE  \E r : r.version \in Nat /\ Retract(d, r) /\ [r EXCEPT !.live = FALSE].live = FALSE
  BY <1>1, <1>4 DEF IndexBlankDocument
<1>5. ASSUME DeleteDocument(d)
      PROVE  \E r : r.version \in Nat /\ Retract(d, r) /\ [r EXCEPT !.live = FALSE].live = FALSE
  BY <1>1, <1>5 DEF DeleteDocument, TypeOK, DocumentRow
<1>6. \/ \E x \in Extractions : n > 0 /\ IndexDocument(d, n, x)
      \/ n > 0 /\ IndexBlankDocument(d, n)
      \/ DeleteDocument(d)
  BY DEF CommitDocument
<1> HIDE DEF log, n
<1>7. /\ LastIsStored(d)' /\ Grows(log, docEvents'[d])
      /\ \A e \in Documents \ {d} : /\ docSource'[e] = docSource[e] /\ docIndex'[e] = docIndex[e]
                                  /\ docEvents'[e] = docEvents[e]
  BY <1>2, <1>3, <1>4, <1>5, <1>6
<1> QED
  BY <1>7 DEF log

-----------------------------------------------------------------------------
(***************************************************************************)
(* What a folder's log says of its signals, to a worker that is told of    *)
(* every input.                                                            *)
(***************************************************************************)
SignalTypes == {"FOLDER_SIGNALS_INDEXED", "FOLDER_SIGNALS_INVALIDATED", "FOLDER_DELETED"}

InvalidatedLast(log, input) ==
  \E i \in DOMAIN log :
    /\ log[i].type = "FOLDER_SIGNALS_INVALIDATED" /\ log[i].input = input
    /\ \A j \in DOMAIN log : log[j].type = "FOLDER_SIGNALS_INVALIDATED" => j <= i

\* What is out of date is followed by another event of the signals.
Followed(log, live, input) ==
  \A i \in DOMAIN log :
    log[i].type \in {"FOLDER_SIGNALS_INDEXED", "FOLDER_SIGNALS_INVALIDATED"} =>
      \/ live /\ log[i].input = input
      \/ \E j \in DOMAIN log : j > i /\ log[j].type \in SignalTypes

\* Signals are announced after the invalidation of what was there before.
Preceded(log) ==
  \A i \in DOMAIN log : log[i].type = "FOLDER_SIGNALS_INDEXED" =>
    \E k \in DOMAIN log : /\ k < i /\ log[k].type = "FOLDER_SIGNALS_INVALIDATED"
                          /\ log[k].input = log[i].input

SignalLog(log, live, input) ==
  /\ live => InvalidatedLast(log, input)
  /\ Followed(log, live, input)
  /\ Preceded(log)

\* A deletion is the last of a deleted folder's signals.
Quiet(log, live) ==
  ~live => NoneOf(log, SignalTypes) \/ \E v \in Nat : Ends(log, SignalTypes, FolderDeleted(v))

Once(log) == \A i, j \in DOMAIN log : log[i] = log[j] => i = j

LEMMA LoggedOnce ==
  ASSUME NEW E, NEW log \in Seq(E), NEW e \in E, Once(log)
  PROVE  /\ Once(Logged(log, e))
         /\ ~Has(log, e) => Once(Append(log, e))
<1> DEFINE new == Append(log, e)
<1>1. /\ DOMAIN new = 1..Len(log) + 1 /\ DOMAIN log = 1..Len(log) /\ Len(log) \in Nat
      /\ new[Len(log) + 1] = e
      /\ \A i \in 1..Len(log) : new[i] = log[i]
  OBVIOUS
<1> HIDE DEF new
<1>2. ASSUME ~Has(log, e), NEW i \in DOMAIN new, NEW j \in DOMAIN new, new[i] = new[j]
      PROVE  i = j
  <2>1. \A k \in 1..Len(log) : log[k] # e
    BY <1>1, <1>2 DEF Has
  <2> QED
    BY <1>1, <1>2, <2>1 DEF Once
<1>3. ~Has(log, e) => Once(new)
  BY <1>2 DEF Once
<1> QED
  BY <1>3 DEF Logged, Has, new

\* A folder that is indexed says nothing of its signals.
SameSignals(log, new) ==
  /\ \A i \in DOMAIN log : i \in DOMAIN new /\ new[i] = log[i]
  /\ \A i \in DOMAIN new : new[i].type \in SignalTypes => i \in DOMAIN log

LEMMA OtherEventSameSignals ==
  ASSUME NEW E, NEW log \in Seq(E), NEW e \in E, e.type \notin SignalTypes
  PROVE  SameSignals(log, Logged(log, e))
<1> DEFINE new == Append(log, e)
<1>1. /\ DOMAIN new = 1..Len(log) + 1 /\ DOMAIN log = 1..Len(log) /\ Len(log) \in Nat
      /\ new[Len(log) + 1] = e
      /\ \A i \in 1..Len(log) : new[i] = log[i]
  OBVIOUS
<1> HIDE DEF new
<1>2. SameSignals(log, new)
  BY <1>1 DEF SameSignals
<1> QED
  BY <1>2 DEF Logged, SameSignals, new

LEMMA SameSignalsSay ==
  ASSUME NEW log, NEW new, SameSignals(log, new)
  PROVE  /\ \A input : InvalidatedLast(log, input) <=> InvalidatedLast(new, input)
         /\ \A live, input : Followed(log, live, input) <=> Followed(new, live, input)
         /\ Preceded(log) <=> Preceded(new)
<1> USE DEF SameSignals, SignalTypes
<1>1. ASSUME NEW input PROVE InvalidatedLast(log, input) <=> InvalidatedLast(new, input)
  BY DEF InvalidatedLast
<1>2. ASSUME NEW live, NEW input
      PROVE  Followed(log, live, input) <=> Followed(new, live, input)
  BY DEF Followed
<1>3. Preceded(log) <=> Preceded(new)
  BY DEF Preceded
<1> QED
  BY <1>1, <1>2, <1>3

\* A new event of the signals is last.
LEMMA NewSignalEvent ==
  ASSUME NEW E, NEW log \in Seq(E), NEW e \in E, ~Has(log, e), e.type \in SignalTypes,
         NEW live, NEW input, NEW live2, NEW input2,
         Preceded(log),
         e.type # "FOLDER_DELETED" => live2 /\ e.input = input2,
         e.type = "FOLDER_SIGNALS_INDEXED" => InvalidatedLast(log, e.input)
  PROVE  Followed(Append(log, e), live2, input2) /\ Preceded(Append(log, e))
<1> DEFINE new == Append(log, e)
           n == Len(log) + 1
<1>1. /\ DOMAIN new = 1..n /\ DOMAIN log = 1..Len(log) /\ Len(log) \in Nat
      /\ new[n] = e
      /\ \A i \in 1..Len(log) : new[i] = log[i]
  OBVIOUS
<1>2. n \in Nat /\ n \in DOMAIN new
      /\ (\A i \in DOMAIN new : i \in DOMAIN log \/ i = n)
      /\ \A i \in DOMAIN log : i < n /\ i \in DOMAIN new /\ new[i] = log[i]
  BY <1>1
<1> HIDE DEF new, n
<1>3. Followed(new, live2, input2)
  BY <1>1, <1>2 DEF Followed, SignalTypes
<1>4. Preceded(new)
  BY <1>1, <1>2 DEF Preceded, InvalidatedLast
<1> QED
  BY <1>3, <1>4 DEF new

\* An invalidation, which is dropped if its input was invalidated before; base is the log as
\* the operation has left it.
LEMMA InvalidationTells ==
  ASSUME NEW log \in Seq(FolderEvents), NEW base \in Seq(FolderEvents), SameSignals(log, base),
         NEW live \in BOOLEAN, NEW input, NEW input2 \in SignalInputs, SignalLog(log, live, input),
         InvalidatedLast(Logged(base, SignalsInvalidated(input2)), input2)
  PROVE  SignalLog(Logged(base, SignalsInvalidated(input2)), TRUE, input2)
<1> DEFINE e == SignalsInvalidated(input2)
<1>1. e \in FolderEvents /\ e.type = "FOLDER_SIGNALS_INVALIDATED" /\ e.input = input2
  BY FolderEventTypes DEF SignalsInvalidated
<1> HIDE DEF e
<1>2. Followed(base, live, input) /\ Preceded(base)
  BY SameSignalsSay DEF SignalLog
<1>3. CASE Has(base, e)
  <2>1. Logged(base, e) = base
    BY <1>1, <1>3, LoggedIsThere
  <2>2. InvalidatedLast(base, input2)
    BY <2>1 DEF e
  <2>3. CASE live
    <3>1. InvalidatedLast(base, input)
      BY <2>3, SameSignalsSay DEF SignalLog
    <3>2. \A i \in DOMAIN base : i \in Nat
      OBVIOUS
    <3>3. input = input2
      BY <2>2, <3>1, <3>2 DEF InvalidatedLast
    <3> QED
      BY <1>2, <2>1, <2>2, <2>3, <3>3 DEF SignalLog, e
  <2>4. CASE ~live
    <3>1. Followed(base, TRUE, input2)
      BY <1>2, <2>4 DEF Followed
    <3> QED
      BY <1>2, <2>1, <2>2, <3>1 DEF SignalLog, e
  <2> QED
    BY <2>3, <2>4
<1>4. CASE ~Has(base, e)
  <2>1. Logged(base, e) = Append(base, e)
    BY <1>4 DEF Logged, Has
  <2>2. Followed(Append(base, e), TRUE, input2) /\ Preceded(Append(base, e))
    BY <1>1, <1>2, <1>4, NewSignalEvent DEF SignalTypes
  <2> QED
    BY <2>1, <2>2 DEF SignalLog, e
<1> QED
  BY <1>3, <1>4

\* A deletion.
LEMMA DeletionTells ==
  ASSUME NEW log \in Seq(FolderEvents), NEW v \in Nat, ~Has(log, FolderDeleted(v)),
         Preceded(log), NEW input
  PROVE  /\ SignalLog(Logged(log, FolderDeleted(v)), FALSE, input)
         /\ Ends(Logged(log, FolderDeleted(v)), SignalTypes, FolderDeleted(v))
<1> DEFINE e == FolderDeleted(v)
<1>1. e \in FolderEvents /\ e.type = "FOLDER_DELETED"
  BY FolderEventTypes
<1> HIDE DEF e
<1>2. Logged(log, e) = Append(log, e)
  BY DEF Logged, Has, e
<1>3. e.type \in SignalTypes /\ ~Has(log, e)
  BY <1>1 DEF SignalTypes, e
<1>4. Followed(Append(log, e), FALSE, input) /\ Preceded(Append(log, e))
  BY <1>1, <1>3, NewSignalEvent
<1>5. Ends(Logged(log, e), SignalTypes, e)
  BY <1>1, <1>3, NewEventEnds
<1> QED
  BY <1>2, <1>4, <1>5 DEF SignalLog, e

\* Signals.
LEMMA AnnouncementTells ==
  ASSUME NEW log \in Seq(FolderEvents), NEW e \in FolderEvents, ~Has(log, e),
         e.type = "FOLDER_SIGNALS_INDEXED", SignalLog(log, TRUE, e.input)
  PROVE  SignalLog(Append(log, e), TRUE, e.input)
<1>1. InvalidatedLast(log, e.input) /\ Preceded(log)
  BY DEF SignalLog
<1>2. Followed(Append(log, e), TRUE, e.input) /\ Preceded(Append(log, e))
  BY <1>1, NewSignalEvent DEF SignalTypes
<1>3. SameSignals(log, log)
  BY DEF SameSignals
<1> DEFINE new == Append(log, e)
<1>4. /\ DOMAIN new = 1..Len(log) + 1 /\ DOMAIN log = 1..Len(log) /\ Len(log) \in Nat
      /\ new[Len(log) + 1] = e
      /\ \A i \in 1..Len(log) : new[i] = log[i]
  OBVIOUS
<1> HIDE DEF new
<1>5. \A i \in DOMAIN new : new[i].type = "FOLDER_SIGNALS_INVALIDATED" => i \in DOMAIN log
  BY <1>4
<1>6. InvalidatedLast(new, e.input)
  BY <1>1, <1>4, <1>5 DEF InvalidatedLast
<1> QED
  BY <1>2, <1>6 DEF SignalLog, new

\* What a step of the write side does to a folder's log.
FolderChange(f) ==
  \/ /\ folderEvents'[f] = folderEvents[f] /\ Live(f)' = Live(f)
     /\ folderIndex'[f].signalInput = folderIndex[f].signalInput
  \/ \E base \in Seq(FolderEvents) :
       /\ \/ base = folderEvents[f]
          \/ \E e \in FolderEvents : e.type = "FOLDER_INDEXED" /\ base = Logged(folderEvents[f], e)
       /\ folderEvents'[f] = Logged(base, SignalsInvalidated(folderIndex'[f].signalInput))
       /\ Live(f)'
  \/ /\ Live(f) /\ ~Live(f)'
     /\ folderEvents'[f] = Logged(folderEvents[f], FolderDeleted(folderSource[f].version))
  \/ /\ Live(f) /\ Live(f)' /\ folderIndex'[f].signalInput = folderIndex[f].signalInput
     /\ \E e \in FolderEvents :
          /\ e.type = "FOLDER_SIGNALS_INDEXED" /\ e.input = folderIndex[f].signalInput
          /\ folderSignals[f] # None /\ e = FolderSignalsIndexed(folderSignals[f])
          /\ ~Has(folderEvents[f], e) /\ folderEvents'[f] = Append(folderEvents[f], e)

LEMMA InvalidateChanges ==
  ASSUME NEW F, NEW index, NEW log, Invalidate(F, index, log), NEW f \in Folders
  PROVE  IF f \in F /\ index[f].live
         THEN folderEvents'[f] = Logged(log[f], SignalsInvalidated(folderIndex'[f].signalInput))
         ELSE folderEvents'[f] = log[f] /\ folderIndex'[f] = index[f]
<1> DEFINE pending == {g \in F : index[g].live}
<1>1. /\ folderEvents' = [g \in Folders |->
           IF g \in pending THEN Logged(log[g], SignalsInvalidated([h \in pending |-> SignalInput(h)'][g]))
           ELSE log[g]]
      /\ folderIndex' = [g \in Folders |->
           IF g \in pending
           THEN [live |-> TRUE, status |-> "pending", indexInput |-> IndexInput(g)',
                 signalInput |-> [h \in pending |-> SignalInput(h)'][g]]
           ELSE index[g]]
  BY DEF Invalidate
<1>2. f \in pending <=> f \in F /\ index[f].live
  OBVIOUS
<1> HIDE DEF pending
<1>3. CASE f \in pending
  <2>1. folderIndex'[f].signalInput = SignalInput(f)'
    BY <1>1, <1>3
  <2>2. folderEvents'[f] = Logged(log[f], SignalsInvalidated(SignalInput(f)'))
    BY <1>1, <1>3
  <2> QED
    BY <1>2, <1>3, <2>1, <2>2
<1>4. CASE f \notin pending
  BY <1>1, <1>2, <1>4
<1> QED
  BY <1>3, <1>4

\* A folder whose own row the step leaves alone.
LEMMA OtherFolderChanges ==
  ASSUME ManifestInv, LogInv, NEW F, NEW index, NEW log, Invalidate(F, index, log),
         NEW f \in Folders, index[f] = folderIndex[f], log[f] = folderEvents[f],
         folderSource'[f] = folderSource[f]
  PROVE  FolderChange(f)
<1>1. Live(f)' = Live(f) /\ folderEvents[f] \in Seq(FolderEvents)
  BY DEF Live, LogInv, FolderLog
<1>2. folderIndex[f].live => Live(f)
  BY DEF ManifestInv, ManifestConsistent
<1>3. CASE f \in F /\ index[f].live
  <2>1. folderEvents'[f] = Logged(folderEvents[f], SignalsInvalidated(folderIndex'[f].signalInput))
    BY <1>3, InvalidateChanges
  <2> QED
    BY <1>1, <1>2, <1>3, <2>1 DEF FolderChange
<1>4. CASE ~(f \in F /\ index[f].live)
  <2>1. folderEvents'[f] = folderEvents[f] /\ folderIndex'[f] = folderIndex[f]
    BY <1>4, InvalidateChanges
  <2> QED
    BY <1>1, <2>1 DEF FolderChange
<1> QED
  BY <1>3, <1>4

LEMMA FolderStepChanges ==
  ASSUME ManifestInv, LogInv, NEW g \in Folders, FolderStep(g), NEW f \in Folders
  PROVE  FolderChange(f)
<1> USE DEF ManifestInv
<1>1. ASSUME NEW v \in DOMAIN hostFolders[g].edits, IndexFolder(g, v) PROVE FolderChange(f)
  <2> DEFINE edit == hostFolders[g].edits[v]
             index == [folderIndex EXCEPT ![g].live = TRUE]
             event == FolderIndexed(v, edit.parent, edit.label)
             log == [folderEvents EXCEPT ![g] = Logged(@, event)]
             F == AffectedByUpsert(g, folderSource, folderSource')
  <2>1. Invalidate(F, index, log)
    BY <1>1 DEF IndexFolder
  <2>2. /\ \A h \in Folders \ {g} : folderSource'[h] = folderSource[h]
        /\ folderSource'[g].live = TRUE
    BY <1>1 DEF IndexFolder, TypeOK
  <2>3. CASE f # g
    <3>1. index[f] = folderIndex[f] /\ log[f] = folderEvents[f]
      BY <2>3 DEF TypeOK, LogInv
    <3> HIDE DEF F, index, log
    <3> QED
      BY <2>1, <2>2, <2>3, <3>1, OtherFolderChanges
  <2>4. CASE f = g
    <3>1. f \in F /\ index[f].live
      BY <2>4 DEF AffectedByUpsert, TypeOK, FolderIndexRow
    <3>2. log[f] = Logged(folderEvents[f], event)
      BY <2>4 DEF LogInv
    <3>3. hostFolders[g].edits \in Seq(FolderEdit)
      BY DEF TypeOK, Host
    <3>10. v \in Nat /\ edit \in FolderEdit
      BY <3>3
    <3>4. v \in Nat /\ edit.parent \in Folders \cup {NoFolder} /\ edit.label \in Labels
      BY <3>10 DEF FolderEdit
    <3> HIDE DEF edit
    <3>5. event \in FolderEvents /\ event.type = "FOLDER_INDEXED"
      BY <3>4, FolderEventTypes
    <3>6. folderEvents[f] \in Seq(FolderEvents)
      BY DEF LogInv, FolderLog
    <3> HIDE DEF F, index, log, event
    <3>7. log[f] \in Seq(FolderEvents)
      BY <3>2, <3>5, <3>6, LoggedIsThere
    <3>8. folderEvents'[f] = Logged(log[f], SignalsInvalidated(folderIndex'[f].signalInput))
      BY <2>1, <3>1, InvalidateChanges
    <3>9. Live(f)'
      BY <2>2, <2>4 DEF Live
    <3> QED
      BY <3>2, <3>5, <3>7, <3>8, <3>9 DEF FolderChange
  <2> QED
    BY <2>3, <2>4
<1>2. ASSUME DeleteFolder(g) PROVE FolderChange(f)
  <2> DEFINE index == [folderIndex EXCEPT ![g].live = FALSE]
             log == [folderEvents EXCEPT ![g] =
                       Logged(@, FolderDeleted(folderSource[g].version))]
             F == Ancestors(folderSource, {g})
  <2>1. Invalidate(F, index, log) /\ Live(g)
    BY <1>2 DEF DeleteFolder
  <2>2. /\ \A h \in Folders \ {g} : folderSource'[h] = folderSource[h]
        /\ folderSource'[g].live = FALSE
    BY <1>2 DEF DeleteFolder, TypeOK, FolderRow
  <2>3. CASE f # g
    <3>1. index[f] = folderIndex[f] /\ log[f] = folderEvents[f]
      BY <2>3 DEF TypeOK, LogInv
    <3> HIDE DEF F, index, log
    <3> QED
      BY <2>1, <2>2, <2>3, <3>1, OtherFolderChanges
  <2>4. CASE f = g
    <3>1. index[f].live = FALSE
      BY <2>4 DEF TypeOK, FolderIndexRow
    <3>2. log[f] = Logged(folderEvents[f], FolderDeleted(folderSource[f].version))
      BY <2>4 DEF LogInv
    <3> HIDE DEF F, index, log
    <3>3. folderEvents'[f] = log[f]
      BY <2>1, <3>1, InvalidateChanges
    <3> QED
      BY <2>1, <2>2, <2>4, <3>2, <3>3 DEF FolderChange, Live
  <2> QED
    BY <2>3, <2>4
<1>3. CASE StartFolderSignals(g)
  BY <1>3 DEF StartFolderSignals, FolderChange, folderVars, Live
<1>4. CASE ReplaceFolderSignals(g)
  <2>1. /\ UNCHANGED <<folderSource, folderEvents>>
        /\ folderIndex'[f].signalInput = folderIndex[f].signalInput
    <3>1. UNCHANGED <<folderSource, folderEvents>>
      BY <1>4 DEF ReplaceFolderSignals
    <3>2. folderIndex' = folderIndex \/ folderIndex' = [folderIndex EXCEPT ![g].status = "ready"]
      BY <1>4 DEF ReplaceFolderSignals
    <3> QED
      BY <3>1, <3>2 DEF TypeOK, FolderIndexRow
  <2> QED
    BY <2>1 DEF FolderChange, Live
<1> QED
  BY <1>1, <1>2, <1>3, <1>4 DEF FolderStep

-----------------------------------------------------------------------------
(***************************************************************************)
(* The invariant of the write side.                                        *)
(***************************************************************************)
FeedInv ==
  /\ ManifestInv /\ LogInv /\ scenario \in Scenario
  /\ \A d \in Documents : LastIsStored(d)
  /\ \A f \in Folders : /\ Once(folderEvents[f]) /\ Quiet(folderEvents[f], Live(f))
                        /\ f \notin untold =>
                             SignalLog(folderEvents[f], Live(f), folderIndex[f].signalInput)

\* A source's log grows.
LogsGrow == \A s \in Sources : Grows(Log(s), Log(s)')

LEMMA FolderChangeKeeps ==
  ASSUME FeedInv, TypeOK', NEW f \in Folders, FolderChange(f),
         f \notin untold' => f \notin untold /\ (Live(f)' => InvalidationLogged(f)')
  PROVE  /\ Once(folderEvents'[f]) /\ Quiet(folderEvents'[f], Live(f)')
         /\ f \notin untold' => SignalLog(folderEvents'[f], Live(f)', folderIndex'[f].signalInput)
         /\ Grows(folderEvents[f], folderEvents'[f])
<1> DEFINE log == folderEvents[f]
           input == folderIndex[f].signalInput
           input2 == folderIndex'[f].signalInput
           live == Live(f)
           Goal == /\ Once(folderEvents'[f]) /\ Quiet(folderEvents'[f], Live(f)')
                   /\ f \notin untold' =>
                        SignalLog(folderEvents'[f], Live(f)', folderIndex'[f].signalInput)
                   /\ Grows(folderEvents[f], folderEvents'[f])
<1>1. /\ log \in Seq(FolderEvents) /\ Once(log) /\ Quiet(log, live)
      /\ f \notin untold => SignalLog(log, live, input)
      /\ input2 \in SignalInputs /\ live \in BOOLEAN
      /\ folderSource[f].version \in Nat
  <2>1. folderIndex'[f] \in FolderIndexRow /\ folderSource[f] \in FolderRow
    BY DEF FeedInv, ManifestInv, TypeOK
  <2> QED
    BY <2>1 DEF FeedInv, LogInv, FolderLog, Live, FolderIndexRow, FolderRow
<1>2. f \notin untold' /\ Live(f)' => InvalidatedLast(folderEvents'[f], input2)
  <2>1. InvalidationLogged(f)' => InvalidatedLast(folderEvents'[f], input2)
    BY DEF InvalidationLogged, LastIs, InvalidatedLast
  <2> QED
    BY <2>1
<1>3. ASSUME folderEvents'[f] = log, Live(f)' = live, input2 = input PROVE Goal
  <2>1. Grows(log, log)
    BY DEF Grows
  <2> QED
    BY <1>1, <1>3, <2>1
<1>4. ASSUME NEW base \in Seq(FolderEvents),
             \/ base = log
             \/ \E e \in FolderEvents : e.type = "FOLDER_INDEXED" /\ base = Logged(log, e),
             folderEvents'[f] = Logged(base, SignalsInvalidated(input2)), Live(f)'
      PROVE  Goal
  <2> HIDE DEF log, input, input2, live
  <2>1. SignalsInvalidated(input2) \in FolderEvents
    BY <1>1, FolderEventTypes
  <2>2. Once(base) /\ SameSignals(log, base) /\ Grows(log, base)
    <3>1. CASE base = log
      BY <1>1, <3>1 DEF SameSignals, Grows
    <3>2. ASSUME NEW e \in FolderEvents, e.type = "FOLDER_INDEXED", base = Logged(log, e)
          PROVE  Once(base) /\ SameSignals(log, base) /\ Grows(log, base)
      <4>1. e.type \notin SignalTypes
        BY <3>2 DEF SignalTypes
      <4> QED
        BY <1>1, <3>2, <4>1, LoggedOnce, OtherEventSameSignals, LoggedGrows
    <3> QED
      BY <1>4, <3>1, <3>2
  <2>3. /\ Once(folderEvents'[f]) /\ Grows(base, folderEvents'[f])
        /\ folderEvents'[f] \in Seq(FolderEvents)
    BY <1>4, <2>1, <2>2, LoggedOnce, LoggedGrows
  <2>4. Grows(log, folderEvents'[f])
    BY <1>1, <2>2, <2>3, GrowsTwice
  <2>5. Quiet(folderEvents'[f], Live(f)')
    BY <1>4 DEF Quiet
  <2>6. ASSUME f \notin untold' PROVE SignalLog(folderEvents'[f], TRUE, input2)
    <3>1. SignalLog(log, live, input)
      BY <1>1, <2>6
    <3>2. InvalidatedLast(Logged(base, SignalsInvalidated(input2)), input2)
      BY <1>2, <1>4, <2>6
    <3>3. log \in Seq(FolderEvents) /\ live \in BOOLEAN /\ input2 \in SignalInputs
      BY <1>1
    <3>4. SameSignals(log, base)
      BY <2>2
    <3>5. SignalLog(Logged(base, SignalsInvalidated(input2)), TRUE, input2)
      BY <3>1, <3>2, <3>3, <3>4, InvalidationTells
    <3> QED
      BY <1>4, <3>5
  <2>7. Live(f)' = TRUE
    BY <1>4 DEF TypeOK, FolderRow, Live
  <2> QED
    BY <2>3, <2>4, <2>5, <2>6, <2>7 DEF log, input2
<1>5. ASSUME live, ~Live(f)',
             folderEvents'[f] = Logged(log, FolderDeleted(folderSource[f].version))
      PROVE  Goal
  <2> DEFINE v == folderSource[f].version
  <2>1. ~Has(log, FolderDeleted(v))
    <3>1. FolderDeleted(v).type = "FOLDER_DELETED" /\ FolderDeleted(v).version = v
      BY <1>1, FolderEventTypes
    <3>2. folderSource[f].live
      BY <1>5 DEF Live
    <3> QED
      BY <3>1, <3>2 DEF FeedInv, LogInv, FolderLog
  <2>2. v \in Nat /\ FolderDeleted(v) \in FolderEvents
    BY <1>1, FolderEventTypes
  <2>5. Live(f)' = FALSE
    BY <1>5 DEF TypeOK, FolderRow, Live
  <2> HIDE DEF log, input, input2, live, v
  <2>3. Once(folderEvents'[f]) /\ Grows(log, folderEvents'[f])
    BY <1>1, <1>5, <2>2, LoggedOnce, LoggedGrows DEF v
  <2>4. folderEvents'[f] = Logged(log, FolderDeleted(v))
    BY <1>5 DEF v
  <2>6. f \notin untold' => SignalLog(folderEvents'[f], FALSE, input2)
    BY <1>1, <2>1, <2>2, <2>4, DeletionTells DEF SignalLog
  <2>7. Quiet(folderEvents'[f], FALSE)
    <3>2. Ends(Logged(log, FolderDeleted(v)), SignalTypes, FolderDeleted(v))
      <4>1. FolderDeleted(v).type \in SignalTypes
        BY <2>2, FolderEventTypes DEF SignalTypes
      <4> QED
        BY <1>1, <2>1, <2>2, <4>1, NewEventEnds
    <3> QED
      BY <2>2, <2>4, <3>2 DEF Quiet
  <2> QED
    BY <2>3, <2>5, <2>6, <2>7 DEF log, input2
<1>6. ASSUME live, Live(f)', input2 = input, NEW e \in FolderEvents,
             e.type = "FOLDER_SIGNALS_INDEXED", e.input = input, ~Has(log, e),
             folderEvents'[f] = Append(log, e)
      PROVE  Goal
  <2>1. live = TRUE /\ Live(f)' = TRUE
    BY <1>1, <1>6 DEF TypeOK, FolderRow, Live
  <2> HIDE DEF log, input, input2, live
  <2>2. Once(folderEvents'[f]) /\ Grows(log, folderEvents'[f])
    BY <1>1, <1>6, LoggedOnce, LoggedGrows
  <2>3. f \notin untold' => SignalLog(folderEvents'[f], TRUE, input2)
    BY <1>1, <1>6, <2>1, AnnouncementTells
  <2>4. Quiet(folderEvents'[f], TRUE)
    BY DEF Quiet
  <2> QED
    BY <2>1, <2>2, <2>3, <2>4 DEF log, input2
<1> QED
  BY <1>3, <1>4, <1>5, <1>6 DEF FolderChange

\* What a step of the write side does to the logs of the folders.
LEMMA FolderChanges ==
  ASSUME FeedInv, WriteSide
  PROVE  \A f \in Folders : FolderChange(f)
<1>0. \/ HostStep
      \/ \E d \in Documents : CommitDocument(d)
      \/ \E f \in Folders : FolderStep(f)
      \/ \E f \in Folders : AnnounceFolderSignals(f)
  BY WriteSideIs DEF FeedInv, ManifestInv
<1>1. ASSUME NEW f \in Folders, UNCHANGED <<folderSource, folderIndex, folderEvents>>
      PROVE  FolderChange(f)
  BY <1>1 DEF FolderChange, Live
<1>2. CASE HostStep
  BY <1>1, <1>2 DEF HostStep, PublishDocument, PublishFolder, HostDeletes, HostRestores, folderVars
<1>3. ASSUME NEW d \in Documents, CommitDocument(d), NEW f \in Folders PROVE FolderChange(f)
  <2>1. UNCHANGED folderSource /\ \E F : Invalidate(F, folderIndex, folderEvents)
    BY <1>3 DEF CommitDocument, IndexDocument, IndexBlankDocument, DeleteDocument, Retract
  <2> QED
    BY <2>1, OtherFolderChanges DEF FeedInv
<1>4. ASSUME NEW g \in Folders, FolderStep(g), NEW f \in Folders PROVE FolderChange(f)
  BY <1>4, FolderStepChanges DEF FeedInv
<1>5. ASSUME NEW g \in Folders, AnnounceFolderSignals(g), NEW f \in Folders
      PROVE  FolderChange(f)
  <2> DEFINE e == FolderSignalsIndexed(folderSignals[g])
  <2>1. /\ UNCHANGED <<folderSource, folderIndex>>
        /\ folderEvents' = [folderEvents EXCEPT ![g] = Append(@, e)]
        /\ ~Has(folderEvents[g], e) /\ e \in FolderEvents
        /\ Live(g) /\ folderSignals[g].input = folderIndex[g].signalInput
        /\ folderSignals[g] # None
    BY <1>5, AnnouncedIsCurrent DEF FeedInv, folderVars
  <2>2. /\ e.type = "FOLDER_SIGNALS_INDEXED" /\ e.input = folderSignals[g].input
        /\ e = FolderSignalsIndexed(folderSignals[g])
    BY DEF FolderSignalsIndexed
  <2> HIDE DEF e
  <2>3. CASE f = g
    <3>1. folderEvents'[f] = Append(folderEvents[f], e)
      BY <2>1, <2>3 DEF FeedInv, LogInv
    <3> QED
      BY <2>1, <2>2, <2>3, <3>1 DEF FolderChange, Live
  <2>4. CASE f # g
    <3>1. folderEvents'[f] = folderEvents[f]
      BY <2>1, <2>4 DEF FeedInv, LogInv
    <3> QED
      BY <2>1, <3>1 DEF FolderChange, Live
  <2> QED
    BY <2>3, <2>4
<1> QED
  BY <1>0, <1>2, <1>3, <1>4, <1>5

LEMMA WriteSideKeepsFeed ==
  ASSUME FeedInv, WriteSide
  PROVE  FeedInv' /\ LogsGrow
<1>1. ManifestInv' /\ LogInv' /\ TypeOK' /\ scenario' = scenario
  <2>1. ManifestInv' /\ LogInv' /\ scenario' = scenario
    BY WriteSideKeeps DEF FeedInv, WriteSide
  <2> QED
    BY <2>1 DEF ManifestInv
<1>2. /\ \/ HostStep
         \/ \E d \in Documents : CommitDocument(d)
         \/ \E f \in Folders : FolderStep(f)
         \/ \E f \in Folders : AnnounceFolderSignals(f)
      /\ untold' = untold \cup {f \in Folders : Live(f)' /\ ~InvalidationLogged(f)'}
  BY WriteSideIs DEF FeedInv, ManifestInv
<1>3. \A f \in Folders : f \notin untold' =>
        f \notin untold /\ (Live(f)' => InvalidationLogged(f)')
  BY <1>2
<1>4. \A d \in Documents : LastIsStored(d)' /\ Grows(docEvents[d], docEvents'[d])
  <2>1. ASSUME UNCHANGED <<docSource, docIndex, docEvents>>, NEW d \in Documents
        PROVE  LastIsStored(d)' /\ Grows(docEvents[d], docEvents'[d])
    <3>1. LastIsStored(d)
      BY DEF FeedInv
    <3> QED
      BY <2>1, <3>1 DEF LastIsStored, Grows
  <2>2. CASE HostStep
    BY ZenonT(30), <2>1, <2>2 DEF HostStep, PublishDocument, PublishFolder, HostDeletes, HostRestores, docVars
  <2>3. ASSUME NEW f \in Folders, FolderStep(f)
        PROVE  UNCHANGED <<docSource, docIndex, docEvents>>
    BY <2>3 DEF FolderStep, IndexFolder, DeleteFolder, StartFolderSignals, ReplaceFolderSignals,
                docVars
  <2>4. ASSUME NEW f \in Folders, AnnounceFolderSignals(f)
        PROVE  UNCHANGED <<docSource, docIndex, docEvents>>
    BY <2>4 DEF AnnounceFolderSignals, docVars
  <2>5. ASSUME NEW c \in Documents, CommitDocument(c), NEW d \in Documents
        PROVE  LastIsStored(d)' /\ Grows(docEvents[d], docEvents'[d])
    <3>1. CASE d = c
      BY <2>5, <3>1, CommitKeepsLast DEF FeedInv
    <3>2. CASE d # c
      <4>1. /\ docSource'[d] = docSource[d] /\ docIndex'[d] = docIndex[d]
            /\ docEvents'[d] = docEvents[d]
        BY <2>5, <3>2, CommitKeepsLast DEF FeedInv
      <4>2. LastIsStored(d)
        BY DEF FeedInv
      <4> QED
        BY <4>1, <4>2 DEF LastIsStored, Grows
    <3> QED
      BY <3>1, <3>2
  <2> QED
    BY <1>2, <2>1, <2>2, <2>3, <2>4, <2>5
<1>5. \A f \in Folders : FolderChange(f)
  BY FolderChanges
<1>6. \A f \in Folders :
        /\ Once(folderEvents'[f]) /\ Quiet(folderEvents'[f], Live(f)')
        /\ f \notin untold' => SignalLog(folderEvents'[f], Live(f)', folderIndex'[f].signalInput)
        /\ Grows(folderEvents[f], folderEvents'[f])
  BY <1>1, <1>3, <1>5, FolderChangeKeeps
<1>7. LogsGrow
  BY <1>4, <1>6 DEF LogsGrow, Log, Sources
<1>8. scenario' \in Scenario
  BY <1>1 DEF FeedInv
<1> QED
  BY <1>1, <1>4, <1>6, <1>7, <1>8 DEF FeedInv

LEMMA HandlersKeepFeed ==
  ASSUME FeedInv, UNCHANGED <<vars, scenario, untold>>
  PROVE  FeedInv'
<1>1. /\ UNCHANGED <<hostDocs, hostFolders, docSource, docIndex, member, folderSource, folderIndex,
                     folderSignals, signalBuild, docEvents, folderEvents>>
      /\ scenario' = scenario /\ untold' = untold
  BY DEF vars, hostVars, docVars, folderVars
<1>2. ManifestInv' /\ LogInv'
  BY <1>1, NextInv, NextLogs, FeedAssumption DEF FeedInv
<1>3. \A d \in Documents : LastIsStored(d)'
  BY <1>1 DEF FeedInv, LastIsStored
<1>4. \A f \in Folders : Live(f)' = Live(f)
  BY <1>1 DEF Live
<1> QED
  BY <1>1, <1>2, <1>3, <1>4 DEF FeedInv

LEMMA InitFeed == ProjectionInit => FeedInv
<1> SUFFICES ASSUME ProjectionInit PROVE FeedInv
  OBVIOUS
<1>1. Init /\ scenario \in Scenarios
  BY DEF ProjectionInit, FeedInit
<1>2. ManifestInv /\ LogInv /\ scenario \in Scenario
  BY <1>1, InitInv, InitLogs, FeedAssumption
<1>3. \A d \in Documents : LastIsStored(d)
  BY <1>1 DEF Init, LastIsStored
<1>4. ASSUME NEW f \in Folders
      PROVE  /\ Once(folderEvents[f]) /\ Quiet(folderEvents[f], Live(f))
             /\ SignalLog(folderEvents[f], Live(f), folderIndex[f].signalInput)
  <2>1. folderEvents[f] = << >> /\ ~Live(f)
    BY <1>1 DEF Init, Live
  <2>2. DOMAIN << >> = {}
    OBVIOUS
  <2> QED
    BY <2>1, <2>2 DEF Once, Quiet, NoneOf, SignalLog, Followed, Preceded
<1> QED
  BY <1>2, <1>3, <1>4 DEF FeedInv

-----------------------------------------------------------------------------
(***************************************************************************)
(* The invariant of the composition.                                       *)
(***************************************************************************)
PointsFor(target, e) ==
  CASE e.type = "FOLDER_SIGNALS_INDEXED" -> FolderSignalVectors(e)
    [] e.type = "FOLDER_INDEXED" -> {FolderVector(e)}
    [] target = "chunks" -> ChunkVectors(e)
    [] target = "documents" -> {DocumentVector(e)}
    [] OTHER -> DocumentSignalVectors(e)
WantFor(target, e) ==
  IF e.type \in Deletions \cup {"FOLDER_SIGNALS_INVALIDATED"} THEN {} ELSE PointsFor(target, e)

KindAt(s) == [i \in ConsumedAt(s) |-> KindOf(scenario.target, Log(s)[i].type)]
WantAt(s) == [i \in ConsumedAt(s) |-> WantFor(scenario.target, Log(s)[i])]

\* One item is all that the ledger has of a source in the collections of documents and of
\* folders; the collection itself may hold a point for each of its texts.
OneItem(target, G) ==
  target \in {"documents", "folders"} =>
    \A r \in G : r.item = IF target = "documents" THEN "document" ELSE "folder"

\* What the store holds of a folder's signals was in an event that a worker has handled.
Sourced(log, C, c, own, P, G) ==
  \A r \in P \cup G : \E j \in C : /\ log[j].type = "FOLDER_SIGNALS_INDEXED"
                                   /\ log[j].input = r.digest
                                   /\ j <= c \/ j <= own.at

SourceInv(s) ==
  /\ Placed(KindAt(s), cursor[s], work[s].owner, work[s].late)
  /\ OneItem(scenario.target, ledger[s])
  /\ scenario.target = "signals" /\ s \in Folders =>
       Sourced(Log(s), ConsumedAt(s), cursor[s], work[s].owner, points[s], ledger[s])
  /\ s \notin disturbed /\ Told(s) =>
       Kept(KindAt(s), WantAt(s), cursor[s], work[s].owner, points[s], ledger[s])

Todos == {<< >>} \cup UNION {Left(kind) : kind \in Kinds}
Tasks == [at : Nat, replay : BOOLEAN, todo : Todos, current : BOOLEAN]

Shapes ==
  /\ cursor \in [Sources -> Nat]
  /\ work \in [Sources -> [Slots -> Tasks]]
  /\ points = [s \in Sources |-> points[s]]
  /\ ledger = [s \in Sources |-> ledger[s]]

ProjInv ==
  /\ FeedInv /\ untold \subseteq Folders
  /\ scenario.target \in VectorTargets => Shapes /\ \A s \in Sources : SourceInv(s)

LEMMA TasksAre ==
  /\ Idle \in Tasks
  /\ \A i \in Nat, replay \in BOOLEAN, kind \in Kinds : Task(i, replay, kind) \in Tasks
  /\ \A todo \in Todos : todo # Done => Tail(todo) \in Todos
<1>1. Idle \in Tasks
  BY DEF Idle, Tasks, Todos
<1>2. \A kind \in Kinds : kind \in Todos
  BY LeftDiffers DEF Todos, Left
<1>3. \A i \in Nat, replay \in BOOLEAN, kind \in Kinds : Task(i, replay, kind) \in Tasks
  BY <1>2 DEF Task, Tasks
<1>4. ASSUME NEW todo \in Todos, todo # Done PROVE Tail(todo) \in Todos
  <2>1. PICK kind \in Kinds : todo \in Left(kind)
    BY <1>4 DEF Todos, Done
  <2>2. CASE Head(todo) # "check"
    BY <1>4, <2>1, <2>2, WritesGoOn DEF Todos, Left
  <2>3. CASE Head(todo) = "check"
    <3>1. todo = kind /\ kind # Drop
      BY <1>4, <2>1, <2>3, WritesAre
    <3>2. CASE kind = Replace
      <4>1. Tail(todo) = Replacing /\ Replacing \in Left(kind)
        BY <3>1, <3>2, StepsGoOn, LeftIs DEF Left
      <4> QED
        BY <4>1 DEF Todos
    <3>3. CASE kind = Put
      <4>1. Tail(todo) = Putting /\ Putting \in Left(kind)
        BY <3>1, <3>3, StepsGoOn, LeftIs DEF Left
      <4> QED
        BY <4>1 DEF Todos
    <3>4. CASE kind = Prune
      <4>1. Tail(todo) = Pruning /\ Pruning \in Left(kind)
        BY <3>1, <3>4, StepsGoOn, LeftIs DEF Left
      <4> QED
        BY <4>1 DEF Todos
    <3> QED
      BY <2>1, <3>1, <3>2, <3>3, <3>4 DEF Kinds
  <2> QED
    BY <2>2, <2>3
<1> QED
  BY <1>1, <1>3, <1>4

\* The owner and the worker that lost the partition.
LEMMA SetTaskIs ==
  ASSUME Shapes, NEW s \in Sources, NEW slot \in Slots, NEW task \in Tasks, SetTask(s, slot, task)
  PROVE  /\ work' \in [Sources -> [Slots -> Tasks]]
         /\ slot = "owner" => work'[s].owner = task /\ work'[s].late = work[s].late
         /\ slot = "late" => work'[s].late = task /\ work'[s].owner = work[s].owner
         /\ \A t \in Sources \ {s} : work'[t] = work[t]
BY DEF Shapes, SetTask, Slots

LEMMA WorkIs ==
  ASSUME Shapes, NEW s \in Sources
  PROVE  /\ work[s].owner \in Tasks /\ work[s].late \in Tasks
         /\ work[s]["owner"] = work[s].owner /\ work[s]["late"] = work[s].late
BY DEF Shapes, Slots

-----------------------------------------------------------------------------
(***************************************************************************)
(* A source's events, as its worker sees them.                             *)
(***************************************************************************)
LEMMA EventsAre ==
  ASSUME FeedInv, scenario.target \in VectorTargets, NEW s \in Sources
  PROVE  /\ ConsumedAt(s) \subseteq Nat \ {0}
         /\ DOMAIN KindAt(s) = ConsumedAt(s)
         /\ \A i \in ConsumedAt(s) :
              /\ i \in DOMAIN Log(s) /\ Log(s)[i].type \in Consumed
              /\ KindAt(s)[i] = KindOf(scenario.target, Log(s)[i].type)
              /\ KindAt(s)[i] = StepsAt(s, i) /\ KindAt(s)[i] \in Kinds
              /\ WantAt(s)[i] = WantFor(scenario.target, Log(s)[i])
<1>1. DOMAIN Log(s) \subseteq Nat \ {0}
  <2>1. CASE s \in Documents
    <3>1. docEvents[s] \in Seq(DocumentEvents)
      BY <2>1 DEF FeedInv, LogInv, DocumentLog
    <3> QED
      BY <2>1, <3>1 DEF Log
  <2>2. CASE s \notin Documents
    <3>1. folderEvents[s] \in Seq(FolderEvents)
      BY <2>2 DEF FeedInv, LogInv, FolderLog, Sources
    <3> QED
      BY <2>2, <3>1 DEF Log
  <2> QED
    BY <2>1, <2>2
<1>2. \A i \in ConsumedAt(s) : i \in DOMAIN Log(s) /\ Log(s)[i].type \in Consumed
  BY DEF ConsumedAt
<1>3. \A i \in ConsumedAt(s) : /\ StepsAt(s, i) = KindOf(scenario.target, Log(s)[i].type)
                               /\ StepsAt(s, i) \in Kinds
  BY <1>2, HandlerOf DEF StepsAt
<1>4. /\ DOMAIN KindAt(s) = ConsumedAt(s)
      /\ \A i \in ConsumedAt(s) : /\ KindAt(s)[i] = KindOf(scenario.target, Log(s)[i].type)
                                  /\ WantAt(s)[i] = WantFor(scenario.target, Log(s)[i])
  BY DEF KindAt, WantAt
<1> QED
  BY <1>1, <1>2, <1>3, <1>4

\* What is wanted of an event, by its kind.
LEMMA WantIs ==
  ASSUME scenario.target \in VectorTargets, NEW e, NEW kind,
         kind = KindOf(scenario.target, e.type)
  PROVE  /\ kind = Drop <=> e.type \in Deletions
         /\ kind = Prune <=> e.type = "FOLDER_SIGNALS_INVALIDATED"
         /\ kind \in {Prune, Drop} => WantFor(scenario.target, e) = {}
         /\ kind \in {Replace, Put} => WantFor(scenario.target, e) = PointsOf(e)
         /\ kind = Put => scenario.target \in {"documents", "folders"}
<1>1. /\ kind = Drop <=> e.type \in Deletions
      /\ kind = Prune <=> e.type = "FOLDER_SIGNALS_INVALIDATED"
      /\ kind = Put => scenario.target \in {"documents", "folders"}
  BY KindsDiffer DEF KindOf, Deletions
<1>2. kind \in {Prune, Drop} => WantFor(scenario.target, e) = {}
  BY <1>1 DEF WantFor
<1>3. PointsFor(scenario.target, e) = PointsOf(e)
  BY DEF PointsFor, PointsOf
<1>4. kind \in {Replace, Put} => WantFor(scenario.target, e) = PointsOf(e)
  BY <1>1, <1>3, KindsDiffer DEF WantFor
<1> QED
  BY <1>1, <1>2, <1>4

\* The writes of each kind of handler: all of it but the check.
LEMMA WritesOf ==
  ASSUME NEW e, Steps(e) \in Kinds
  PROVE  /\ Steps(e) = Replace => Writes(e) = Replacing
         /\ Steps(e) = Put => Writes(e) = Putting
         /\ Steps(e) = Prune => Writes(e) = Pruning
         /\ Steps(e) = Drop => Writes(e) = Drop
         /\ Writes(e) \in Unbegun(Steps(e))
         /\ \A todo \in Left(Steps(e)) : /\ Len(todo) >= Len(Writes(e)) => todo \in Unbegun(Steps(e))
                                         /\ todo \in Midway(Steps(e)) => Len(todo) < Len(Writes(e))
<1>1. /\ Steps(e) = Replace => Writes(e) = Replacing
      /\ Steps(e) = Put => Writes(e) = Putting
      /\ Steps(e) = Prune => Writes(e) = Pruning
      /\ Steps(e) = Drop => Writes(e) = Drop
  BY StepsGoOn DEF Writes
<1> DEFINE Goal(kind) == /\ Writes(e) \in Unbegun(kind)
         /\ \A todo \in Left(kind) : /\ Len(todo) >= Len(Writes(e)) => todo \in Unbegun(kind)
                                     /\ todo \in Midway(kind) => Len(todo) < Len(Writes(e))
<1>2. CASE Steps(e) = Replace
  <2>2. Writes(e) = Replacing /\ Left(Replace) = Unbegun(Replace) \cup Midway(Replace) \cup {Done}
    BY <1>1, <1>2 DEF Left
  <2>3. \A todo \in Midway(Replace) \cup {Done} : Len(todo) = 0 \/ Len(todo) = 1 \/ Len(todo) = 2
    BY StepLengths, LeftIs
  <2>4. \A todo \in Midway(Replace) \cup {Done} : Len(todo) < 3 /\ ~(Len(todo) >= 3)
    <3> TAKE todo \in Midway(Replace) \cup {Done}
    <3>1. CASE Len(todo) = 0
      BY <3>1
    <3>2. CASE Len(todo) = 1
      BY <3>2
    <3>3. CASE Len(todo) = 2
      BY <3>3
    <3> QED
      BY <2>3, <3>1, <3>2, <3>3
  <2>6. Len(Writes(e)) = 3
    BY <2>2, StepLengths
  <2>5. Replacing \in Unbegun(Replace)
    BY LeftIs
  <2>1. Goal(Replace)
    BY <2>2, <2>4, <2>5, <2>6
  <2> QED
    BY <1>1, <1>2, <2>1
<1>3. CASE Steps(e) = Put
  <2>2. Writes(e) = Putting /\ Left(Put) = Unbegun(Put) \cup Midway(Put) \cup {Done}
    BY <1>1, <1>3 DEF Left
  <2>3. \A todo \in Midway(Put) \cup {Done} : Len(todo) = 0 \/ Len(todo) = 1 \/ Len(todo) = 2
    BY StepLengths, LeftIs
  <2>4. \A todo \in Midway(Put) \cup {Done} : Len(todo) < 3 /\ ~(Len(todo) >= 3)
    <3> TAKE todo \in Midway(Put) \cup {Done}
    <3>1. CASE Len(todo) = 0
      BY <3>1
    <3>2. CASE Len(todo) = 1
      BY <3>2
    <3>3. CASE Len(todo) = 2
      BY <3>3
    <3> QED
      BY <2>3, <3>1, <3>2, <3>3
  <2>6. Len(Writes(e)) = 3
    BY <2>2, StepLengths
  <2>5. Putting \in Unbegun(Put)
    BY LeftIs
  <2>1. Goal(Put)
    BY <2>2, <2>4, <2>5, <2>6
  <2> QED
    BY <1>1, <1>3, <2>1
<1>4. CASE Steps(e) = Prune
  <2>2. Writes(e) = Pruning /\ Left(Prune) = Unbegun(Prune) \cup Midway(Prune) \cup {Done}
    BY <1>1, <1>4 DEF Left
  <2>3. \A todo \in Midway(Prune) \cup {Done} : Len(todo) \in {0, 1}
    BY StepLengths, LeftIs
  <2>4. \A todo \in Midway(Prune) \cup {Done} : Len(todo) < 2 /\ ~(Len(todo) >= 2)
    BY <2>3
  <2>6. Len(Writes(e)) = 2
    BY <2>2, StepLengths
  <2>5. Pruning \in Unbegun(Prune)
    BY LeftIs
  <2>1. Goal(Prune)
    BY <2>2, <2>4, <2>5, <2>6
  <2> QED
    BY <1>1, <1>4, <2>1
<1>5. CASE Steps(e) = Drop
  <2>2. Writes(e) = Drop /\ Left(Drop) = Unbegun(Drop) \cup Midway(Drop) \cup {Done}
    BY <1>1, <1>5 DEF Left
  <2>3. \A todo \in Midway(Drop) \cup {Done} : Len(todo) \in {0, 1}
    BY StepLengths, LeftIs
  <2>4. \A todo \in Midway(Drop) \cup {Done} : Len(todo) < 2 /\ ~(Len(todo) >= 2)
    BY <2>3
  <2>6. Len(Writes(e)) = 2
    BY <2>2, StepLengths
  <2>5. Drop \in Unbegun(Drop)
    BY LeftIs
  <2>1. Goal(Drop)
    BY <2>2, <2>4, <2>5, <2>6
  <2> QED
    BY <1>1, <1>5, <2>1
<1> QED
  BY <1>2, <1>3, <1>4, <1>5 DEF Kinds

-----------------------------------------------------------------------------
(***************************************************************************)
(* The last event a target consumes of a source says what the tables say.  *)
(***************************************************************************)
LEMMA LastOfDocument ==
  ASSUME FeedInv, scenario.target \in VectorTargets, NEW d \in Documents
  PROVE  /\ scenario.target = "folders" => ConsumedAt(d) = {}
         /\ \A i \in ConsumedAt(d) :
              \/ Later(KindAt(d), i)
              \/ Log(d)[i] = IF docSource[d].live
                             THEN DocumentIndexed(docSource[d].version, docSource[d].content,
                                                  docIndex[d].extraction)
                             ELSE DocumentDeleted(docSource[d].version)
         /\ d \in scenario.watched /\ scenario.target # "folders" /\ ConsumedAt(d) = {}
              => ~docSource[d].live
<1> DEFINE log == docEvents[d]
           last == IF docSource[d].live
                   THEN DocumentIndexed(docSource[d].version, docSource[d].content,
                                        docIndex[d].extraction)
                   ELSE DocumentDeleted(docSource[d].version)
<1>1. /\ log \in Seq(DocumentEvents) /\ Log(d) = log
      /\ EventsOfHost(hostDocs[d], docSource[d], log)
      /\ LogEnds(docSource[d], docIndex[d], member[d], log)
      /\ docSource[d].version \in Nat
  BY DEF FeedInv, ManifestInv, TypeOK, DocumentRow, LogInv, DocumentLog, Log
<1>2. \A i \in DOMAIN log : log[i].type \in {"DOCUMENT_INDEXED",
        "DOCUMENT_FOLDER_RELATIONS_INDEXED", "DOCUMENT_DELETED"} /\ i \in Nat
  <2>1. \A e \in DocumentEvents : e.type \in {"DOCUMENT_INDEXED",
          "DOCUMENT_FOLDER_RELATIONS_INDEXED", "DOCUMENT_DELETED"}
    BY DEF DocumentEvents
  <2> QED
    BY <1>1, <2>1
<1>3. scenario.target = "folders" => ConsumedAt(d) = {}
  BY <1>1, <1>2, ConsumedIs DEF ConsumedAt, FolderVectorEvents
<1>4. d \in scenario.watched /\ scenario.target # "folders" =>
        ConsumedAt(d) = {i \in DOMAIN log : log[i].type \in ContentTypes}
  <2>1. scenario.target # "folders" =>
          Consumed \in {ChunkEvents, DocumentVectorEvents, SignalEvents}
    BY ConsumedIs DEF VectorTargets
  <2>2. scenario.target # "folders" =>
          \A i \in DOMAIN log : log[i].type \in Consumed <=> log[i].type \in ContentTypes
    BY <1>2, <2>1 DEF ChunkEvents, DocumentVectorEvents, SignalEvents, ContentTypes
  <2> QED
    BY <1>1, <2>2 DEF ConsumedAt
<1>5. Ends(log, ContentTypes, last) \/ (~docSource[d].live /\ docSource[d].version = 0)
  <2>1. CASE docSource[d].live
    BY <2>1 DEF FeedInv, LastIsStored
  <2>2. CASE ~docSource[d].live
    BY <1>1, <2>2 DEF LogEnds
  <2> QED
    BY <2>1, <2>2
<1>6. docSource[d].version = 0 => DOMAIN log = {}
  <2>1. \A i \in DOMAIN log : log[i].version \in 1..docSource[d].version
    BY <1>1 DEF EventsOfHost, Has
  <2> QED
    BY <2>1
<1>7. ASSUME NEW i \in ConsumedAt(d), ~Later(KindAt(d), i) PROVE log[i] = last
  <2>1. d \in scenario.watched /\ scenario.target # "folders" /\ i \in DOMAIN log
    BY <1>1, <1>3 DEF ConsumedAt
  <2>2. Ends(log, ContentTypes, last)
    BY <1>5, <1>6, <2>1
  <2>3. PICK j \in DOMAIN log : /\ log[j] = last /\ last.type \in ContentTypes
                                /\ \A k \in DOMAIN log : log[k].type \in ContentTypes => k <= j
    BY <2>2 DEF Ends
  <2>4. j \in ConsumedAt(d) /\ i <= j
    BY <1>4, <2>1, <2>3
  <2>5. DOMAIN KindAt(d) = ConsumedAt(d)
    BY DEF KindAt
  <2>6. ~(j > i)
    BY <1>7, <2>4, <2>5 DEF Later
  <2>7. i \in Nat /\ j \in Nat
    BY <1>2, <2>1
  <2> QED
    BY <2>3, <2>4, <2>6, <2>7
<1>8. ASSUME d \in scenario.watched, scenario.target # "folders", ConsumedAt(d) = {}
      PROVE  ~docSource[d].live
  <2>1. ~Ends(log, ContentTypes, last)
    BY <1>4, <1>8 DEF Ends
  <2> QED
    BY <1>5, <2>1
<1> QED
  BY <1>1, <1>3, <1>7, <1>8

LEMMA LastOfFolder ==
  ASSUME FeedInv, scenario.target \in VectorTargets, NEW f \in Folders
  PROVE  /\ scenario.target \in {"chunks", "documents"} => ConsumedAt(f) = {}
         /\ scenario.target = "folders" =>
              /\ \A i \in ConsumedAt(f) :
                   \/ Later(KindAt(f), i)
                   \/ Log(f)[i] = IF Live(f)
                                  THEN FolderIndexed(folderSource[f].version, folderSource[f].parent,
                                                     folderSource[f].label)
                                  ELSE FolderDeleted(folderSource[f].version)
              /\ f \in scenario.watched /\ ConsumedAt(f) = {} => ~Live(f)
<1> DEFINE log == folderEvents[f]
           row == folderSource[f]
           last == IF Live(f) THEN FolderIndexed(row.version, row.parent, row.label)
                   ELSE FolderDeleted(row.version)
<1>1. /\ log \in Seq(FolderEvents) /\ Log(f) = log
      /\ FolderLog(hostFolders[f], row, log)
      /\ row.version \in Nat
  <2>1. f \notin Documents
    BY FeedAssumption
  <2> QED
    BY <2>1 DEF FeedInv, ManifestInv, TypeOK, FolderRow, LogInv, FolderLog, Log
<1>2. \A i \in DOMAIN log : log[i].type \in {"FOLDER_INDEXED", "FOLDER_DELETED",
        "FOLDER_SIGNALS_INVALIDATED", "FOLDER_SIGNALS_INDEXED"} /\ i \in Nat
  <2>1. \A e \in FolderEvents : e.type \in {"FOLDER_INDEXED", "FOLDER_DELETED",
          "FOLDER_SIGNALS_INVALIDATED", "FOLDER_SIGNALS_INDEXED"}
    BY DEF FolderEvents
  <2> QED
    BY <1>1, <2>1
<1>3. scenario.target \in {"chunks", "documents"} => ConsumedAt(f) = {}
  <2>1. scenario.target \in {"chunks", "documents"} => Consumed = {"DOCUMENT_INDEXED", "DOCUMENT_DELETED"}
    BY ConsumedIs DEF ChunkEvents, DocumentVectorEvents
  <2> QED
    BY <1>1, <1>2, <2>1 DEF ConsumedAt
<1>4. f \in scenario.watched /\ scenario.target = "folders" =>
        ConsumedAt(f) = {i \in DOMAIN log : log[i].type \in FolderTypes}
  BY <1>1, ConsumedIs DEF ConsumedAt, FolderVectorEvents, FolderTypes
<1>5. Ends(log, FolderTypes, last) \/ (~Live(f) /\ row.version = 0)
  <2>1. CASE Live(f)
    <3>1. /\ row.live /\ row.version > 0
          /\ FolderIndexedAs(hostFolders[f], row.version) = FolderIndexed(row.version, row.parent, row.label)
      BY <1>1, <2>1 DEF FolderLog, FolderIndexedAs, Live
    <3> QED
      BY <1>1, <2>1, <3>1 DEF FolderLog
  <2>2. CASE ~Live(f)
    BY <1>1, <2>2 DEF FolderLog, Live
  <2> QED
    BY <2>1, <2>2
<1>6. row.version = 0 => \A i \in DOMAIN log : log[i].type \notin FolderTypes
  <2>1. \A i \in DOMAIN log : log[i].type \in FolderTypes => log[i].version \in 1..row.version
    BY <1>1 DEF FolderLog, Has, FolderTypes
  <2> QED
    BY <2>1
<1>7. ASSUME scenario.target = "folders", NEW i \in ConsumedAt(f), ~Later(KindAt(f), i)
      PROVE  log[i] = last
  <2>1. f \in scenario.watched /\ i \in DOMAIN log /\ log[i].type \in FolderTypes
    BY <1>1, <1>4, <1>7 DEF ConsumedAt
  <2>2. Ends(log, FolderTypes, last)
    BY <1>5, <1>6, <2>1
  <2>3. PICK j \in DOMAIN log : /\ log[j] = last /\ last.type \in FolderTypes
                                /\ \A k \in DOMAIN log : log[k].type \in FolderTypes => k <= j
    BY <2>2 DEF Ends
  <2>4. j \in ConsumedAt(f) /\ i <= j
    BY <1>4, <1>7, <2>1, <2>3
  <2>5. DOMAIN KindAt(f) = ConsumedAt(f)
    BY DEF KindAt
  <2>6. ~(j > i)
    BY <1>7, <2>4, <2>5 DEF Later
  <2>7. i \in Nat /\ j \in Nat
    BY <1>2, <2>1
  <2> QED
    BY <2>3, <2>4, <2>6, <2>7
<1>8. ASSUME scenario.target = "folders", f \in scenario.watched, ConsumedAt(f) = {}
      PROVE  ~Live(f)
  <2>1. ~Ends(log, FolderTypes, last)
    BY <1>4, <1>8 DEF Ends
  <2> QED
    BY <1>5, <2>1
<1> QED
  BY <1>1, <1>3, <1>7, <1>8

LEMMA LastOfSignals ==
  ASSUME FeedInv, scenario.target = "signals", NEW f \in Folders, NEW i \in ConsumedAt(f)
  PROVE  /\ Log(f)[i].type \in SignalTypes
         /\ ~Live(f) => Later(KindAt(f), i) \/ Log(f)[i].type = "FOLDER_DELETED"
         /\ Told(f) /\ Log(f)[i].type # "FOLDER_DELETED" =>
              Later(KindAt(f), i) \/ (Live(f) /\ Log(f)[i].input = folderIndex[f].signalInput)
<1> DEFINE log == folderEvents[f]
<1>1. /\ log \in Seq(FolderEvents) /\ Log(f) = log /\ Quiet(log, Live(f))
      /\ f \notin untold => SignalLog(log, Live(f), folderIndex[f].signalInput)
  <2>1. f \notin Documents
    BY FeedAssumption
  <2> QED
    BY <2>1 DEF FeedInv, LogInv, FolderLog, Log
<1>2. \A k \in DOMAIN log : log[k].type \in {"FOLDER_INDEXED", "FOLDER_DELETED",
        "FOLDER_SIGNALS_INVALIDATED", "FOLDER_SIGNALS_INDEXED"} /\ k \in Nat
  <2>1. \A e \in FolderEvents : e.type \in {"FOLDER_INDEXED", "FOLDER_DELETED",
          "FOLDER_SIGNALS_INVALIDATED", "FOLDER_SIGNALS_INDEXED"}
    BY DEF FolderEvents
  <2> QED
    BY <1>1, <2>1
<1>3. /\ f \in scenario.watched /\ i \in DOMAIN log
      /\ ConsumedAt(f) = {k \in DOMAIN log : log[k].type \in SignalTypes}
  <2>1. Consumed = SignalEvents
    BY ConsumedIs
  <2>2. \A k \in DOMAIN log : log[k].type \in Consumed <=> log[k].type \in SignalTypes
    BY <1>2, <2>1 DEF SignalEvents, SignalTypes
  <2>3. f \in scenario.watched
    BY DEF ConsumedAt
  <2> QED
    BY <1>1, <2>2, <2>3 DEF ConsumedAt
<1>4. log[i].type \in SignalTypes /\ i \in Nat /\ DOMAIN KindAt(f) = ConsumedAt(f)
  BY <1>2, <1>3 DEF KindAt
<1>5. ASSUME ~Live(f), ~Later(KindAt(f), i) PROVE log[i].type = "FOLDER_DELETED"
  <2>1. PICK v \in Nat : Ends(log, SignalTypes, FolderDeleted(v))
    BY <1>1, <1>3, <1>4, <1>5 DEF Quiet, NoneOf
  <2>2. PICK j \in DOMAIN log : /\ log[j] = FolderDeleted(v) /\ log[j].type \in SignalTypes
                                /\ \A k \in DOMAIN log : log[k].type \in SignalTypes => k <= j
    BY <2>1 DEF Ends
  <2>3. j \in ConsumedAt(f) /\ i <= j /\ j \in Nat
    BY <1>2, <1>3, <1>4, <2>2
  <2>4. ~(j > i)
    BY <1>4, <1>5, <2>3 DEF Later
  <2>5. i = j
    BY <1>4, <2>3, <2>4
  <2> QED
    BY <2>2, <2>5 DEF FolderDeleted
<1>6. ASSUME Told(f), log[i].type # "FOLDER_DELETED", ~Later(KindAt(f), i)
      PROVE  Live(f) /\ log[i].input = folderIndex[f].signalInput
  <2>1. Followed(log, Live(f), folderIndex[f].signalInput)
    BY <1>1, <1>6 DEF Told, SignalLog
  <2>2. log[i].type \in {"FOLDER_SIGNALS_INDEXED", "FOLDER_SIGNALS_INVALIDATED"}
    BY <1>4, <1>6 DEF SignalTypes
  <2>3. ~\E j \in DOMAIN log : j > i /\ log[j].type \in SignalTypes
    BY <1>3, <1>4, <1>6 DEF Later
  <2> QED
    BY <1>3, <2>1, <2>2, <2>3 DEF Followed
<1> QED
  BY <1>1, <1>4, <1>5, <1>6

\* What is not current any more has a later event behind it.
LEMMA StaleIsLater ==
  ASSUME FeedInv, scenario.target \in VectorTargets, NEW s \in Sources, Told(s),
         NEW i \in ConsumedAt(s), ~Fresh(s, Log(s)[i])
  PROVE  Later(KindAt(s), i)
<1> DEFINE e == Log(s)[i]
<1>1. e.type \in Consumed /\ ~Current(s, e)
  BY DEF ConsumedAt, Fresh
<1>2. CASE s \in Documents
  <2> SUFFICES ASSUME ~Later(KindAt(s), i) PROVE FALSE
    OBVIOUS
  <2>1. e = IF docSource[s].live
            THEN DocumentIndexed(docSource[s].version, docSource[s].content, docIndex[s].extraction)
            ELSE DocumentDeleted(docSource[s].version)
    BY <1>2, LastOfDocument
  <2>2. docSource[s].live => docIndex[s].live /\ docIndex[s].input = docSource[s].content
    BY <1>2 DEF FeedInv, ManifestInv, ManifestConsistent
  <2> HIDE DEF e
  <2>3. CASE docSource[s].live
    <3>1. e.type = "DOCUMENT_INDEXED" /\ e.content = docSource[s].content
      BY <2>1, <2>3 DEF DocumentIndexed
    <3>2. Current(s, e) = CurrentDocument(s, e)
      BY <3>1 DEF Current
    <3> QED
      BY <1>1, <2>2, <2>3, <3>1, <3>2 DEF CurrentDocument
  <2>4. CASE ~docSource[s].live
    <3>1. e.type = "DOCUMENT_DELETED"
      BY <2>1, <2>4 DEF DocumentDeleted
    <3>2. Current(s, e)
      BY <3>1 DEF Current
    <3> QED
      BY <1>1, <3>2
  <2> QED
    BY <2>3, <2>4
<1>3. CASE s \in Folders /\ scenario.target = "folders"
  <2> SUFFICES ASSUME ~Later(KindAt(s), i) PROVE FALSE
    OBVIOUS
  <2>1. e = IF Live(s)
            THEN FolderIndexed(folderSource[s].version, folderSource[s].parent, folderSource[s].label)
            ELSE FolderDeleted(folderSource[s].version)
    BY <1>3, LastOfFolder
  <2>2. Live(s) => folderIndex[s].indexInput
                     = [parent |-> folderSource[s].parent, label |-> folderSource[s].label]
    BY <1>3 DEF FeedInv, ManifestInv, ManifestConsistent, FolderDigestsFresh, IndexInput
  <2> HIDE DEF e
  <2>3. CASE Live(s)
    <3>1. e.type = "FOLDER_INDEXED" /\ e.parent = folderSource[s].parent
          /\ e.label = folderSource[s].label
      BY <2>1, <2>3 DEF FolderIndexed
    <3>2. Current(s, e) = CurrentFolder(s, e)
      BY <3>1 DEF Current
    <3> QED
      BY <1>1, <2>2, <2>3, <3>1, <3>2 DEF CurrentFolder
  <2>4. CASE ~Live(s)
    <3>1. e.type = "FOLDER_DELETED"
      BY <2>1, <2>4 DEF FolderDeleted
    <3>2. Current(s, e)
      BY <3>1 DEF Current
    <3> QED
      BY <1>1, <3>2
  <2> QED
    BY <2>3, <2>4
<1>4. CASE s \in Folders /\ scenario.target = "signals"
  <2> SUFFICES ASSUME ~Later(KindAt(s), i) PROVE FALSE
    OBVIOUS
  <2>1. /\ e.type \in SignalTypes
        /\ e.type # "FOLDER_DELETED" => Live(s) /\ e.input = folderIndex[s].signalInput
    BY <1>4, LastOfSignals
  <2> HIDE DEF e
  <2>2. CASE e.type = "FOLDER_DELETED"
    <3>1. Current(s, e)
      BY <2>2 DEF Current
    <3> QED
      BY <1>1, <3>1
  <2>3. CASE e.type \in {"FOLDER_SIGNALS_INDEXED", "FOLDER_SIGNALS_INVALIDATED"}
    <3>1. Current(s, e) = CurrentFolderSignals(s, e)
      BY <2>3 DEF Current
    <3> QED
      BY <1>1, <2>1, <2>3, <3>1 DEF CurrentFolderSignals
  <2> QED
    BY <2>1, <2>2, <2>3 DEF SignalTypes
<1>5. CASE s \in Folders /\ scenario.target \in {"chunks", "documents"}
  BY <1>5, LastOfFolder
<1> QED
  BY <1>2, <1>3, <1>4, <1>5 DEF Sources, VectorTargets

\* A settled source is as the events of its log say.
LEMMA SettledAgrees ==
  ASSUME FeedInv, scenario.target \in VectorTargets, Shapes, NEW s \in Sources, SourceInv(s),
         Settled(s), Told(s)
  PROVE  /\ s \in scenario.watched
         /\ cursor[s] = 0 => ConsumedAt(s) = {} /\ points[s] = {}
         /\ cursor[s] # 0 => /\ cursor[s] \in ConsumedAt(s) /\ ~Later(KindAt(s), cursor[s])
                             /\ points[s] = WantFor(scenario.target, Log(s)[cursor[s]])
         /\ ledger[s] = Records(points[s])
<1>1. /\ Waiting(s) = {} /\ work[s] = [slot \in Slots |-> Idle]
      /\ s \in scenario.watched /\ s \notin disturbed
  BY DEF Settled, AllHandled
<1>2. work[s].owner = Idle
  BY <1>1 DEF Slots
<1>3. Settles(KindAt(s), WantAt(s), cursor[s], points[s], ledger[s])
  BY <1>1, <1>2 DEF SourceInv, Kept
<1>4. /\ ConsumedAt(s) \subseteq Nat \ {0} /\ DOMAIN KindAt(s) = ConsumedAt(s)
      /\ \A i \in ConsumedAt(s) : WantAt(s)[i] = WantFor(scenario.target, Log(s)[i])
  BY EventsAre
<1>5. \A i \in ConsumedAt(s) : ~(i > cursor[s])
  BY <1>1 DEF Waiting
<1>6. ~Later(KindAt(s), cursor[s])
  BY <1>4, <1>5 DEF Later
<1>7. Agree(WantAt(s), cursor[s], points[s], ledger[s])
  BY <1>3, <1>6 DEF Settles
<1>8. cursor[s] \in ConsumedAt(s) \cup {0} /\ cursor[s] \in Nat
  BY <1>4 DEF SourceInv, Placed, Shapes
<1>9. cursor[s] = 0 => ConsumedAt(s) = {}
  BY <1>4, <1>5
<1> QED
  BY <1>1, <1>4, <1>6, <1>7, <1>8, <1>9 DEF Agree

LEMMA InvImpliesLedger ==
  ASSUME ProjInv
  PROVE  LedgerAgrees
<1> SUFFICES ASSUME scenario.target # "graph", NEW s \in Sources, Settled(s), Told(s)
             PROVE  ledger[s] = Records(points[s])
  BY DEF LedgerAgrees
<1>1. FeedInv /\ scenario.target \in VectorTargets
  BY DEF ProjInv, FeedInv, Scenario, VectorTargets
<1> QED
  BY <1>1, SettledAgrees DEF ProjInv

LEMMA InvImpliesVectors ==
  ASSUME ProjInv
  PROVE  VectorsCurrent
<1> SUFFICES ASSUME scenario.target # "graph", NEW s \in Sources, Settled(s),
                    s \in Documents \/ scenario.target = "folders"
             PROVE  points[s] = ManifestPoints(s)
  BY DEF VectorsCurrent
<1>1. FeedInv /\ scenario.target \in VectorTargets /\ untold \subseteq Folders
      /\ Shapes /\ SourceInv(s)
  BY DEF ProjInv, FeedInv, Scenario, VectorTargets
<1>2. Told(s)
  BY <1>1, FeedAssumption DEF Told
<1>3. /\ s \in scenario.watched
      /\ cursor[s] = 0 => ConsumedAt(s) = {} /\ points[s] = {}
      /\ cursor[s] # 0 => /\ cursor[s] \in ConsumedAt(s) /\ ~Later(KindAt(s), cursor[s])
                          /\ points[s] = WantFor(scenario.target, Log(s)[cursor[s]])
  BY <1>1, <1>2, SettledAgrees
<1>4. CASE s \in Documents /\ scenario.target = "folders"
  <2>1. points[s] = {}
    BY <1>1, <1>3, <1>4, LastOfDocument
  <2> QED
    BY <1>4, <2>1 DEF ManifestPoints
<1>5. CASE s \in Documents /\ scenario.target # "folders"
  <2> DEFINE e == DocumentIndexed(docSource[s].version, docSource[s].content,
                                  docIndex[s].extraction)
  <2>1. CASE docSource[s].live
    <3>1. cursor[s] \in ConsumedAt(s) /\ points[s] = WantFor(scenario.target, e)
      BY <1>1, <1>3, <1>5, <2>1, LastOfDocument
    <3>2. e.type = "DOCUMENT_INDEXED"
      BY DEF DocumentIndexed
    <3> HIDE DEF e
    <3>3. e.type \notin Deletions /\ e.type # "FOLDER_SIGNALS_INVALIDATED"
      BY <3>2 DEF Deletions
    <3>4. points[s] = PointsOf(e)
      BY <3>1, <3>3 DEF WantFor, PointsFor, PointsOf
    <3> QED
      BY <1>5, <2>1, <3>4 DEF ManifestPoints, e
  <2>2. CASE ~docSource[s].live
    <3>1. cursor[s] # 0 => points[s] = WantFor(scenario.target, DocumentDeleted(docSource[s].version))
      BY <1>1, <1>3, <1>5, <2>2, LastOfDocument
    <3>2. DocumentDeleted(docSource[s].version).type \in Deletions
      BY DEF DocumentDeleted, Deletions
    <3>3. points[s] = {}
      BY <1>3, <3>1, <3>2 DEF WantFor
    <3> QED
      BY <1>5, <2>2, <3>3 DEF ManifestPoints
  <2> QED
    BY <2>1, <2>2
<1>6. CASE s \in Folders /\ scenario.target = "folders"
  <2> DEFINE e == FolderIndexed(folderSource[s].version, folderSource[s].parent,
                                folderSource[s].label)
  <2>3. s \notin Documents
    BY <1>6, FeedAssumption
  <2>1. CASE Live(s)
    <3>1. cursor[s] \in ConsumedAt(s) /\ points[s] = WantFor(scenario.target, e)
      BY <1>1, <1>3, <1>6, <2>1, LastOfFolder
    <3>2. e.type = "FOLDER_INDEXED"
      BY DEF FolderIndexed
    <3> HIDE DEF e
    <3>3. e.type \notin Deletions /\ e.type # "FOLDER_SIGNALS_INVALIDATED"
      BY <3>2 DEF Deletions
    <3>4. points[s] = PointsOf(e)
      BY <1>6, <3>1, <3>2, <3>3 DEF WantFor, PointsFor, PointsOf
    <3> QED
      BY <1>6, <2>1, <2>3, <3>4 DEF ManifestPoints, e
  <2>2. CASE ~Live(s)
    <3>1. cursor[s] # 0 => points[s] = WantFor(scenario.target, FolderDeleted(folderSource[s].version))
      BY <1>1, <1>3, <1>6, <2>2, LastOfFolder
    <3>2. FolderDeleted(folderSource[s].version).type \in Deletions
      BY DEF FolderDeleted, Deletions
    <3>3. points[s] = {}
      BY <1>3, <3>1, <3>2 DEF WantFor
    <3> QED
      BY <1>6, <2>2, <2>3, <3>3 DEF ManifestPoints
  <2> QED
    BY <2>1, <2>2
<1> QED
  BY <1>4, <1>5, <1>6 DEF Sources

LEMMA InvImpliesSignals ==
  ASSUME ProjInv
  PROVE  FolderSignalVectorsCurrent
<1> SUFFICES ASSUME scenario.target = "signals", NEW f \in Folders, Settled(f), Told(f)
             PROVE  /\ ~Live(f) => points[f] = {}
                    /\ Live(f) => \A p \in points[f] : p.digest = folderIndex[f].signalInput
  BY DEF FolderSignalVectorsCurrent
<1>1. FeedInv /\ scenario.target \in VectorTargets /\ Shapes /\ f \in Sources /\ SourceInv(f)
  BY DEF ProjInv, VectorTargets, Sources
<1>2. /\ cursor[f] = 0 => points[f] = {}
      /\ cursor[f] # 0 => /\ cursor[f] \in ConsumedAt(f) /\ ~Later(KindAt(f), cursor[f])
                          /\ points[f] = WantFor(scenario.target, Log(f)[cursor[f]])
  BY <1>1, SettledAgrees
<1>3. CASE cursor[f] = 0
  BY <1>2, <1>3
<1>4. CASE cursor[f] # 0
  <2> DEFINE e == Log(f)[cursor[f]]
  <2>1. /\ e.type \in SignalTypes
        /\ ~Live(f) => e.type = "FOLDER_DELETED"
        /\ e.type # "FOLDER_DELETED" => e.input = folderIndex[f].signalInput
    BY <1>1, <1>2, <1>4, LastOfSignals
  <2>2. points[f] = WantFor(scenario.target, e)
    BY <1>2, <1>4
  <2> HIDE DEF e
  <2>3. CASE e.type \in {"FOLDER_DELETED", "FOLDER_SIGNALS_INVALIDATED"}
    BY <2>2, <2>3 DEF WantFor, Deletions
  <2>4. CASE e.type = "FOLDER_SIGNALS_INDEXED"
    <3>1. points[f] = PointsOf(e)
      BY <2>2, <2>4 DEF WantFor, PointsFor, PointsOf, Deletions
    <3>2. \A p \in PointsOf(e) : p.digest = e.input
      BY <2>4, OneDigest
    <3> QED
      BY <2>1, <2>4, <3>1, <3>2
  <2> QED
    BY <2>1, <2>3, <2>4 DEF SignalTypes
<1> QED
  BY <1>3, <1>4

-----------------------------------------------------------------------------
(***************************************************************************)
(* The handlers.  A step of one leaves the manifest and the other sources  *)
(* alone.                                                                  *)
(***************************************************************************)
LEMMA SameView ==
  ASSUME UNCHANGED <<vars, scenario, untold>>, NEW s
  PROVE  /\ Log(s)' = Log(s) /\ ConsumedAt(s)' = ConsumedAt(s)
         /\ KindAt(s)' = KindAt(s) /\ WantAt(s)' = WantAt(s)
         /\ Told(s)' = Told(s) /\ scenario' = scenario
<1>1. docEvents' = docEvents /\ folderEvents' = folderEvents
      /\ scenario' = scenario /\ untold' = untold
  BY DEF vars
<1>2. Log(s)' = Log(s)
  BY <1>1 DEF Log
<1>3. Consumed' = Consumed
  BY <1>1 DEF Consumed
<1>4. ConsumedAt(s)' = ConsumedAt(s)
  BY <1>1, <1>2, <1>3 DEF ConsumedAt
<1>5. KindAt(s)' = KindAt(s)
  BY <1>1, <1>2, <1>4 DEF KindAt
<1>6. WantAt(s)' = WantAt(s)
  BY <1>1, <1>2, <1>4 DEF WantAt
<1>7. Told(s)' = Told(s)
  BY <1>1 DEF Told
<1> QED
  BY <1>1, <1>2, <1>4, <1>5, <1>6, <1>7

\* What a step of a source's handler has to show.
LEMMA HandlerKeeps ==
  ASSUME ProjInv, scenario.target \in VectorTargets, UNCHANGED <<vars, scenario, untold>>, Shapes',
         NEW s \in Sources,
         \A t \in Sources \ {s} :
           /\ cursor'[t] = cursor[t] /\ work'[t] = work[t] /\ points'[t] = points[t]
           /\ ledger'[t] = ledger[t] /\ (t \in disturbed' <=> t \in disturbed),
         Placed(KindAt(s), cursor'[s], work'[s].owner, work'[s].late),
         OneItem(scenario.target, ledger'[s]),
         scenario.target = "signals" /\ s \in Folders =>
           Sourced(Log(s), ConsumedAt(s), cursor'[s], work'[s].owner, points'[s], ledger'[s]),
         s \notin disturbed' /\ Told(s) =>
           Kept(KindAt(s), WantAt(s), cursor'[s], work'[s].owner, points'[s], ledger'[s])
  PROVE  ProjInv'
<1>1. FeedInv' /\ untold' \subseteq Folders
  BY HandlersKeepFeed DEF ProjInv
<1>2. ASSUME NEW t \in Sources PROVE SourceInv(t)'
  <2>1. /\ Log(t)' = Log(t) /\ ConsumedAt(t)' = ConsumedAt(t)
        /\ KindAt(t)' = KindAt(t) /\ WantAt(t)' = WantAt(t)
        /\ Told(t)' = Told(t) /\ scenario' = scenario
    BY SameView
  <2>2. CASE t = s
    BY <2>1, <2>2 DEF SourceInv
  <2>3. CASE t # s
    <3>1. SourceInv(t)
      BY DEF ProjInv
    <3>2. /\ cursor'[t] = cursor[t] /\ work'[t] = work[t] /\ points'[t] = points[t]
          /\ ledger'[t] = ledger[t] /\ (t \in disturbed' <=> t \in disturbed)
      BY <2>3
    <3> QED
      BY <2>1, <3>1, <3>2 DEF SourceInv
  <2> QED
    BY <2>2, <2>3
<1> QED
  BY <1>1, <1>2 DEF ProjInv, Sources

\* A step that writes to no store, and what it does to the task of a slot.
LEMMA QuietHandlerKeeps ==
  ASSUME ProjInv, scenario.target \in VectorTargets, UNCHANGED <<vars, scenario, untold>>,
         UNCHANGED vectorVars, NEW s \in Sources,
         work' \in [Sources -> [Slots -> Tasks]], cursor' \in [Sources -> Nat],
         \A t \in Sources \ {s} :
           work'[t] = work[t] /\ cursor'[t] = cursor[t] /\ (t \in disturbed' <=> t \in disturbed),
         Placed(KindAt(s), cursor'[s], work'[s].owner, work'[s].late),
         cursor[s] <= cursor'[s],
         \/ work[s].owner = Idle
         \/ work[s].owner.at <= cursor'[s]
         \/ work[s].owner.at <= work'[s].owner.at,
         s \notin disturbed' /\ Told(s) =>
           Kept(KindAt(s), WantAt(s), cursor'[s], work'[s].owner, points[s], ledger[s])
  PROVE  ProjInv'
<1>1. points' = points /\ ledger' = ledger /\ Shapes /\ SourceInv(s) /\ FeedInv
  BY DEF vectorVars, ProjInv
<1>2. Shapes'
  BY <1>1 DEF Shapes
<1>3. ASSUME scenario.target = "signals" /\ s \in Folders
      PROVE  Sourced(Log(s), ConsumedAt(s), cursor'[s], work'[s].owner, points'[s], ledger'[s])
  <2>1. Sourced(Log(s), ConsumedAt(s), cursor[s], work[s].owner, points[s], ledger[s])
    BY <1>1, <1>3 DEF SourceInv
  <2>2. ConsumedAt(s) \subseteq Nat \ {0}
    BY <1>1, EventsAre
  <2>3. cursor[s] \in Nat /\ cursor'[s] \in Nat /\ work[s].owner.at \in Nat /\ work'[s].owner.at \in Nat
        /\ (work[s].owner = Idle => work[s].owner.at = 0)
    BY <1>1 DEF Shapes, Slots, Tasks, Idle
  <2>4. \A j \in ConsumedAt(s) : j <= cursor[s] \/ j <= work[s].owner.at =>
                                 j <= cursor'[s] \/ j <= work'[s].owner.at
    BY <2>2, <2>3
  <2> QED
    BY <1>1, <2>1, <2>4 DEF Sourced
<1>4. OneItem(scenario.target, ledger'[s])
  BY <1>1 DEF SourceInv
<1>5. \A t \in Sources \ {s} :
           /\ cursor'[t] = cursor[t] /\ work'[t] = work[t] /\ points'[t] = points[t]
           /\ ledger'[t] = ledger[t] /\ (t \in disturbed' <=> t \in disturbed)
  BY <1>1
<1>6. s \notin disturbed' /\ Told(s) =>
        Kept(KindAt(s), WantAt(s), cursor'[s], work'[s].owner, points'[s], ledger'[s])
  BY <1>1
<1> QED
  BY <1>2, <1>3, <1>4, <1>5, <1>6, HandlerKeeps

\* A set of natural numbers that is not empty has a first: of the intervals up to its
\* members one contains no other.
LEMMA FirstIs ==
  ASSUME NEW S \in SUBSET Nat, S # {}
  PROVE  First(S) \in S /\ \A j \in S : First(S) <= j
<1> DEFINE T == {0..n : n \in S}
<1>1. T \subseteq FiniteSubsetsOf(Nat) /\ T # {}
  <2>1. \A n \in S : IsFiniteSet(0..n) /\ 0..n \subseteq Nat
    BY FS_Interval
  <2> QED
    BY <2>1 DEF FiniteSubsetsOf
<1>2. PICK A \in T : \A B \in T : <<B, A>> \notin StrictSubsetOrdering(Nat)
  <2> HIDE DEF T
  <2> QED
    BY <1>1, FS_StrictSubsetOrderingWellFounded, WFMin
<1>3. PICK a \in S : A = 0..a
  OBVIOUS
<1>4. ASSUME NEW x \in S, x < a PROVE FALSE
  <2>1. 0..x \subseteq 0..a /\ a \in 0..a /\ a \notin 0..x
    BY <1>4
  <2>2. <<0..x, A>> \in StrictSubsetOrdering(Nat)
    BY <1>3, <2>1 DEF StrictSubsetOrdering
  <2> QED
    BY <1>2, <2>2
<1>5. \A x \in S : a <= x
  BY <1>4
<1> QED
  BY <1>5 DEF First

LEMMA CurrentIsBoolean ==
  ASSUME FeedInv, NEW s \in Sources, NEW i \in ConsumedAt(s)
  PROVE  Current(s, Log(s)[i]) \in BOOLEAN
<1> DEFINE e == Log(s)[i]
<1>1. CASE s \in Documents
  <2>1. docSource[s].live \in BOOLEAN /\ docIndex[s].live \in BOOLEAN
    BY <1>1 DEF FeedInv, ManifestInv, TypeOK, DocumentRow, DocumentIndexRow
  <2>2. Log(s) \in Seq(DocumentEvents) /\ i \in DOMAIN Log(s)
    BY <1>1 DEF FeedInv, LogInv, DocumentLog, Log, ConsumedAt
  <2>3. e \in DocumentEvents
    BY <2>2
  <2> HIDE DEF e
  <2>4. e.type \in {"DOCUMENT_INDEXED", "DOCUMENT_FOLDER_RELATIONS_INDEXED", "DOCUMENT_DELETED"}
    BY <2>3 DEF DocumentEvents
  <2>5. CurrentDocument(s, e) \in BOOLEAN /\ CurrentRelations(s, e) \in BOOLEAN
    BY <2>1 DEF CurrentDocument, CurrentRelations
  <2>6. Current(s, e) \in BOOLEAN
    BY <2>4, <2>5 DEF Current
  <2> QED
    BY <2>6 DEF e
<1>2. CASE s \notin Documents
  <2>1. s \in Folders /\ Live(s) \in BOOLEAN
    BY <1>2 DEF Sources, Live, FeedInv, ManifestInv, TypeOK, FolderRow
  <2>2. Log(s) \in Seq(FolderEvents) /\ i \in DOMAIN Log(s)
    BY <1>2, <2>1 DEF FeedInv, LogInv, FolderLog, Log, ConsumedAt
  <2>3. e \in FolderEvents
    BY <2>2
  <2> HIDE DEF e
  <2>4. e.type \in {"FOLDER_INDEXED", "FOLDER_DELETED", "FOLDER_SIGNALS_INVALIDATED",
                    "FOLDER_SIGNALS_INDEXED"}
    BY <2>3 DEF FolderEvents
  <2>5. CurrentFolder(s, e) \in BOOLEAN /\ CurrentFolderSignals(s, e) \in BOOLEAN
    BY <2>1 DEF CurrentFolder, CurrentFolderSignals
  <2>6. Current(s, e) \in BOOLEAN
    BY <2>4, <2>5 DEF Current
  <2> QED
    BY <2>6 DEF e
<1> QED
  BY <1>1, <1>2

LEMMA ReceiveKeeps ==
  ASSUME ProjInv, scenario.target \in VectorTargets, NEW s \in Sources, Receive(s)
  PROVE  ProjInv'
<1> DEFINE i == First(Waiting(s))
           task == Task(i, FALSE, StepsAt(s, i))
<1>1. FeedInv /\ Shapes /\ SourceInv(s)
  BY DEF ProjInv
<1>2. /\ ConsumedAt(s) \subseteq Nat \ {0} /\ DOMAIN KindAt(s) = ConsumedAt(s)
      /\ \A k \in ConsumedAt(s) : KindAt(s)[k] = StepsAt(s, k) /\ KindAt(s)[k] \in Kinds
  BY <1>1, EventsAre
<1>3. i \in ConsumedAt(s) /\ i > cursor[s] /\ i \in Nat \ {0} /\ cursor[s] \in Nat
  <2>1. Waiting(s) \in SUBSET Nat /\ Waiting(s) # {}
    BY <1>2 DEF Waiting, Receive
  <2>2. i \in Waiting(s)
    BY <2>1, FirstIs
  <2> QED
    BY <1>1, <1>2, <2>2 DEF Waiting, Shapes
<1>4. /\ work[s].owner = Idle /\ SetTask(s, "owner", task)
      /\ UNCHANGED <<vars, scenario, cursor, disturbed, untold, vectorVars>>
  BY DEF Receive, storeVars
<1>5. KindAt(s)[i] = StepsAt(s, i) /\ StepsAt(s, i) \in Kinds /\ i \in DOMAIN KindAt(s)
  BY <1>2, <1>3
<1>6. task \in Tasks /\ task.at = i /\ task.replay = FALSE
  BY <1>3, <1>5, TasksAre DEF Task
<1>7. /\ work' \in [Sources -> [Slots -> Tasks]]
      /\ work'[s].owner = task /\ work'[s].late = work[s].late
      /\ \A t \in Sources \ {s} : work'[t] = work[t]
  BY <1>1, <1>4, <1>6, SetTaskIs DEF Slots
<1> HIDE DEF i, task
<1>8. Newest(KindAt(s), cursor[s], i)
  BY <1>2, <1>3 DEF Newest
<1>9. /\ task # Idle /\ TaskOK(KindAt(s), task)
      /\ Kept(KindAt(s), WantAt(s), cursor[s], task, points[s], ledger[s])
  BY <1>3, <1>5, <1>8, BeginKeeps DEF task
<1>10. Placed(KindAt(s), cursor[s], task, work[s].late)
  BY <1>1, <1>3, <1>4, <1>6, <1>9 DEF SourceInv, Placed
<1>11. cursor' = cursor /\ cursor' \in [Sources -> Nat] /\ disturbed' = disturbed
  BY <1>1, <1>4 DEF Shapes
<1>12. cursor[s] <= cursor'[s]
  BY <1>3, <1>11
<1> QED
  BY <1>4, <1>7, <1>9, <1>10, <1>11, <1>12, QuietHandlerKeeps

LEMMA RetryKeeps ==
  ASSUME ProjInv, scenario.target \in VectorTargets, NEW s \in Sources,
         Retry(s) \/ LosePartition(s)
  PROVE  ProjInv'
<1> DEFINE own == work[s].owner
           task == Task(own.at, own.replay, StepsAt(s, own.at))
<1>1. FeedInv /\ Shapes /\ SourceInv(s)
  BY DEF ProjInv
<1>2. /\ ConsumedAt(s) \subseteq Nat \ {0} /\ DOMAIN KindAt(s) = ConsumedAt(s)
      /\ \A k \in ConsumedAt(s) : KindAt(s)[k] = StepsAt(s, k) /\ KindAt(s)[k] \in Kinds
  BY <1>1, EventsAre
<1>3. /\ own # Idle
      /\ UNCHANGED <<vars, scenario, cursor, disturbed, untold, vectorVars>>
      /\ \/ SetTask(s, "owner", task)
         \/ work[s].late = Idle /\ work' = [work EXCEPT ![s] = [late |-> own, owner |-> task]]
  BY DEF Retry, LosePartition, storeVars
<1>4. own \in Tasks /\ work[s].late \in Tasks
  BY <1>1, WorkIs
<1>5. /\ own.at \in ConsumedAt(s) /\ own.at \in Nat \ {0}
      /\ KindAt(s)[own.at] = StepsAt(s, own.at) /\ StepsAt(s, own.at) \in Kinds
      /\ own.at \in DOMAIN KindAt(s) /\ own.replay \in BOOLEAN
      /\ TaskOK(KindAt(s), own)
  <2>1. TaskOK(KindAt(s), own)
    BY <1>1, <1>3 DEF SourceInv, Placed
  <2>2. own.at \in ConsumedAt(s) /\ own.at \in Nat \ {0}
    BY <1>2, <2>1 DEF TaskOK
  <2> QED
    BY <1>2, <1>4, <2>1, <2>2 DEF Tasks
<1>6. task \in Tasks /\ task.at = own.at /\ task.replay = own.replay
  BY <1>5, TasksAre DEF Task
<1>7. /\ work' \in [Sources -> [Slots -> Tasks]]
      /\ work'[s].owner = task
      /\ \/ work'[s].late = work[s].late
         \/ work'[s].late = own
      /\ \A t \in Sources \ {s} : work'[t] = work[t]
  <2> HIDE DEF task, own
  <2>1. CASE SetTask(s, "owner", task)
    BY <1>1, <1>6, <2>1, SetTaskIs DEF Slots
  <2>2. CASE work' = [work EXCEPT ![s] = [late |-> own, owner |-> task]]
    BY <1>1, <1>4, <1>6, <2>2 DEF Shapes, Slots
  <2> QED
    BY <1>3, <2>1, <2>2
<1> HIDE DEF task
<1>8. ASSUME s \notin disturbed, Told(s)
      PROVE  Kept(KindAt(s), WantAt(s), cursor[s], task, points[s], ledger[s])
  <2>1. /\ Placed(KindAt(s), cursor[s], own, work[s].late)
        /\ Kept(KindAt(s), WantAt(s), cursor[s], own, points[s], ledger[s])
    BY <1>1, <1>8 DEF SourceInv
  <2>2. \/ Newest(KindAt(s), cursor[s], own.at)
        \/ Settles(KindAt(s), WantAt(s), cursor[s], points[s], ledger[s])
    BY <1>3, <2>1, BeganInOrder
  <2> HIDE DEF own
  <2> QED
    BY <1>5, <2>2, BeginKeeps DEF task
<1>9. task # Idle /\ TaskOK(KindAt(s), task)
  <2>1. task.todo = KindAt(s)[own.at] /\ task.current = FALSE
    BY <1>5 DEF task, Task
  <2>2. task.todo \in Left(KindAt(s)[own.at])
    BY <1>5, <2>1, LeftDiffers DEF Left
  <2>3. task # Idle
    BY <1>5, <1>6 DEF Idle
  <2> QED
    BY <1>5, <1>6, <2>1, <2>2, <2>3 DEF TaskOK
<1>10. Placed(KindAt(s), cursor[s], task, work'[s].late)
  BY <1>1, <1>3, <1>5, <1>6, <1>7, <1>9 DEF SourceInv, Placed
<1>11. cursor' = cursor /\ cursor' \in [Sources -> Nat] /\ disturbed' = disturbed /\ cursor[s] \in Nat
  BY <1>1, <1>3 DEF Shapes
<1>12. cursor[s] <= cursor'[s] /\ work[s].owner.at <= work'[s].owner.at
  BY <1>5, <1>6, <1>7, <1>11
<1> QED
  BY <1>3, <1>7, <1>8, <1>10, <1>11, <1>12, QuietHandlerKeeps

LEMMA ReplayKeeps ==
  ASSUME ProjInv, scenario.target \in VectorTargets, NEW s \in Sources, Replay(s)
  PROVE  ProjInv'
<1>1. FeedInv /\ Shapes /\ SourceInv(s)
  BY DEF ProjInv
<1>2. /\ ConsumedAt(s) \subseteq Nat \ {0} /\ DOMAIN KindAt(s) = ConsumedAt(s)
      /\ \A k \in ConsumedAt(s) : KindAt(s)[k] = StepsAt(s, k) /\ KindAt(s)[k] \in Kinds
  BY <1>1, EventsAre
<1>3. PICK i \in ConsumedAt(s) : i <= cursor[s] /\ SetTask(s, "owner", Task(i, TRUE, StepsAt(s, i)))
  BY DEF Replay
<1> DEFINE task == Task(i, TRUE, StepsAt(s, i))
<1>4. /\ work[s].owner = Idle /\ SetTask(s, "owner", task)
      /\ UNCHANGED <<vars, scenario, cursor, disturbed, untold, vectorVars>>
  BY <1>3 DEF Replay, storeVars
<1>5. /\ KindAt(s)[i] = StepsAt(s, i) /\ StepsAt(s, i) \in Kinds /\ i \in DOMAIN KindAt(s)
      /\ i \in Nat \ {0} /\ cursor[s] \in Nat
  BY <1>1, <1>2, <1>3 DEF Shapes
<1>6. task \in Tasks /\ task.at = i /\ task.replay = TRUE
  BY <1>5, TasksAre DEF Task
<1>7. /\ work' \in [Sources -> [Slots -> Tasks]]
      /\ work'[s].owner = task /\ work'[s].late = work[s].late
      /\ \A t \in Sources \ {s} : work'[t] = work[t]
  BY <1>1, <1>4, <1>6, SetTaskIs DEF Slots
<1> HIDE DEF task
<1>8. ASSUME s \notin disturbed, Told(s)
      PROVE  Kept(KindAt(s), WantAt(s), cursor[s], task, points[s], ledger[s])
  <2>1. Settles(KindAt(s), WantAt(s), cursor[s], points[s], ledger[s])
    BY <1>1, <1>4, <1>8 DEF SourceInv, Kept
  <2> QED
    BY <1>5, <2>1, BeginKeeps DEF task
<1>9. task # Idle /\ TaskOK(KindAt(s), task)
  <2>1. task.todo = KindAt(s)[i] /\ task.current = FALSE
    BY <1>5 DEF task, Task
  <2>2. task.todo \in Left(KindAt(s)[i])
    BY <1>5, <2>1, LeftDiffers DEF Left
  <2>3. task # Idle
    BY <1>5, <1>6 DEF Idle
  <2> QED
    BY <1>5, <1>6, <2>1, <2>2, <2>3 DEF TaskOK
<1>10. Placed(KindAt(s), cursor[s], task, work[s].late)
  BY <1>1, <1>3, <1>4, <1>6, <1>9 DEF SourceInv, Placed
<1>11. cursor' = cursor /\ cursor' \in [Sources -> Nat] /\ disturbed' = disturbed
  BY <1>1, <1>4 DEF Shapes
<1>12. cursor[s] <= cursor'[s]
  BY <1>5, <1>11
<1> QED
  BY <1>4, <1>7, <1>8, <1>10, <1>11, <1>12, QuietHandlerKeeps

LEMMA LateDiesKeeps ==
  ASSUME ProjInv, scenario.target \in VectorTargets, NEW s \in Sources,
         SetTask(s, "late", Idle), UNCHANGED <<vars, scenario, cursor, disturbed, untold, storeVars>>
  PROVE  ProjInv'
<1>1. FeedInv /\ Shapes /\ SourceInv(s)
  BY DEF ProjInv
<1>2. UNCHANGED <<vars, scenario, untold>> /\ UNCHANGED vectorVars
  BY DEF storeVars
<1>3. /\ work' \in [Sources -> [Slots -> Tasks]]
      /\ work'[s].late = Idle /\ work'[s].owner = work[s].owner
      /\ \A t \in Sources \ {s} : work'[t] = work[t]
  BY <1>1, TasksAre, SetTaskIs DEF Slots
<1>4. Placed(KindAt(s), cursor[s], work[s].owner, Idle)
  BY <1>1 DEF SourceInv, Placed
<1>5. cursor' = cursor /\ cursor' \in [Sources -> Nat] /\ disturbed' = disturbed /\ cursor[s] \in Nat
      /\ work[s].owner.at \in Nat
  BY <1>1, WorkIs DEF Shapes, Tasks
<1>6. s \notin disturbed /\ Told(s) =>
        Kept(KindAt(s), WantAt(s), cursor[s], work[s].owner, points[s], ledger[s])
  BY <1>1 DEF SourceInv
<1>7. cursor[s] <= cursor'[s] /\ work[s].owner.at <= work'[s].owner.at
  BY <1>3, <1>5
<1> QED
  BY <1>2, <1>3, <1>4, <1>5, <1>6, <1>7, QuietHandlerKeeps

\* The owner's task is over, by its offset commit or in the dead-letter topic.
LEMMA OwnerEndsKeeps ==
  ASSUME ProjInv, scenario.target \in VectorTargets, NEW s \in Sources,
         work[s].owner # Idle, SetTask(s, "owner", Idle),
         cursor' = IF work[s].owner.replay THEN cursor
                   ELSE [cursor EXCEPT ![s] = work[s].owner.at],
         \/ work[s].owner.todo = Done /\ disturbed' = disturbed
         \/ disturbed' = disturbed \cup {s},
         UNCHANGED <<vars, scenario, untold, vectorVars>>
  PROVE  ProjInv'
<1> DEFINE own == work[s].owner
           c == IF own.replay THEN cursor[s] ELSE own.at
<1>1. FeedInv /\ Shapes /\ SourceInv(s) /\ UNCHANGED <<vars, scenario, untold>>
  BY DEF ProjInv
<1>2. /\ own \in Tasks /\ own.at \in Nat /\ own.replay \in BOOLEAN /\ cursor[s] \in Nat
      /\ TaskOK(KindAt(s), own)
      /\ own.replay => own.at <= cursor[s]
      /\ ~own.replay => cursor[s] < own.at
      /\ Placed(KindAt(s), cursor[s], own, work[s].late)
  BY <1>1, WorkIs DEF SourceInv, Placed, Shapes, Tasks
<1>3. /\ work' \in [Sources -> [Slots -> Tasks]]
      /\ work'[s].owner = Idle /\ work'[s].late = work[s].late
      /\ \A t \in Sources \ {s} : work'[t] = work[t]
  BY <1>1, TasksAre, SetTaskIs DEF Slots
<1>4. /\ cursor'[s] = c /\ cursor' \in [Sources -> Nat]
      /\ \A t \in Sources \ {s} : cursor'[t] = cursor[t]
  BY <1>1, <1>2 DEF Shapes
<1>5. cursor[s] <= c /\ own.at <= c
  BY <1>2
<1>6. Placed(KindAt(s), c, Idle, work[s].late)
  <2>1. c \in DOMAIN KindAt(s) \cup {0} /\ DOMAIN KindAt(s) \subseteq Nat \ {0}
    BY <1>2 DEF Placed, TaskOK
  <2>2. work[s].late # Idle => TaskOK(KindAt(s), work[s].late) /\ work[s].late.at <= c
    <3>1. work[s].late.at \in Nat
      BY <1>1, WorkIs DEF Tasks
    <3> QED
      BY <1>2, <1>5, <3>1 DEF Placed
  <2> QED
    BY <2>1, <2>2 DEF Placed
<1> HIDE DEF own, c
<1>7. s \notin disturbed' /\ Told(s) => Kept(KindAt(s), WantAt(s), c, Idle, points[s], ledger[s])
  <2> SUFFICES ASSUME s \notin disturbed', Told(s)
               PROVE  Kept(KindAt(s), WantAt(s), c, Idle, points[s], ledger[s])
    OBVIOUS
  <2>1. own.todo = Done /\ s \notin disturbed /\ own # Idle
    BY DEF own
  <2>2. Kept(KindAt(s), WantAt(s), cursor[s], own, points[s], ledger[s])
    BY <1>1, <2>1 DEF SourceInv, own
  <2> QED
    BY <1>2, <2>1, <2>2, FinishKeeps DEF c
<1>8. \A t \in Sources \ {s} : t \in disturbed' <=> t \in disturbed
  OBVIOUS
<1>9. work[s].owner.at <= cursor'[s] /\ cursor[s] <= cursor'[s]
  BY <1>4, <1>5 DEF own
<1> QED
  BY <1>1, <1>3, <1>4, <1>6, <1>7, <1>8, <1>9, QuietHandlerKeeps

LEMMA CheckKeeps ==
  ASSUME ProjInv, scenario.target \in VectorTargets, NEW s \in Sources, NEW slot \in Slots,
         Check(s, slot)
  PROVE  ProjInv'
<1> DEFINE task == work[s][slot]
           e == EventOf(s, slot)
           todo == IF Fresh(s, e) THEN Tail(task.todo) ELSE << >>
           next == [task EXCEPT !.todo = todo, !.current = Current(s, e)]
<1>1. FeedInv /\ Shapes /\ SourceInv(s)
  BY DEF ProjInv
<1>2. /\ task # Idle /\ task.todo # Done /\ Head(task.todo) = "check"
      /\ UNCHANGED <<vars, scenario, cursor, disturbed, untold, vectorVars>>
  BY DEF Check, Step, Done, storeVars
<1>3. SetTask(s, slot, next)
  <2>1. SetTask(s, slot, [task EXCEPT
          !.todo = IF Fresh(s, EventOf(s, slot)) THEN Tail(@) ELSE << >>,
          !.current = Current(s, EventOf(s, slot))])
    BY DEF Check
  <2> QED
    BY <2>1
<1>4. task \in Tasks /\ TaskOK(KindAt(s), task)
  <2>1. CASE slot = "owner"
    BY <1>1, <1>2, <2>1, WorkIs DEF SourceInv, Placed
  <2>2. CASE slot = "late"
    BY <1>1, <1>2, <2>2, WorkIs DEF SourceInv, Placed
  <2> QED
    BY <2>1, <2>2 DEF Slots
<1>5. /\ task.at \in ConsumedAt(s) /\ e = Log(s)[task.at] /\ KindAt(s)[task.at] \in Kinds
      /\ task.todo \in Left(KindAt(s)[task.at])
  BY <1>1, <1>4, EventsAre DEF TaskOK, EventOf
<1>6. Current(s, e) \in BOOLEAN
  BY <1>1, <1>5, CurrentIsBoolean
<1>7. todo \in Todos
  <2>1. task.todo \in Todos
    BY <1>4 DEF Tasks
  <2>2. Tail(task.todo) \in Todos /\ << >> \in Todos
    BY <1>2, <2>1, TasksAre DEF Todos
  <2> QED
    BY <2>2
<1>8. /\ next \in Tasks /\ next.at = task.at /\ next.replay = task.replay
      /\ next.todo = todo /\ next.current = Current(s, e)
  <2> DEFINE current == Current(s, e)
  <2>1. next = [task EXCEPT !.todo = todo, !.current = current]
    OBVIOUS
  <2>2. current \in BOOLEAN
    BY <1>6
  <2> HIDE DEF todo, next, current, task
  <2>3. /\ next \in Tasks /\ next.at = task.at /\ next.replay = task.replay
        /\ next.todo = todo /\ next.current = current
    BY <1>4, <1>7, <2>1, <2>2 DEF Tasks
  <2> QED
    BY <2>3 DEF current
<1>9. next # Idle
  BY <1>4, <1>8 DEF TaskOK, Idle
<1>10. TaskOK(KindAt(s), next)
  <2>1. CASE Fresh(s, e)
    <3>1. next.todo = Tail(task.todo) /\ next.current
      BY <1>8, <2>1 DEF Fresh
    <3> HIDE DEF next, task
    <3> QED
      BY <1>2, <1>4, <1>8, <3>1, StepOK
  <2>2. CASE ~Fresh(s, e)
    <3>1. next.todo = Done
      BY <1>8, <2>2 DEF Done
    <3> HIDE DEF next, task
    <3> QED
      BY <1>4, <1>8, <3>1 DEF TaskOK, Left
  <2> QED
    BY <2>1, <2>2
<1>11. slot = "owner" /\ s \notin disturbed /\ Told(s) =>
         Kept(KindAt(s), WantAt(s), cursor[s], next, points[s], ledger[s])
  <2> SUFFICES ASSUME slot = "owner", s \notin disturbed, Told(s)
               PROVE  Kept(KindAt(s), WantAt(s), cursor[s], next, points[s], ledger[s])
    OBVIOUS
  <2>1. /\ Placed(KindAt(s), cursor[s], task, work[s].late)
        /\ Kept(KindAt(s), WantAt(s), cursor[s], task, points[s], ledger[s])
    BY <1>1, WorkIs DEF SourceInv
  <2>2. CASE Fresh(s, e)
    <3>1. next.todo = Tail(task.todo)
      BY <1>8, <2>2
    <3> HIDE DEF next, task, e
    <3> QED
      BY <1>2, <1>5, <1>8, <1>9, <2>1, <3>1, FreshKeeps
  <2>3. CASE ~Fresh(s, e)
    <3>1. next.todo = Done
      BY <1>8, <2>3 DEF Done
    <3>2. Later(KindAt(s), task.at)
      BY <1>1, <1>5, <2>3, StaleIsLater
    <3>3. task.todo = KindAt(s)[task.at]
      BY <1>2, <1>5, WritesAre
    <3> HIDE DEF next, task, e
    <3> QED
      BY <1>2, <1>5, <1>8, <1>9, <2>1, <3>1, <3>2, <3>3, StaleKeeps
  <2> QED
    BY <2>2, <2>3
<1>12. /\ work' \in [Sources -> [Slots -> Tasks]]
       /\ slot = "owner" => work'[s].owner = next /\ work'[s].late = work[s].late
       /\ slot = "late" => work'[s].late = next /\ work'[s].owner = work[s].owner
       /\ \A t \in Sources \ {s} : work'[t] = work[t]
  <2> HIDE DEF next
  <2> QED
    BY <1>1, <1>3, <1>8, SetTaskIs
<1>13. Placed(KindAt(s), cursor[s], work'[s].owner, work'[s].late)
  <2>1. Placed(KindAt(s), cursor[s], work[s].owner, work[s].late)
    BY <1>1 DEF SourceInv
  <2>2. CASE slot = "owner"
    <3>1. task = work[s].owner /\ work'[s].owner = next /\ work'[s].late = work[s].late
      BY <1>1, <1>12, <2>2, WorkIs
    <3> HIDE DEF next, task
    <3> QED
      BY <1>2, <1>8, <1>9, <1>10, <2>1, <3>1 DEF Placed
  <2>3. CASE slot = "late"
    <3>1. task = work[s].late /\ work'[s].late = next /\ work'[s].owner = work[s].owner
      BY <1>1, <1>12, <2>3, WorkIs
    <3> HIDE DEF next, task
    <3> QED
      BY <1>2, <1>8, <1>9, <1>10, <2>1, <3>1 DEF Placed
  <2> QED
    BY <2>2, <2>3 DEF Slots
<1>14. s \notin disturbed /\ Told(s) =>
         Kept(KindAt(s), WantAt(s), cursor[s], work'[s].owner, points[s], ledger[s])
  <2>1. CASE slot = "owner"
    BY <1>11, <1>12, <2>1
  <2>2. CASE slot = "late"
    BY <1>1, <1>12, <2>2 DEF SourceInv
  <2> QED
    BY <2>1, <2>2 DEF Slots
<1>15. cursor' = cursor /\ cursor' \in [Sources -> Nat] /\ disturbed' = disturbed /\ cursor[s] \in Nat
  BY <1>1, <1>2 DEF Shapes
<1>16. cursor[s] <= cursor'[s] /\ work[s].owner.at <= work'[s].owner.at
  <2>1. work[s].owner.at \in Nat
    BY <1>1, WorkIs DEF Tasks
  <2>2. work'[s].owner.at = work[s].owner.at
    <3>1. CASE slot = "owner"
      BY <1>1, <1>8, <1>12, <3>1, WorkIs
    <3>2. CASE slot = "late"
      BY <1>12, <3>2
    <3> QED
      BY <3>1, <3>2 DEF Slots
  <2> QED
    BY <1>15, <2>1, <2>2
<1> HIDE DEF next, task, e, todo
<1> QED
  BY <1>2, <1>12, <1>13, <1>14, <1>15, <1>16, QuietHandlerKeeps

-----------------------------------------------------------------------------
(***************************************************************************)
(* A write of a handler.                                                   *)
(***************************************************************************)
LEMMA VectorWriteIs ==
  ASSUME Shapes, NEW s \in Sources, NEW e, NEW step, VectorWrite(s, e, step)
  PROVE  /\ points' = [t \in Sources |-> points'[t]] /\ ledger' = [t \in Sources |-> ledger'[t]]
         /\ \A t \in Sources \ {s} : points'[t] = points[t] /\ ledger'[t] = ledger[t]
         /\ \/ step = "clear" /\ points'[s] = {} /\ ledger'[s] = ledger[s]
            \/ step = "clearStale" /\ points'[s] = OfDigest(points[s], e.input) /\ ledger'[s] = ledger[s]
            \/ /\ step = "upsert" /\ ledger'[s] = ledger[s]
               /\ points'[s] = {p \in points[s] : \A n \in PointsOf(e) : ~SamePoint(n, p)} \cup PointsOf(e)
            \/ step = "recordAll" /\ points'[s] = points[s] /\ ledger'[s] = Records(PointsOf(e))
            \/ /\ step = "recordOne" /\ points'[s] = points[s]
               /\ ledger'[s] = {r \in ledger[s] : \A n \in Records(PointsOf(e)) : n.item # r.item}
                                 \cup Records(PointsOf(e))
            \/ step = "forgetAll" /\ points'[s] = points[s] /\ ledger'[s] = {}
            \/ step = "forgetStale" /\ points'[s] = points[s] /\ ledger'[s] = OfDigest(ledger[s], e.input)
<1> USE DEF Shapes
<1>1. CASE step = "clear" /\ Clear(s)
  BY <1>1 DEF Clear
<1>2. CASE step = "clearStale" /\ ClearStale(s, e)
  BY <1>2 DEF ClearStale
<1>3. CASE step = "upsert" /\ Upsert(s, e)
  BY <1>3 DEF Upsert
<1>4. CASE step = "recordAll" /\ RecordAll(s, e)
  BY <1>4 DEF RecordAll, UpsertRecords
<1>5. CASE step = "recordOne" /\ RecordOne(s, e)
  BY <1>5 DEF RecordOne, UpsertRecords
<1>6. CASE step = "forgetAll" /\ ForgetAll(s)
  BY <1>6 DEF ForgetAll
<1>7. CASE step = "forgetStale" /\ ForgetStale(s, e)
  BY <1>7 DEF ForgetStale
<1> QED
  BY <1>1, <1>2, <1>3, <1>4, <1>5, <1>6, <1>7 DEF VectorWrite

\* A handler that writes a point or a record writes those of its event.
LEMMA PutsAre ==
  ASSUME scenario.target \in VectorTargets, NEW kind \in Kinds, NEW todo \in Left(kind), todo # Done,
         NEW e, kind = KindOf(scenario.target, e.type), e.type \in Consumed
  PROVE  /\ Head(todo) \in {"upsert", "recordAll", "recordOne"} =>
              /\ WantFor(scenario.target, e) = PointsOf(e)
              /\ e.type \notin Deletions /\ e.type # "FOLDER_SIGNALS_INVALIDATED"
         /\ Head(todo) \in {"clearStale", "forgetStale"} => e.type = "FOLDER_SIGNALS_INVALIDATED"
         /\ Head(todo) \in {"forgetAll", "clearStale", "forgetStale"} =>
              WantFor(scenario.target, e) = {}
         /\ Head(todo) = "recordOne" => kind = Put
         /\ Head(todo) = "upsert" => /\ todo \in {Refilling, RefillingOne}
                                     /\ todo \in Midway(kind)
<1>1. /\ kind = Drop <=> e.type \in Deletions
      /\ kind = Prune <=> e.type = "FOLDER_SIGNALS_INVALIDATED"
      /\ kind \in {Prune, Drop} => WantFor(scenario.target, e) = {}
      /\ kind \in {Replace, Put} => WantFor(scenario.target, e) = PointsOf(e)
  BY WantIs
<1>2. CASE kind = Replace
  <2>1. Head(todo) \in {"check", "clear", "upsert", "recordAll"}
        /\ (Head(todo) = "upsert" => todo = Refilling)
    BY <1>2, WritesAre, StepsGoOn, KindsDiffer
  <2> QED
    BY <1>1, <1>2, <2>1, KindsDiffer, LeftIs
<1>3. CASE kind = Put
  <2>1. Head(todo) \in {"check", "clear", "upsert", "recordOne"}
        /\ (Head(todo) = "upsert" => todo = RefillingOne)
    BY <1>3, WritesAre, StepsGoOn, KindsDiffer
  <2> QED
    BY <1>1, <1>3, <2>1, KindsDiffer, LeftIs
<1>4. CASE kind = Prune
  <2>1. Head(todo) \in {"check", "clearStale", "forgetStale"}
    BY <1>4, WritesAre, StepsGoOn, KindsDiffer
  <2> QED
    BY <1>1, <1>4, <2>1
<1>5. CASE kind = Drop
  <2>1. Head(todo) \in {"clear", "forgetAll"}
    BY <1>5, WritesAre, StepsGoOn, KindsDiffer
  <2> QED
    BY <1>1, <1>5, <2>1
<1> QED
  BY <1>2, <1>3, <1>4, <1>5 DEF Kinds

\* Whatever writes, a source has one item, and only what events brought.
LEMMA WriteKeepsItems ==
  ASSUME scenario.target \in VectorTargets, FeedInv, Shapes, NEW s \in Sources, NEW i \in ConsumedAt(s),
         NEW todo \in Left(KindAt(s)[i]), todo # Done, VectorWrite(s, Log(s)[i], Head(todo)),
         OneItem(scenario.target, ledger[s])
  PROVE  /\ OneItem(scenario.target, ledger'[s])
         /\ \A r \in points'[s] \cup ledger'[s] :
              \/ r \in points[s] \cup ledger[s]
              \/ scenario.target = "signals" /\ s \in Folders =>
                   Log(s)[i].type = "FOLDER_SIGNALS_INDEXED" /\ r.digest = Log(s)[i].input
<1> DEFINE e == Log(s)[i]
<1>1. /\ KindAt(s)[i] \in Kinds /\ KindAt(s)[i] = KindOf(scenario.target, e.type)
      /\ e.type \in Consumed
  BY EventsAre
<1>2. Head(todo) \in {"upsert", "recordAll", "recordOne"} =>
        e.type \notin Deletions /\ e.type # "FOLDER_SIGNALS_INVALIDATED"
  BY <1>1, PutsAre
<1>3. scenario.target = "signals" /\ s \in Folders =>
        e.type \in {"FOLDER_SIGNALS_INDEXED", "FOLDER_SIGNALS_INVALIDATED"} \cup Deletions
  <2> SUFFICES ASSUME scenario.target = "signals", s \in Folders
               PROVE  e.type \in {"FOLDER_SIGNALS_INDEXED", "FOLDER_SIGNALS_INVALIDATED"} \cup Deletions
    OBVIOUS
  <2>1. e.type \in SignalTypes
    BY LastOfSignals
  <2> QED
    BY <2>1 DEF SignalTypes, Deletions
<1> HIDE DEF e
<1>4. \A r \in points'[s] \cup ledger'[s] :
        \/ r \in points[s] \cup ledger[s]
        \/ /\ Head(todo) \in {"upsert", "recordAll", "recordOne"}
           /\ r \in PointsOf(e) \cup Records(PointsOf(e))
  BY VectorWriteIs DEF OfDigest, e
<1>5. OneItem(scenario.target, ledger'[s])
  <2> SUFFICES ASSUME scenario.target \in {"documents", "folders"}, NEW r \in ledger'[s]
               PROVE  r.item = IF scenario.target = "documents" THEN "document" ELSE "folder"
    BY DEF OneItem
  <2>1. CASE r \in ledger[s]
    BY <2>1 DEF OneItem
  <2>2. CASE r \notin ledger[s]
    <3>1. r \in Records(PointsOf(e)) /\ Head(todo) \in {"recordAll", "recordOne"}
      BY <2>2, VectorWriteIs DEF OfDigest, e
    <3>2. \E q : Records(PointsOf(e)) = {q} /\ q.item = ItemOf
      BY <1>1, <1>2, <3>1, OneRecord
    <3>3. r.item = ItemOf
      BY <3>1, <3>2
    <3> QED
      BY <3>3 DEF ItemOf
  <2> QED
    BY <2>1, <2>2
<1>6. ASSUME NEW r \in points'[s] \cup ledger'[s], r \notin points[s] \cup ledger[s],
             scenario.target = "signals", s \in Folders
      PROVE  e.type = "FOLDER_SIGNALS_INDEXED" /\ r.digest = e.input
  <2>1. r \in PointsOf(e) \cup Records(PointsOf(e)) /\ e.type = "FOLDER_SIGNALS_INDEXED"
    BY <1>2, <1>3, <1>4, <1>6
  <2> QED
    BY <1>6, <2>1, OneDigest
<1> QED
  BY <1>5, <1>6 DEF e

\* Nothing is left of what an invalidation's first place in the log is behind.
LEMMA NothingStale ==
  ASSUME FeedInv, scenario.target = "signals", NEW s \in Folders, Told(s), NEW i \in ConsumedAt(s),
         NEW c \in Nat, NEW own, own.at = i, NEW P, NEW G,
         Newest(KindAt(s), c, i), Sourced(Log(s), ConsumedAt(s), c, own, P, G),
         Log(s)[i].type = "FOLDER_SIGNALS_INVALIDATED"
  PROVE  OfDigest(P, Log(s)[i].input) = {} /\ OfDigest(G, Log(s)[i].input) = {}
<1> DEFINE log == Log(s)
<1>1. /\ log \in Seq(FolderEvents) /\ Preceded(log) /\ Once(log)
  <2>1. s \notin Documents /\ s \notin untold
    BY FeedAssumption DEF Told
  <2>2. log = folderEvents[s] /\ log \in Seq(FolderEvents) /\ Once(log)
    BY <2>1 DEF Log, FeedInv, LogInv, FolderLog
  <2>3. SignalLog(log, Live(s), folderIndex[s].signalInput)
    BY <2>1, <2>2 DEF FeedInv
  <2> QED
    BY <2>2, <2>3 DEF SignalLog
<1>2. /\ ConsumedAt(s) \subseteq DOMAIN log /\ DOMAIN KindAt(s) = ConsumedAt(s)
      /\ DOMAIN log \subseteq Nat
  BY <1>1 DEF ConsumedAt, KindAt
<1> HIDE DEF log
<1>3. ASSUME NEW r \in P \cup G, r.digest = log[i].input PROVE FALSE
  <2>1. PICK j \in ConsumedAt(s) : /\ log[j].type = "FOLDER_SIGNALS_INDEXED"
                                   /\ log[j].input = r.digest
                                   /\ j <= c \/ j <= i
    BY DEF Sourced, log
  <2>2. j <= i
    <3>1. i < j => c < j
      BY <1>2, <2>1 DEF Newest
    <3> QED
      BY <1>2, <2>1, <3>1
  <2>3. PICK k \in DOMAIN log : /\ k < j /\ log[k].type = "FOLDER_SIGNALS_INVALIDATED"
                                /\ log[k].input = log[j].input
    BY <1>1, <1>2, <2>1 DEF Preceded
  <2>4. log[k] = log[i]
    <3>1. \A a, b \in FolderEvents :
            a.type = "FOLDER_SIGNALS_INVALIDATED" /\ b.type = "FOLDER_SIGNALS_INVALIDATED"
            /\ a.input = b.input => a = b
      BY DEF FolderEvents
    <3>2. log[k] \in FolderEvents /\ log[i] \in FolderEvents
      BY <1>1, <1>2, <2>3
    <3>3. log[i].type = "FOLDER_SIGNALS_INVALIDATED" /\ log[k].input = log[i].input
      BY <1>3, <2>1, <2>3 DEF log
    <3> QED
      BY <2>3, <3>1, <3>2, <3>3
  <2>5. k = i
    BY <1>1, <1>2, <2>3, <2>4 DEF Once
  <2> QED
    BY <1>2, <2>1, <2>2, <2>3, <2>5
<1> QED
  BY <1>3 DEF OfDigest, log

\* Invalidations are events of folders, for the target of signals.
LEMMA InvalidationsAre ==
  ASSUME FeedInv, scenario.target \in VectorTargets, NEW s \in Sources, NEW i \in ConsumedAt(s),
         Log(s)[i].type = "FOLDER_SIGNALS_INVALIDATED"
  PROVE  scenario.target = "signals" /\ s \in Folders
<1>1. scenario.target = "signals"
  <2>1. "FOLDER_SIGNALS_INVALIDATED" \in Consumed
    BY DEF ConsumedAt
  <2> QED
    BY <2>1, ConsumedIs DEF VectorTargets, ChunkEvents, DocumentVectorEvents, FolderVectorEvents
<1>2. s \notin Documents
  <2> SUFFICES ASSUME s \in Documents PROVE FALSE
    OBVIOUS
  <2>1. Log(s) \in Seq(DocumentEvents) /\ i \in DOMAIN Log(s)
    BY DEF FeedInv, LogInv, DocumentLog, Log, ConsumedAt
  <2>2. Log(s)[i] \in DocumentEvents
    BY <2>1
  <2>3. \A e \in DocumentEvents : e.type # "FOLDER_SIGNALS_INVALIDATED"
    BY DEF DocumentEvents
  <2> QED
    BY <2>2, <2>3
<1> QED
  BY <1>1, <1>2 DEF Sources

LEMMA OwnerWrote ==
  ASSUME scenario.target \in VectorTargets, FeedInv, Shapes, NEW s \in Sources, SourceInv(s), Told(s),
         work[s].owner # Idle, work[s].owner.todo # Done, Head(work[s].owner.todo) # "check",
         VectorWrite(s, Log(s)[work[s].owner.at], Head(work[s].owner.todo)),
         Newest(KindAt(s), cursor[s], work[s].owner.at),
         work[s].owner.todo \in Midway(KindAt(s)[work[s].owner.at]) =>
           Half(WantAt(s), work[s].owner, points[s])
  PROVE  Wrote(WantAt(s), work[s].owner, points[s], ledger[s], points'[s], ledger'[s])
<1> DEFINE own == work[s].owner
           e == Log(s)[own.at]
           step == Head(own.todo)
           W == WantAt(s)
           P == points[s]
           G == ledger[s]
           P2 == points'[s]
           G2 == ledger'[s]
<1>1. /\ own.at \in ConsumedAt(s) /\ KindAt(s)[own.at] \in Kinds
      /\ own.todo \in Left(KindAt(s)[own.at])
      /\ KindAt(s)[own.at] = KindOf(scenario.target, e.type) /\ e.type \in Consumed
      /\ W[own.at] = WantFor(scenario.target, e)
      /\ cursor[s] \in Nat
  <2>1. TaskOK(KindAt(s), own)
    BY DEF SourceInv, Placed
  <2>2. own.at \in ConsumedAt(s)
    BY <2>1, EventsAre DEF TaskOK
  <2> QED
    BY <2>1, <2>2, EventsAre DEF TaskOK, Shapes
<1>2. /\ step \in {"upsert", "recordAll", "recordOne"} =>
           /\ W[own.at] = PointsOf(e)
           /\ e.type \notin Deletions /\ e.type # "FOLDER_SIGNALS_INVALIDATED"
      /\ step \in {"clearStale", "forgetStale"} => e.type = "FOLDER_SIGNALS_INVALIDATED"
      /\ step = "recordOne" => KindAt(s)[own.at] = Put
      /\ step = "upsert" => /\ own.todo \in {Refilling, RefillingOne}
                            /\ own.todo \in Midway(KindAt(s)[own.at])
  BY <1>1, PutsAre
<1>3. \/ step = "clear" /\ P2 = {} /\ G2 = G
      \/ step = "clearStale" /\ P2 = OfDigest(P, e.input) /\ G2 = G
      \/ /\ step = "upsert" /\ G2 = G
         /\ P2 = {p \in P : \A n \in PointsOf(e) : ~SamePoint(n, p)} \cup PointsOf(e)
      \/ step = "recordAll" /\ P2 = P /\ G2 = Records(PointsOf(e))
      \/ /\ step = "recordOne" /\ P2 = P
         /\ G2 = {r \in G : \A n \in Records(PointsOf(e)) : n.item # r.item}
                   \cup Records(PointsOf(e))
      \/ step = "forgetAll" /\ P2 = P /\ G2 = {}
      \/ step = "forgetStale" /\ P2 = P /\ G2 = OfDigest(G, e.input)
  BY VectorWriteIs
<1>4. step \in {"clearStale", "forgetStale"} => OfDigest(P, e.input) = {} /\ OfDigest(G, e.input) = {}
  <2> SUFFICES ASSUME step \in {"clearStale", "forgetStale"}
               PROVE  OfDigest(P, e.input) = {} /\ OfDigest(G, e.input) = {}
    OBVIOUS
  <2>1. e.type = "FOLDER_SIGNALS_INVALIDATED"
    BY <1>2
  <2>2. scenario.target = "signals" /\ s \in Folders
    BY <1>1, <2>1, InvalidationsAre
  <2>3. Sourced(Log(s), ConsumedAt(s), cursor[s], own, P, G)
    BY <2>2 DEF SourceInv
  <2> HIDE DEF P, G
  <2> QED
    BY <1>1, <2>1, <2>2, <2>3, NothingStale
<1>5. KindAt(s)[own.at] = Put /\ step = "recordOne" =>
        {r \in G : \A n \in Records(PointsOf(e)) : n.item # r.item} = {}
  <2> SUFFICES ASSUME KindAt(s)[own.at] = Put, step = "recordOne"
               PROVE  {r \in G : \A n \in Records(PointsOf(e)) : n.item # r.item} = {}
    OBVIOUS
  <2>1. scenario.target \in {"documents", "folders"}
    BY <1>1, WantIs
  <2>2. \E r : Records(PointsOf(e)) = {r} /\ r.item = ItemOf
    BY <1>1, <1>2, <2>1, OneRecord
  <2>3. \A r \in G : r.item = ItemOf
    BY <2>1 DEF SourceInv, OneItem, ItemOf
  <2> QED
    BY <2>2, <2>3
<1>6. step = "upsert" => P = {}
  <2> SUFFICES ASSUME step = "upsert" PROVE P = {}
    OBVIOUS
  <2>1. Half(W, own, P)
    BY <1>2
  <2>2. Refilling \notin {RecordingAll, RecordingOne} /\ RefillingOne \notin {RecordingAll, RecordingOne}
    BY StepsGoOn
  <2> QED
    BY <1>2, <2>1, <2>2 DEF Half
<1> HIDE DEF own, e, step, W, P, G, P2, G2
<1>7. CASE step = "upsert"
  <2>1. P2 = {p \in P : \A n \in PointsOf(e) : ~SamePoint(n, p)} \cup PointsOf(e) /\ G2 = G
    BY <1>3, <1>7
  <2>2. {p \in P : \A n \in PointsOf(e) : ~SamePoint(n, p)} = {}
    BY <1>6, <1>7
  <2>3. P2 = W[own.at]
    BY <1>2, <1>7, <2>1, <2>2
  <2>4. Wrote(W, own, P, G, P2, G2)
    BY <1>7, <2>1, <2>3 DEF Wrote, step
  <2> QED
    BY <2>4 DEF W, own, P, G, P2, G2
<1>8. CASE step \in {"recordAll", "recordOne"}
  <2>1. P2 = P /\ G2 = Records(PointsOf(e))
    BY <1>2, <1>3, <1>5, <1>8
  <2>2. W[own.at] = PointsOf(e)
    BY <1>2, <1>8
  <2>3. Wrote(W, own, P, G, P2, G2)
    BY <1>8, <2>1, <2>2 DEF Wrote, step
  <2> QED
    BY <2>3 DEF W, own, P, G, P2, G2
<1>9. CASE step \in {"clear", "clearStale", "forgetAll", "forgetStale"}
  <2>1. Wrote(W, own, P, G, P2, G2)
    BY <1>3, <1>4, <1>9 DEF Wrote, step
  <2> QED
    BY <2>1 DEF W, own, P, G, P2, G2
<1>10. step \in {"clear", "clearStale", "upsert", "recordAll", "recordOne", "forgetAll", "forgetStale"}
  BY <1>3
<1> QED
  BY <1>7, <1>8, <1>9, <1>10

LEMMA WriteKeeps ==
  ASSUME ProjInv, scenario.target \in VectorTargets, NEW s \in Sources, NEW slot \in Slots,
         Write(s, slot)
  PROVE  ProjInv'
<1> DEFINE task == work[s][slot]
           e == EventOf(s, slot)
           K == KindAt(s)
           next == [task EXCEPT !.todo = Tail(@)]
           own2 == IF slot = "owner" THEN next ELSE work[s].owner
           late2 == IF slot = "late" THEN next ELSE work[s].late
<1>1. FeedInv /\ Shapes /\ SourceInv(s)
  BY DEF ProjInv
<1>2. /\ task # Idle /\ task.todo # Done
      /\ VectorWrite(s, e, Head(task.todo)) /\ Head(task.todo) # "check"
      /\ UNCHANGED <<vars, scenario, untold>> /\ UNCHANGED cursor
      /\ SetTask(s, slot, next)
      /\ disturbed' = IF Disturbs(s, slot) THEN disturbed \cup {s}
                      ELSE IF Heals(s, slot) THEN disturbed \ {s} ELSE disturbed
  <2>1. /\ task # Idle /\ task.todo # Done /\ SetTask(s, slot, next)
        /\ UNCHANGED <<vars, scenario, untold>> /\ UNCHANGED cursor
        /\ disturbed' = IF Disturbs(s, slot) THEN disturbed \cup {s}
                        ELSE IF Heals(s, slot) THEN disturbed \ {s} ELSE disturbed
    BY DEF Write, Done
  <2>2. scenario.target # "graph"
    BY DEF VectorTargets
  <2>3. VectorWrite(s, e, Head(task.todo))
    BY <2>2 DEF Write, Step
  <2>4. Head(task.todo) # "check"
    BY <2>3 DEF VectorWrite
  <2> QED
    BY <2>1, <2>3, <2>4
<1>3. /\ task \in Tasks /\ TaskOK(K, task) /\ task.at \in Nat \ {0}
      /\ cursor[s] \in Nat
      /\ Placed(K, cursor[s], work[s].owner, work[s].late)
      /\ work[s].owner \in Tasks /\ work[s].late \in Tasks
  <2>1. Placed(K, cursor[s], work[s].owner, work[s].late) /\ cursor[s] \in Nat
        /\ work[s].owner \in Tasks /\ work[s].late \in Tasks
    BY <1>1, WorkIs DEF SourceInv, Shapes
  <2>2. CASE slot = "owner"
    BY <1>1, <1>2, <2>1, <2>2, WorkIs DEF Placed, TaskOK
  <2>3. CASE slot = "late"
    BY <1>1, <1>2, <2>1, <2>3, WorkIs DEF Placed, TaskOK
  <2> QED
    BY <2>1, <2>2, <2>3 DEF Slots
<1>4. /\ task.at \in ConsumedAt(s) /\ e = Log(s)[task.at] /\ K[task.at] \in Kinds
      /\ task.todo \in Left(K[task.at])
      /\ K[task.at] = KindOf(scenario.target, e.type) /\ K[task.at] = Steps(e)
      /\ DOMAIN K = ConsumedAt(s) /\ ConsumedAt(s) \subseteq Nat \ {0}
  BY <1>1, <1>3, EventsAre DEF TaskOK, EventOf, StepsAt
<1>5. /\ next \in Tasks /\ next.at = task.at /\ next.replay = task.replay
      /\ next.todo = Tail(task.todo) /\ next.current = task.current /\ next # Idle
  <2>1. Tail(task.todo) \in Todos
    BY <1>2, <1>3, TasksAre DEF Tasks
  <2>2. /\ next \in Tasks /\ next.at = task.at /\ next.replay = task.replay
        /\ next.todo = Tail(task.todo) /\ next.current = task.current
    BY <1>3, <2>1 DEF Tasks
  <2> QED
    BY <1>3, <2>2 DEF Idle
<1>6. TaskOK(K, next)
  <2> HIDE DEF next, task, K
  <2> QED
    BY <1>2, <1>3, <1>5, StepOK
<1>7. /\ work' \in [Sources -> [Slots -> Tasks]]
      /\ work'[s].owner = own2 /\ work'[s].late = late2
      /\ \A t \in Sources \ {s} : work'[t] = work[t]
  <2>1. /\ work' \in [Sources -> [Slots -> Tasks]]
        /\ slot = "owner" => work'[s].owner = next /\ work'[s].late = work[s].late
        /\ slot = "late" => work'[s].late = next /\ work'[s].owner = work[s].owner
        /\ \A t \in Sources \ {s} : work'[t] = work[t]
    <3> HIDE DEF next
    <3> QED
      BY <1>1, <1>2, <1>5, SetTaskIs
  <2> HIDE DEF next
  <2> QED
    BY <2>1 DEF Slots
<1>8. own2.at = work[s].owner.at /\ own2.replay = work[s].owner.replay
      /\ (own2 # Idle <=> work[s].owner # Idle) /\ late2.at = work[s].late.at
  <2>1. CASE slot = "owner"
    <3>1. task = work[s].owner /\ own2 = next /\ late2 = work[s].late
      BY <1>1, <2>1, WorkIs
    <3> HIDE DEF next, own2, late2, task
    <3> QED
      BY <1>2, <1>5, <3>1
  <2>2. CASE slot = "late"
    <3>1. task = work[s].late /\ late2 = next /\ own2 = work[s].owner
      BY <1>1, <2>2, WorkIs
    <3> HIDE DEF next, own2, late2, task
    <3> QED
      BY <1>2, <1>5, <3>1
  <2> QED
    BY <2>1, <2>2 DEF Slots
<1>9. Placed(K, cursor[s], own2, late2)
  <2>1. own2 # Idle => TaskOK(K, own2)
    <3>1. own2 = next \/ own2 = work[s].owner
      OBVIOUS
    <3> HIDE DEF next, own2
    <3> QED
      BY <1>3, <1>6, <3>1 DEF Placed
  <2>2. late2 # Idle => TaskOK(K, late2) /\ work[s].late # Idle
    <3>1. \/ late2 = next /\ task = work[s].late
          \/ late2 = work[s].late
      BY <1>1, WorkIs
    <3> HIDE DEF next, late2
    <3> QED
      BY <1>2, <1>3, <1>6, <3>1 DEF Placed
  <2> HIDE DEF own2, late2
  <2> QED
    BY <1>3, <1>8, <2>1, <2>2 DEF Placed
<1>10. /\ OneItem(scenario.target, ledger'[s])
       /\ \A r \in points'[s] \cup ledger'[s] :
              \/ r \in points[s] \cup ledger[s]
              \/ scenario.target = "signals" /\ s \in Folders =>
                   e.type = "FOLDER_SIGNALS_INDEXED" /\ r.digest = e.input
  <2>1. OneItem(scenario.target, ledger[s])
    BY <1>1 DEF SourceInv
  <2>2. VectorWrite(s, Log(s)[task.at], Head(task.todo))
    BY <1>2, <1>4
  <2> HIDE DEF task, e
  <2> QED
    BY <1>1, <1>2, <1>4, <2>1, <2>2, WriteKeepsItems
<1>11. scenario.target = "signals" /\ s \in Folders =>
         Sourced(Log(s), ConsumedAt(s), cursor[s], own2, points'[s], ledger'[s])
  <2> SUFFICES ASSUME scenario.target = "signals", s \in Folders
               PROVE  Sourced(Log(s), ConsumedAt(s), cursor[s], own2, points'[s], ledger'[s])
    OBVIOUS
  <2>1. Sourced(Log(s), ConsumedAt(s), cursor[s], work[s].owner, points[s], ledger[s])
    BY <1>1 DEF SourceInv
  <2>2. task.at <= cursor[s] \/ task.at <= own2.at
    <3>1. task.at = work[s].owner.at \/ task = work[s].late
      BY <1>1, WorkIs DEF Slots
    <3>2. work[s].owner.at \in Nat
      BY <1>3 DEF Tasks
    <3> HIDE DEF task, own2
    <3> QED
      BY <1>2, <1>3, <1>8, <3>1, <3>2 DEF Placed
  <2> HIDE DEF task, e, own2
  <2> QED
    BY <1>4, <1>8, <1>10, <2>1, <2>2 DEF Sourced
<1>12. ASSUME s \notin disturbed', Told(s)
       PROVE  Kept(K, WantAt(s), cursor[s], own2, points'[s], ledger'[s])
  <2>1. ~Disturbs(s, slot) /\ (s \in disturbed => Heals(s, slot))
    BY <1>2, <1>12
  <2>2. task.current \/ e.type \in Deletions
    <3>1. task.todo \notin {K[task.at], Done} \/ K[task.at] = Drop
      BY <1>2, <1>4, WritesGoOn
    <3>2. K[task.at] = Drop => e.type \in Deletions
      BY <1>4, WantIs
    <3> QED
      BY <1>3, <3>1, <3>2 DEF TaskOK
  <2>3. /\ InOrder(s, slot)
        /\ slot = "late" => ~OwnerHasWritten(s, Writes(e))
    BY <2>1, <2>2 DEF Disturbs
  <2>4. Newest(K, cursor[s], task.at)
    <3>1. \A i \in ConsumedAt(s) : ~(task.at < i /\ i <= cursor[s])
      BY <2>3 DEF InOrder
    <3> HIDE DEF task, K
    <3> QED
      BY <1>3, <1>4, <3>1 DEF Newest
  <2>5. CASE slot = "owner"
    <3>1. task = work[s].owner /\ own2 = next
      BY <1>1, <2>5, WorkIs
    <3>2. ASSUME task.todo \in Midway(K[task.at]) PROVE Half(WantAt(s), task, points[s])
      <4>1. ~Heals(s, slot)
        <5>1. Writes(e) \in Unbegun(K[task.at])
          BY <1>4, WritesOf
        <5>2. Writes(e) \notin Midway(K[task.at])
          BY <1>4, <5>1, LeftDiffers
        <5> QED
          BY <3>2, <5>2 DEF Heals
      <4>2. Kept(K, WantAt(s), cursor[s], work[s].owner, points[s], ledger[s])
        BY <1>1, <1>12, <2>1, <4>1 DEF SourceInv
      <4> QED
        BY <1>2, <3>1, <3>2, <4>2 DEF Kept
    <3>3. Wrote(WantAt(s), task, points[s], ledger[s], points'[s], ledger'[s])
      <4> HIDE DEF next, own2
      <4> QED
        BY <1>1, <1>2, <1>4, <1>12, <2>4, <3>1, <3>2, OwnerWrote
    <3>4. K[task.at] \in {Prune, Drop} => WantAt(s)[task.at] = {}
      BY <1>1, <1>4, EventsAre, WantIs
    <3>5. Placed(K, cursor[s], task, work[s].late)
      BY <1>3, <3>1
    <3> DEFINE W == WantAt(s)
    <3> HIDE DEF next, own2, task, K, W
    <3>6. Kept(K, W, cursor[s], own2, points'[s], ledger'[s])
      BY <1>2, <1>5, <2>4, <3>1, <3>2, <3>3, <3>4, <3>5, OwnerWriteKeeps DEF W
    <3> QED
      BY <3>6 DEF W
  <2>6. CASE slot = "late"
    <3>1. task = work[s].late /\ own2 = work[s].owner
      BY <1>1, <2>6, WorkIs
    <3>2. IF work[s].owner.at = task.at THEN ~(Len(work[s].owner.todo) < Len(Writes(e)))
          ELSE ~(task.at <= cursor[s])
      BY <2>3, <2>6, <3>1 DEF OwnerHasWritten
    <3>3. work[s].owner # Idle /\ work[s].owner.at = task.at
      BY <1>2, <1>3, <3>1, <3>2 DEF Placed, Idle
    <3>4. work[s].owner.todo \in Left(K[task.at]) /\ work[s].owner.todo \notin Midway(K[task.at])
          /\ work[s].owner.todo # Done
      <4>1. work[s].owner.todo \in Left(K[task.at])
        BY <1>3, <3>3 DEF Placed, TaskOK
      <4>2. \A todo \in Left(K[task.at]) : todo \in Midway(K[task.at]) => Len(todo) < Len(Writes(e))
        BY <1>4, WritesOf
      <4>3. Len(Done) = 0 /\ Len(Writes(e)) \in {2, 3}
        BY <1>4, WritesOf, StepLengths DEF Kinds
      <4>4. Len(Done) < Len(Writes(e))
        <5>1. CASE Len(Writes(e)) = 2
          BY <4>3, <5>1
        <5>2. CASE Len(Writes(e)) = 3
          BY <4>3, <5>2
        <5> QED
          BY <4>3, <5>1, <5>2
      <4> QED
        BY <3>2, <3>3, <4>1, <4>2, <4>4
    <3>5. work[s].owner.todo \in Unbegun(K[work[s].owner.at])
      BY <3>3, <3>4 DEF Left
    <3>6. Newest(K, cursor[s], work[s].owner.at)
      BY <2>4, <3>3
    <3> DEFINE W == WantAt(s)
               own == work[s].owner
    <3> HIDE DEF next, task, K, W
    <3>7. Kept(K, W, cursor[s], own, points'[s], ledger'[s])
      BY <1>3, <3>3, <3>5, <3>6, LateWriteKeeps
    <3> QED
      BY <3>1, <3>7 DEF W
  <2> QED
    BY <2>5, <2>6 DEF Slots
<1>13. Shapes'
  <2>1. points' = [t \in Sources |-> points'[t]] /\ ledger' = [t \in Sources |-> ledger'[t]]
    <3> HIDE DEF task, e
    <3> QED
      BY <1>1, <1>2, VectorWriteIs
  <2> QED
    BY <1>1, <1>2, <1>7, <2>1 DEF Shapes
<1>14. \A t \in Sources \ {s} :
         /\ cursor'[t] = cursor[t] /\ work'[t] = work[t] /\ points'[t] = points[t]
         /\ ledger'[t] = ledger[t] /\ (t \in disturbed' <=> t \in disturbed)
  <2>1. \A t \in Sources \ {s} : points'[t] = points[t] /\ ledger'[t] = ledger[t]
    <3> HIDE DEF task, e
    <3> QED
      BY <1>1, <1>2, VectorWriteIs
  <2>2. \A t \in Sources \ {s} : t \in disturbed' <=> t \in disturbed
    BY <1>2
  <2> QED
    BY <1>2, <1>7, <2>1, <2>2
<1> HIDE DEF task, e, K, next, own2, late2
<1>15. /\ Placed(KindAt(s), cursor'[s], work'[s].owner, work'[s].late)
       /\ scenario.target = "signals" /\ s \in Folders =>
            Sourced(Log(s), ConsumedAt(s), cursor'[s], work'[s].owner, points'[s], ledger'[s])
       /\ s \notin disturbed' /\ Told(s) =>
            Kept(KindAt(s), WantAt(s), cursor'[s], work'[s].owner, points'[s], ledger'[s])
  BY <1>2, <1>7, <1>9, <1>11, <1>12 DEF K
<1> QED
  BY <1>2, <1>10, <1>13, <1>14, <1>15, HandlerKeeps

-----------------------------------------------------------------------------
(***************************************************************************)
(* The write side, and the whole.                                          *)
(***************************************************************************)
LEMMA ViewGrows ==
  ASSUME FeedInv, FeedInv', scenario.target \in VectorTargets, scenario' = scenario, NEW s \in Sources,
         Grows(Log(s), Log(s)')
  PROVE  /\ \A i \in DOMAIN KindAt(s) :
              /\ i \in DOMAIN KindAt(s)' /\ KindAt(s)'[i] = KindAt(s)[i]
              /\ WantAt(s)'[i] = WantAt(s)[i] /\ Log(s)'[i] = Log(s)[i]
         /\ \A j \in DOMAIN KindAt(s)' \ DOMAIN KindAt(s) :
              j \in Nat \ {0} /\ \A i \in DOMAIN KindAt(s) : i < j
         /\ DOMAIN KindAt(s)' = ConsumedAt(s)' /\ DOMAIN KindAt(s) = ConsumedAt(s)
<1> DEFINE log == Log(s)
           new == Log(s)'
           target == scenario.target
           C == ConsumedAt(s)
           C2 == ConsumedAt(s)'
<1>1. Consumed' = Consumed
  BY DEF Consumed
<1>2. C = IF s \notin scenario.watched THEN {} ELSE {i \in DOMAIN log : log[i].type \in Consumed}
  BY DEF ConsumedAt
<1>3. C2 = IF s \notin scenario.watched THEN {} ELSE {i \in DOMAIN new : new[i].type \in Consumed}
  BY <1>1 DEF ConsumedAt
<1>4. KindAt(s) = [i \in C |-> KindOf(target, log[i].type)] /\ WantAt(s) = [i \in C |-> WantFor(target, log[i])]
  BY DEF KindAt, WantAt
<1>5. KindAt(s)' = [i \in C2 |-> KindOf(target, new[i].type)]
      /\ WantAt(s)' = [i \in C2 |-> WantFor(target, new[i])]
  BY DEF KindAt, WantAt
<1> HIDE DEF log, new, target, C, C2
<1>6. Grows(log, new)
  BY DEF log, new
<1>7. \A i \in C : i \in C2 /\ new[i] = log[i]
  BY <1>2, <1>3, <1>6 DEF Grows
<1>8. \A j \in C2 \ C : j \in DOMAIN new \ DOMAIN log
  BY <1>2, <1>3, <1>6 DEF Grows
<1>9. \A j \in C2 \ C : j \in Nat \ {0} /\ \A i \in C : i < j
  BY <1>2, <1>6, <1>8 DEF Grows
<1>10. DOMAIN KindAt(s) = C /\ DOMAIN KindAt(s)' = C2
  BY <1>4, <1>5
<1>11. \A i \in C : KindAt(s)'[i] = KindAt(s)[i] /\ WantAt(s)'[i] = WantAt(s)[i]
  BY <1>4, <1>5, <1>7
<1> QED
  BY <1>7, <1>9, <1>10, <1>11 DEF C, C2, log, new

LEMMA WriteSideKeepsInv ==
  ASSUME ProjInv, WriteSide, UNCHANGED storeVars
  PROVE  ProjInv'
<1>1. FeedInv /\ FeedInv' /\ LogsGrow
  BY WriteSideKeepsFeed DEF ProjInv
<1>2. /\ scenario' = scenario /\ cursor' = cursor /\ work' = work /\ disturbed' = disturbed
      /\ points' = points /\ ledger' = ledger
      /\ untold \subseteq untold' /\ untold' \subseteq Folders
  BY DEF WriteSide, storeVars, vectorVars, ProjInv
<1>3. ASSUME scenario.target \in VectorTargets, NEW s \in Sources
      PROVE  SourceInv(s)'
  <2> DEFINE K == KindAt(s)
             K2 == KindAt(s)'
             W == WantAt(s)
             W2 == WantAt(s)'
             own == work[s].owner
             late == work[s].late
             c == cursor[s]
             P == points[s]
             G == ledger[s]
  <2>1. /\ \A i \in DOMAIN K : i \in DOMAIN K2 /\ K2[i] = K[i] /\ W2[i] = W[i]
        /\ \A i \in DOMAIN K : Log(s)'[i] = Log(s)[i]
        /\ \A j \in DOMAIN K2 \ DOMAIN K : j \in Nat \ {0} /\ \A i \in DOMAIN K : i < j
        /\ DOMAIN K2 = ConsumedAt(s)' /\ DOMAIN K = ConsumedAt(s)
    <3>1. Grows(Log(s), Log(s)')
      BY <1>1 DEF LogsGrow
    <3> QED
      BY <1>1, <1>2, <1>3, <3>1, ViewGrows
  <2>2. SourceInv(s)
    BY <1>3 DEF ProjInv
  <2>3. Placed(K, c, own, late) /\ OneItem(scenario.target, G)
    BY <2>2 DEF SourceInv
  <2>4. Told(s)' => Told(s)
    BY <1>2 DEF Told
  <2>5. s \notin disturbed /\ Told(s) => Kept(K, W, c, own, P, G)
    BY <2>2 DEF SourceInv
  <2>6. scenario.target = "signals" /\ s \in Folders =>
          Sourced(Log(s)', ConsumedAt(s)', c, own, P, G)
    <3>1. scenario.target = "signals" /\ s \in Folders =>
            Sourced(Log(s), ConsumedAt(s), c, own, P, G)
      BY <2>2 DEF SourceInv
    <3> HIDE DEF K, K2, c, own, P, G
    <3> QED
      BY <2>1, <3>1 DEF Sourced
  <2> HIDE DEF K, K2, W, W2, own, late, c, P, G
  <2>7. /\ Placed(K2, c, own, late)
        /\ Kept(K, W, c, own, P, G) => Kept(K2, W2, c, own, P, G)
    BY <2>1, <2>3, GrowthKeeps
  <2> QED
    BY <1>2, <2>3, <2>4, <2>5, <2>6, <2>7 DEF SourceInv, K, K2, W, W2, own, late, c, P, G
<1>4. ASSUME scenario.target \in VectorTargets PROVE Shapes'
  BY <1>2, <1>4 DEF ProjInv, Shapes
<1> QED
  BY <1>1, <1>2, <1>3, <1>4 DEF ProjInv

LEMMA InitProj == ProjectionInit => ProjInv
<1> SUFFICES ASSUME ProjectionInit PROVE ProjInv
  OBVIOUS
<1>1. FeedInv
  BY InitFeed
<1>2. /\ cursor = [s \in Sources |-> 0] /\ untold = {}
      /\ work = [s \in Sources |-> [slot \in Slots |-> Idle]]
      /\ points = [s \in Sources |-> {}] /\ ledger = [s \in Sources |-> {}]
  BY DEF ProjectionInit, FeedInit, VectorInit
<1>3. Shapes
  BY <1>2, TasksAre DEF Shapes
<1>4. ASSUME scenario.target \in VectorTargets, NEW s \in Sources PROVE SourceInv(s)
  <2>1. cursor[s] = 0 /\ work[s].owner = Idle /\ work[s].late = Idle /\ points[s] = {} /\ ledger[s] = {}
    BY <1>2 DEF Slots
  <2>2. DOMAIN KindAt(s) \subseteq Nat \ {0}
    BY <1>1, <1>4, EventsAre
  <2>3. Placed(KindAt(s), 0, Idle, Idle)
    BY <2>2 DEF Placed
  <2>4. Kept(KindAt(s), WantAt(s), 0, Idle, {}, {})
    BY NoRecords DEF Kept, Settles, Agree
  <2>5. OneItem(scenario.target, {})
        /\ Sourced(Log(s), ConsumedAt(s), 0, Idle, {}, {})
    BY DEF OneItem, Sourced
  <2> QED
    BY <2>1, <2>3, <2>4, <2>5 DEF SourceInv
<1> QED
  BY <1>1, <1>2, <1>3, <1>4 DEF ProjInv

LEMMA NextProj == ProjInv /\ [ProjectionNext]_projectionVars => ProjInv'
<1> SUFFICES ASSUME ProjInv, [ProjectionNext]_projectionVars PROVE ProjInv'
  OBVIOUS
<1>1. CASE WriteSide /\ UNCHANGED storeVars
  BY <1>1, WriteSideKeepsInv
<1>2. CASE UNCHANGED projectionVars
  <2>1. /\ UNCHANGED <<vars, scenario, untold>> /\ UNCHANGED <<cursor, work, disturbed, points, ledger>>
    BY <1>2 DEF projectionVars, feedVars, vectorVars
  <2>2. FeedInv' /\ untold' \subseteq Folders /\ scenario' = scenario
    BY <2>1, HandlersKeepFeed DEF ProjInv
  <2>3. ASSUME scenario.target \in VectorTargets, NEW s \in Sources PROVE SourceInv(s)'
    <3>1. /\ Log(s)' = Log(s) /\ ConsumedAt(s)' = ConsumedAt(s)
          /\ KindAt(s)' = KindAt(s) /\ WantAt(s)' = WantAt(s)
          /\ Told(s)' = Told(s) /\ scenario' = scenario
      BY <2>1, SameView
    <3>2. SourceInv(s)
      BY <2>3 DEF ProjInv
    <3> QED
      BY <2>1, <3>1, <3>2 DEF SourceInv
  <2>4. ASSUME scenario.target \in VectorTargets PROVE Shapes'
    BY <2>1, <2>4 DEF ProjInv, Shapes
  <2> QED
    BY <2>2, <2>3, <2>4 DEF ProjInv
<1>3. ASSUME NEW s \in Sources,
             \/ Handle(s)
             \/ Retry(s) \/ DeadLetter(s) \/ LosePartition(s) \/ LateDies(s) \/ Replay(s)
      PROVE  ProjInv'
  <2>1. UNCHANGED <<vars, scenario, untold>>
    BY <1>3 DEF Handle, Receive, Check, Write, Finish, Retry, DeadLetter, LosePartition, LateDies,
                Replay
  <2>2. CASE scenario.target \notin VectorTargets
    <3>1. FeedInv' /\ untold' \subseteq Folders /\ scenario' = scenario
      BY <2>1, HandlersKeepFeed DEF ProjInv
    <3> QED
      BY <2>2, <3>1 DEF ProjInv
  <2>3. CASE scenario.target \in VectorTargets
    <3>1. CASE Receive(s)
      BY <2>3, <3>1, ReceiveKeeps
    <3>2. ASSUME NEW slot \in Slots, Check(s, slot) PROVE ProjInv'
      BY <2>3, <3>2, CheckKeeps
    <3>3. ASSUME NEW slot \in Slots, Write(s, slot) PROVE ProjInv'
      BY <2>3, <3>3, WriteKeeps
    <3>4. CASE Finish(s, "owner")
      <4>1. Shapes /\ work[s]["owner"] = work[s].owner
        BY <2>3, WorkIs DEF ProjInv
      <4>2. /\ work[s].owner # Idle /\ SetTask(s, "owner", Idle) /\ work[s].owner.todo = Done
            /\ cursor' = IF work[s].owner.replay THEN cursor
                         ELSE [cursor EXCEPT ![s] = work[s].owner.at]
            /\ disturbed' = disturbed /\ UNCHANGED <<vars, scenario, untold, vectorVars>>
        BY <3>4, <4>1 DEF Finish, storeVars, Done
      <4> QED
        BY <2>3, <4>2, OwnerEndsKeeps
    <3>5. CASE Finish(s, "late")
      <4>1. SetTask(s, "late", Idle) /\ UNCHANGED <<vars, scenario, cursor, disturbed, untold, storeVars>>
        BY <3>5 DEF Finish
      <4> QED
        BY <2>3, <4>1, LateDiesKeeps
    <3>6. CASE Retry(s) \/ LosePartition(s)
      BY <2>3, <3>6, RetryKeeps
    <3>7. CASE DeadLetter(s)
      <4>1. /\ work[s].owner # Idle /\ SetTask(s, "owner", Idle)
            /\ cursor' = IF work[s].owner.replay THEN cursor
                         ELSE [cursor EXCEPT ![s] = work[s].owner.at]
            /\ disturbed' = disturbed \cup {s} /\ UNCHANGED <<vars, scenario, untold, vectorVars>>
        BY <3>7 DEF DeadLetter, storeVars
      <4> QED
        BY <2>3, <4>1, OwnerEndsKeeps
    <3>8. CASE LateDies(s)
      <4>1. SetTask(s, "late", Idle) /\ UNCHANGED <<vars, scenario, cursor, disturbed, untold, storeVars>>
        BY <3>8 DEF LateDies
      <4> QED
        BY <2>3, <4>1, LateDiesKeeps
    <3>9. CASE Replay(s)
      BY <2>3, <3>9, ReplayKeeps
    <3> QED
      BY <1>3, <3>1, <3>2, <3>3, <3>4, <3>5, <3>6, <3>7, <3>8, <3>9 DEF Handle, Slots
  <2> QED
    BY <2>2, <2>3
<1> QED
  BY <1>1, <1>2, <1>3 DEF ProjectionNext

LEMMA ProjectionsAreKept == ProjectionSpec => []ProjInv
BY InitProj, NextProj, PTL DEF ProjectionSpec

\* For every scenario, any number of sources, versions and faults: once the events of a
\* document or a folder are handled, and nothing was written behind a later event, its
\* collection holds exactly the points of the version in the tables, whatever was retried,
\* handled twice, replayed, checked too early or written by a worker that had lost its
\* partition.
THEOREM VectorsAreCurrent == ProjectionSpec => []VectorsCurrent
BY ProjectionsAreKept, InvImpliesVectors, PTL

\* The same of the ledger in Postgres, which is written by another transaction after the
\* collection: it names what the collection holds.
THEOREM LedgerAgreesWithCollection == ProjectionSpec => []LedgerAgrees
BY ProjectionsAreKept, InvImpliesLedger, PTL

\* The same of a folder's signals, whose points are replaced, pruned by their digest or
\* deleted: those there were made of the folder's current input, and a deleted folder has
\* none, as long as no input came back whose invalidation the outbox dropped.
THEOREM FolderSignalVectorsAreCurrent == ProjectionSpec => []FolderSignalVectorsCurrent
BY ProjectionsAreKept, InvImpliesSignals, PTL

=============================================================================
