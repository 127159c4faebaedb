--------------------------- MODULE AtLeastOnceLog ---------------------------
(***************************************************************************)
(* What a projection target is promised of its partition of the outbox     *)
(* topic: messages are handled at least once, none is skipped, and none is *)
(* handled for the first time before all those ahead of it.                *)
(***************************************************************************)
EXTENDS Naturals, Sequences

CONSTANT Messages

VARIABLES log,      \* the messages of the partition
          handled,  \* offsets (from 1) whose message has been handled
          cursor    \* the messages up to it will not be delivered again

vars == <<log, handled, cursor>>

Init == log = << >> /\ handled = {} /\ cursor = 0

Publish == (\E m \in Messages : log' = Append(log, m)) /\ UNCHANGED <<handled, cursor>>

Handle ==
  /\ cursor < Len(log)
  /\ handled' = handled \cup {cursor + 1}
  /\ UNCHANGED <<log, cursor>>

Advance ==
  /\ cursor + 1 \in handled
  /\ cursor' = cursor + 1
  /\ UNCHANGED <<log, handled>>

Next == Publish \/ Handle \/ Advance

Spec == Init /\ [][Next]_vars
=============================================================================
