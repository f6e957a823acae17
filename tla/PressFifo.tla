------------------------------ MODULE PressFifo ------------------------------
(* What the press queue of android/okemu promises its callers: presses wait in *)
(* the order they were accepted, never more than Cap of them, and the firmware *)
(* loop is handed the oldest one, and only while it holds none.               *)
EXTENDS Integers, Sequences

CONSTANTS Cap,      \* how many presses may wait (OKEMU_PRESS_QUEUE_MAX)
          Press     \* the presses a caller may queue

VARIABLES waiting,  \* accepted and not yet handed over, oldest first
          held      \* what the loop holds: a sequence of at most one press

vars == <<waiting, held>>

Init == waiting = <<>> /\ held = <<>>

\* A caller's press joins the end of the queue, if there is room.
Put(p) ==
  /\ Len(waiting) < Cap
  /\ waiting' = Append(waiting, p)
  /\ UNCHANGED held

\* The loop, holding nothing, is handed the press that has waited longest.
Hand ==
  /\ held = <<>>
  /\ waiting # <<>>
  /\ held' = <<Head(waiting)>>
  /\ waiting' = Tail(waiting)

\* The loop is rid of the press it held.
Use ==
  /\ held # <<>>
  /\ held' = <<>>
  /\ UNCHANGED waiting

Next == Hand \/ Use \/ \E p \in Press : Put(p)

Spec == Init /\ [][Next]_vars
=============================================================================
