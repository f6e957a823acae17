----------------------------- MODULE PressQueue -----------------------------
(* The queue of presses handed to the soft key's firmware rather than sensed  *)
(* (android/okemu/src/okemu_press.cpp): a ring of Cap slots under one mutex,   *)
(* filled by the app's calls and emptied by the firmware thread, one press per *)
(* sense round and only while the loop holds none.                            *)
EXTENDS Integers, Sequences

CONSTANTS Cap,      \* OKEMU_PRESS_QUEUE_MAX
          Ticks,    \* the durations callers ask for (uint16_t in the code)
          Runs      \* the runs of presses callers pass, junk included

ASSUME CapAssumption == Cap \in Nat \ {0}
ASSUME RunsAssumption ==
  Ticks \subseteq Nat /\ Runs \subseteq Seq([button : Nat, ticks : Ticks])

\* A press the queue accepts: one of six buttons, for at least one tick.
Press == [button : 1..6, ticks : Ticks \ {0}]

VARIABLES q,         \* the ring: slot -> the press last stored in it
          head,      \* next to hand over
          tail,      \* next free slot
          count,     \* how many wait
          run,       \* the rest of the run a caller is storing, under the mutex
          loop       \* the loop's button_selected and key_press: at most one press

queueVars == <<q, head, tail, count, run>>
pqVars == <<q, head, tail, count, run, loop>>

Blank == [button |-> 0, ticks |-> 0]

PQInit ==
  /\ q = [i \in 0..(Cap - 1) |-> Blank]
  /\ head = 0 /\ tail = 0 /\ count = 0
  /\ run = <<>>
  /\ loop = <<>>

\* The ring's slot for a running position.
Slot(i) == i % Cap

\* The mutex is free: no caller is in the middle of its run.
Unlocked == run = <<>>

\* okemu_press_queue takes the lock; the loop over the run begins.
Queue(r) ==
  /\ Unlocked
  /\ run' = r
  /\ UNCHANGED <<q, head, tail, count, loop>>

\* One turn of its loop with a press of the run: stored if there is room.
Store ==
  /\ run # <<>>
  /\ count < Cap
  /\ Head(run) \in Press
  /\ q' = [q EXCEPT ![tail] = Head(run)]
  /\ tail' = Slot(tail + 1)
  /\ count' = count + 1
  /\ run' = Tail(run)
  /\ UNCHANGED <<head, loop>>

\* One turn with something that is not a press: skipped.
Skip ==
  /\ run # <<>>
  /\ count < Cap
  /\ Head(run) \notin Press
  /\ run' = Tail(run)
  /\ UNCHANGED <<q, head, tail, count, loop>>

\* The ring is full: the loop breaks, the rest of the run is refused.
Full ==
  /\ run # <<>>
  /\ count >= Cap
  /\ run' = <<>>
  /\ UNCHANGED <<q, head, tail, count, loop>>

\* The press at the head leaves the ring.
HandOver ==
  /\ Unlocked /\ count # 0
  /\ head' = Slot(head + 1)
  /\ count' = count - 1
  /\ UNCHANGED <<q, tail, run>>

(* Mutant: the newest press is handed over. *)
MutantTake ==
  /\ loop = <<>>
  /\ HandOver
  /\ loop' = <<q[Slot(tail + Cap - 1)]>>

\* okemu_press_take, on the firmware thread: nothing while the loop holds a
\* press or none waits; else the press at the head.
Take ==
  /\ loop = <<>>
  /\ HandOver
  /\ loop' = <<q[head]>>

\* The firmware's dispatch: payload() has the press, key_press is 0 again.
Dispatch ==
  /\ loop # <<>>
  /\ loop' = <<>>
  /\ UNCHANGED queueVars

Call == \E r \in Runs : Queue(r)

PQNext == Call \/ Store \/ Skip \/ Full \/ Take \/ Dispatch

PQSpec == PQInit /\ [][PQNext]_pqVars

-----------------------------------------------------------------------------
\* What waits, oldest first: count slots of the ring, from head on.
Waiting == [i \in 1..count |-> q[Slot(head + i - 1)]]

Fifo == INSTANCE PressFifo WITH waiting <- Waiting, held <- loop

\* The ring of okemu_press.cpp is a bounded first-in first-out queue: no press
\* is lost, repeated or overtaken while the indices go round, and nothing but
\* a press waits in it.
FifoSpec == Fifo!Spec

\* The ring's indices and its count agree, and every slot in use holds a
\* press: what okemu_press_queue and okemu_press_take leave behind each time.
RingOK ==
  /\ q \in [0..(Cap - 1) -> Press \cup {Blank}]
  /\ head \in 0..(Cap - 1) /\ tail \in 0..(Cap - 1) /\ count \in 0..Cap
  /\ tail = Slot(head + count)
  /\ \A i \in 0..(count - 1) : q[Slot(head + i)] \in Press
  /\ run \in Seq([button : Nat, ticks : Ticks])
  /\ loop = <<>> \/ \E p \in Press : loop = <<p>>
=============================================================================
