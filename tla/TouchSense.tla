----------------------------- MODULE TouchSense -----------------------------
(* How a press reaches the soft key's firmware, both ways the app has: a       *)
(* counted hold that emulates a finger (okemu_set_button_ticks, sensed round   *)
(* by round by touch_sense_loop) and a queued press (PressQueue, handed to the  *)
(* loop in the same function). The app arms one hold at a time and waits for    *)
(* its release to be seen (OkEmu.ts holdTicks, settleRelease). Holds, queued     *)
(* runs and hosts' requests come in any order.                                 *)
EXTENDS PressQueue

CONSTANTS Holds,           \* the holds callers ask for: [button, ticks]
          MaxHolds,        \* how many in one behaviour
          MaxRuns,         \* how many runs are queued in one behaviour
          Threshold,       \* touch_sense_loop's THRESHOLD
          RELEASE_ROUNDS   \* rounds the app waits after a hold

\* A hold the firmware takes for a press although it reads as one sample less
\* (HoldsStayApart), and rounds enough to see it end: a press is dispatched in
\* its third idle round. The app's shortest hold is a tap of ten.
ASSUME HoldsAssumption ==
  /\ Threshold \in Nat /\ Holds \subseteq [button : 1..6, ticks : Nat]
  /\ \A h \in Holds : h.ticks > Threshold + 1
ASSUME RoundsAssumption == RELEASE_ROUNDS \in Nat /\ RELEASE_ROUNDS > 2

VARIABLES ticks,     \* HAL: samples still owed, by button (0: not held)
          seen,      \* the pads that read as touched so far in this round
          stage,     \* the firmware thread: "read", "sense", "busy", "ended"
          selected,  \* button_selected
          key_on,    \* rounds in which any pad was touched, this press
          key_off,   \* idle rounds since; only "more than two" matters
          injected,  \* key_press came from the queue
          phase,     \* holdTicks: "idle", "armed", "released", "settling"
          since,     \* rounds run while settleRelease waits, up to RELEASE_ROUNDS
          late,      \* the loop was away in this hold: its ten seconds may be over
          running,   \* g_running
          asked,     \* history: holds armed
          handed,    \* history: presses the queue handed over
          sensed,    \* history: presses payload() was given that were sensed
          dequeued,  \* history: presses payload() was given from the queue
          crossed    \* history: how a press may have run into another so far:
                     \* "owed", "early", "queued" (HoldFails, SettleGivesUp,
                     \* QueueRun and Arm)

senseVars == <<ticks, seen, stage, selected, key_on, key_off, injected>>
appVars == <<phase, since, late>>
histVars == <<asked, handed, sensed, dequeued, crossed>>
tsVars == <<pqVars, senseVars, appVars, histVars, running>>

Pads == 1..6
LastPad == 6      \* the pad a round samples last (pin 16)

Lesser(a, b) == IF a < b THEN a ELSE b

TSInit ==
  /\ PQInit
  /\ ticks = [b \in Pads |-> 0]
  /\ seen = {} /\ stage = "read"
  /\ selected = 0 /\ key_on = 0 /\ key_off = 0 /\ injected = FALSE
  /\ phase = "idle" /\ since = 0 /\ late = FALSE
  /\ running = TRUE
  /\ asked = <<>> /\ handed = <<>> /\ sensed = <<>> /\ dequeued = <<>>
  /\ crossed = {}

-----------------------------------------------------------------------------
(* The app *)

\* The loop is away from its rounds: payload(), a host's report, or for good.
Away == stage \in {"busy", "ended"}

\* Remembered when a press may meet another one.
Crosses(why) == crossed' = crossed \cup {why}

\* holdTicks arms the hold: one call on the module's executor, which is free.
\* Handed presses may still wait for the loop or be held by it.
Arm(h) ==
  /\ running /\ Unlocked
  /\ phase = "idle" /\ Len(asked) < MaxHolds
  /\ ticks' = [ticks EXCEPT ![h.button] = h.ticks]
  /\ phase' = "armed" /\ late' = Away
  /\ asked' = Append(asked, h)
  /\ IF count # 0 \/ injected THEN Crosses("queued") ELSE UNCHANGED crossed
  /\ UNCHANGED <<pqVars, seen, stage, selected, key_on, key_off, injected,
                 since, running, handed, sensed, dequeued>>

LastAsked == asked[Len(asked)]

\* The call returns to its caller, or throws, which its caller swallows
\* (usePressQueue.ts): either way the next hold may come.
HoldReturns ==
  /\ phase' = "idle" /\ since' = 0 /\ late' = FALSE
  /\ UNCHANGED <<pqVars, senseVars, running, asked, handed, sensed, dequeued>>

\* Its poll finds the counter drained; a stopped firmware answers 0 as well.
HoldOver ==
  /\ phase = "armed"
  /\ ticks[LastAsked.button] = 0 \/ ~running
  /\ phase' = "released"
  /\ UNCHANGED <<pqVars, senseVars, since, late, running, histVars>>

\* The poll runs past the deadline of ten seconds with samples still owed:
\* holdTicks throws, and they stay owed.
HoldFails ==
  /\ phase = "armed" /\ late /\ running
  /\ ticks[LastAsked.button] # 0
  /\ Crosses("owed")
  /\ HoldReturns

\* settleRelease reads the round counter: from here on rounds are counted.
SettleBegins ==
  /\ phase = "released"
  /\ phase' = "settling"
  /\ UNCHANGED <<pqVars, senseVars, since, late, running, histVars>>

(* Mutant: the next hold may come as soon as the counter has drained. *)
MutantSettled == phase = "settling" /\ HoldReturns /\ UNCHANGED crossed

\* RELEASE_ROUNDS rounds have run since: the next hold may come.
Settled ==
  /\ phase = "settling" /\ since >= RELEASE_ROUNDS
  /\ HoldReturns /\ UNCHANGED crossed

\* The rounds do not advance, and at what is left of the deadline settleRelease
\* returns: as a rule from a hold that is being served; else it is too early.
SettleGivesUp ==
  /\ phase = "settling" /\ since < RELEASE_ROUNDS
  /\ late \/ ~running
  /\ IF Len(sensed) < Len(asked) THEN Crosses("early") ELSE UNCHANGED crossed
  /\ HoldReturns

\* A run of presses is queued, a hold under way or not; the ring takes it press
\* by press.
QueueRun(r) ==
  /\ running /\ Len(handed) + count < MaxRuns
  /\ Queue(r)
  /\ IF phase # "idle" THEN Crosses("queued") ELSE UNCHANGED crossed
  /\ UNCHANGED <<senseVars, appVars, asked, handed, sensed, dequeued, running>>

QueueStep ==
  /\ Store \/ Skip \/ Full
  /\ UNCHANGED <<senseVars, appVars, histVars, running>>

\* nativeStop, on the executor like the calls above. The firmware thread is
\* not joined: it goes on sensing, until it touches the flash.
Stop ==
  /\ running /\ Unlocked
  /\ running' = FALSE
  /\ UNCHANGED <<pqVars, senseVars, appVars, histVars>>

-----------------------------------------------------------------------------
(* The firmware thread: one round of touch_sense_loop *)

\* okemu_touch_for_pin for every pad but the last.
ReadPads ==
  /\ stage = "read"
  /\ seen' = {b \in Pads \ {LastPad} : ticks[b] > 0}
  /\ stage' = "sense"
  /\ UNCHANGED <<pqVars, ticks, selected, key_on, key_off, injected, appVars,
                 histVars, running>>

\* The last pad is read and reported, and only then every counter ages.
Touched == seen \cup {b \in {LastPad} : ticks[b] > 0}
Aged == [b \in Pads |-> IF ticks[b] > 0 THEN ticks[b] - 1 ELSE 0]

\* The chain of branches credits one pad; with none touched the press ends.
PressAfter ==
  CASE Touched # {} -> <<>>
    [] Touched = {} /\ key_on > Threshold -> <<[button |-> selected, ticks |-> key_on]>>
    [] OTHER -> loop

OffAfter == IF Touched # {} THEN 0 ELSE Lesser(key_off + 1, 3)
OnAfter == IF Touched # {} THEN key_on + 1 ELSE key_on
SelectedAfter ==
  IF Touched # {} THEN CHOOSE b \in Touched : \A c \in Touched : b <= c ELSE selected
InjectedAfter == injected /\ PressAfter = loop

\* okemu_press_take, in the round, after the branches: what the loop then holds.
(* Mutant: a press the loop has not dispatched is overwritten. *)
MutantHanding == count # 0 /\ Unlocked
(* Mutant: the last press of the queue is not handed over. *)
MutantHandingOne == PressAfter = <<>> /\ count > 1
Handing == PressAfter = <<>> /\ count # 0
Holding == IF Handing THEN <<q[head]>> ELSE PressAfter
FromQueue == Handing \/ InjectedAfter

TakeInRound ==
  \/ Handing /\ HandOver /\ handed' = Append(handed, q[head])
  \/ ~Handing /\ (PressAfter # <<>> \/ Unlocked) /\ UNCHANGED <<queueVars, handed>>

\* The press is complete: payload() runs, for as long as it takes.
Serve ==
  /\ Holding # <<>> /\ OffAfter > 2
  /\ IF FromQueue
     THEN dequeued' = dequeued \o Holding /\ UNCHANGED sensed
     ELSE sensed' = sensed \o Holding /\ UNCHANGED dequeued
  /\ loop' = <<>> /\ injected' = FALSE
  /\ key_on' = 0
  /\ stage' \in {"read", "busy"}
  /\ late' = (late \/ (phase # "idle" /\ stage' = "busy"))

\* It is not, or there is none.
Wait ==
  /\ ~(Holding # <<>> /\ OffAfter > 2)
  /\ loop' = Holding /\ injected' = (FromQueue /\ Holding # <<>>)
  /\ key_on' = OnAfter
  /\ stage' = "read"
  /\ UNCHANGED <<sensed, dequeued, late>>

Sense ==
  /\ stage = "sense"
  /\ TakeInRound
  /\ Serve \/ Wait
  /\ ticks' = Aged
  /\ seen' = {}
  /\ since' = IF phase = "settling" THEN Lesser(since + 1, RELEASE_ROUNDS) ELSE since
  /\ key_off' = OffAfter
  /\ selected' = IF Handing THEN q[head].button ELSE SelectedAfter
  /\ UNCHANGED <<phase, asked, running, crossed>>

\* The thread moves on to a place outside the rounds.
Goes(place) ==
  /\ stage' = place
  /\ late' = (late \/ (phase # "idle" /\ place # "read"))
  /\ UNCHANGED <<pqVars, ticks, seen, selected, key_on, key_off, injected,
                 phase, since, histVars, running>>

\* Between two rounds the loop serves a host's report, however long it takes.
ServeRequest == stage = "read" /\ Goes("busy")

\* It is done and the loop goes on.
BackToLoop == stage = "busy" /\ Goes("read")

\* What it does ends in CPU_RESTART, or touches the flash a stop has unmapped:
\* the thread is unwound, and no other is started in this process.
Unwinds ==
  /\ stage = "busy" \/ (~running /\ stage = "read")
  /\ Goes("ended")

App ==
  \/ \E h \in Holds : Arm(h)
  \/ HoldOver \/ HoldFails \/ SettleBegins \/ Settled \/ SettleGivesUp
  \/ \E r \in Runs : QueueRun(r)
  \/ QueueStep \/ Stop

Firmware == ReadPads \/ Sense \/ ServeRequest \/ BackToLoop \/ Unwinds

TSNext == App \/ Firmware

TSSpec == TSInit /\ [][TSNext]_tsVars

\* As long as the firmware thread lives its scheduler is a loop that gives the
\* sense task its turn between two reports (a thread that has ended takes no
\* step, and is owed none), and the queue's mutex, held for a few stores at a
\* time, comes to the thread that waits for it; payload() and the serving of a
\* report end, in the loop or in CPU_RESTART; a caller's run is stored to its end.
TSFair ==
  /\ TSSpec
  /\ SF_tsVars(ReadPads) /\ SF_tsVars(Sense) /\ WF_tsVars(BackToLoop \/ Unwinds)
  /\ WF_tsVars(QueueStep)

-----------------------------------------------------------------------------
\* The i-th sensed press payload() was given is the i-th hold, on its own button
\* and never longer than asked (a sum of two would land in another band: 72 on
\* button 1 is a backup). At most one sample short: a hold armed after its pad
\* was read in a round ages in that round.
AsAsked ==
  /\ Len(sensed) <= Len(asked)
  /\ \A i \in DOMAIN sensed :
       /\ sensed[i].button = asked[i].button
       /\ sensed[i].ticks \in {asked[i].ticks - 1, asked[i].ticks}

\* A press the loop was handed reaches payload(), in the order handed, or is
\* what the loop still holds.
InOrder == handed = dequeued \o (IF injected THEN loop ELSE <<>>)

\* Two holds never become one, and no hold joins a handed press, with requests
\* served, runs queued and holds armed in any order, until one of three things
\* has happened: a hold failed with samples owed; settleRelease gave up before
\* its press was served; a run was queued in the middle of a hold, or a hold
\* armed while a queued press had still to be served.
HoldsStayApart == crossed = {} => AsAsked

\* What the comment in settleRelease says: "Nothing is lost by returning", as
\* the press that follows cannot merge into this one.
NothingLostByReturning == crossed \subseteq {"early"} => AsAsked

\* Until then no press that was handed over is lost, doubled or overtaken,
\* whatever holds were made before it or come after it: the queue's separation
\* of presses stands.
HandedIsServed == crossed = {} => InOrder

\* Every press that waits is taken and the loop comes clear in the end, however
\* busy it gets, unless the firmware thread ends first.
QueueIsServed == (count > 0) ~> ((count = 0 /\ loop = <<>>) \/ stage = "ended")
=============================================================================
