------------------------------ MODULE HalPipe ------------------------------
(* How the app's calls reach the soft key: one executor makes them in order       *)
(* (NativeOkEmuModule.kt), reports and presses wait in two queues the firmware      *)
(* thread takes from, and a vendor write returns when the key has taken its report  *)
(* (ok_hal.cpp), so that the presses which answer it cannot come before it.        *)
EXTENDS Integers, Sequences, SequencesExt

CONSTANTS
  Callers,     \* what writes and presses: the app's own requests, the bridges
  Room,        \* OKEMU_PRESS_QUEUE_MAX
  MaxCalls     \* bound: calls made

VARIABLES
  calls,          \* the executor's queue; the first is the one it makes
  hid_in,         \* reports in the HAL, each with its interface
  vendor_pushed, vendor_taken,
  ticket,         \* what the running write waits for, or 0
  digits,         \* presses in the queue: whose they are
  waits,          \* what each caller awaits
  g_running,
  fwAlive,        \* the firmware thread has not been unwound by a CPU restart
  called,         \* calls made so far, for the bound
  inTime,         \* history: reports whose write returned with the report taken
  overtaken,      \* history: a press was taken before a report its caller wrote
  toldWrong       \* history: callers told their presses are in while some were not

hidVars == <<hid_in, vendor_pushed, vendor_taken, digits>>
saidVars == <<inTime, overtaken, toldWrong>>
hpVars == <<calls, hidVars, ticket, waits, g_running, fwAlive, called, saidVars>>

HPInit ==
  /\ calls = <<>> /\ ticket = 0
  /\ hid_in = <<>> /\ vendor_pushed = 0 /\ vendor_taken = 0 /\ digits = <<>>
  /\ waits = [c \in Callers |-> "nothing"]
  /\ g_running = TRUE /\ fwAlive = TRUE /\ called = 0
  /\ inTime = {} /\ overtaken = FALSE /\ toldWrong = {}

-----------------------------------------------------------------------------
(* Callers. Each awaits a call before it makes the next. *)

\* A report on one of the two interfaces, or a run of presses.
Asks(c) ==
  /\ called < MaxCalls /\ called' = called + 1
  /\ waits[c] = "nothing" /\ waits' = [waits EXCEPT ![c] = "call"]
  /\ \E kind \in {"fido", "vendor", "presses"} :
       calls' = Append(calls, [caller |-> c, kind |-> kind, id |-> called'])
  /\ UNCHANGED <<hidVars, ticket, g_running, fwAlive, saidVars>>

\* stop(), or the module is invalidated.
AsksToStop ==
  /\ g_running /\ \A i \in DOMAIN calls : calls[i].kind # "stop"
  /\ calls' = Append(calls, [caller |-> "nobody", kind |-> "stop", id |-> 0])
  /\ UNCHANGED <<hidVars, ticket, waits, g_running, fwAlive, called, saidVars>>

\* pressesDrained: polled outside the executor. A key that does not run has no presses.
pressPending == IF g_running THEN Len(digits) ELSE 0
Drained(c) ==
  /\ waits[c] = "drain" /\ pressPending = 0
  /\ waits' = [waits EXCEPT ![c] = "nothing"]
  /\ toldWrong' = IF g_running /\ Contains(digits, c) THEN toldWrong \cup {c} ELSE toldWrong
  /\ UNCHANGED <<calls, hidVars, ticket, g_running, fwAlive, called, inTime, overtaken>>

\* ... five seconds later: it throws, and the presses stay.
(* Mutant: it returns, as settleRelease does. *)
MutantTold(c) == IF Contains(digits, c) THEN toldWrong \cup {c} ELSE toldWrong
Told(c) == toldWrong
DrainGivesUp(c) ==
  /\ waits[c] = "drain" /\ pressPending > 0
  /\ waits' = [waits EXCEPT ![c] = "nothing"]
  /\ toldWrong' = Told(c)
  /\ UNCHANGED <<calls, hidVars, ticket, g_running, fwAlive, called, inTime, overtaken>>

-----------------------------------------------------------------------------
(* The executor *)

Makes(kind) == calls # <<>> /\ Head(calls).kind = kind /\ ticket = 0
Answered(outcome) ==
  /\ calls' = Tail(calls)
  /\ waits' = [waits EXCEPT ![Head(calls).caller] = outcome]

\* Nothing is written to, and no press queued at, a key that does not run.
Refused ==
  /\ Makes("fido") \/ Makes("vendor") \/ Makes("presses")
  /\ ~g_running
  /\ Answered("nothing")
  /\ UNCHANGED <<hidVars, ticket, g_running, fwAlive, called, saidVars>>

\* okemu_hid_deliver: a FIDO report is queued and the write is done.
DeliverFido ==
  /\ Makes("fido") /\ g_running
  /\ hid_in' = Append(hid_in, Head(calls))
  /\ Answered("nothing")
  /\ UNCHANGED <<vendor_pushed, vendor_taken, digits, ticket, g_running, fwAlive, called, saidVars>>

\* ... a vendor report is queued with a ticket.
DeliverVendor ==
  /\ Makes("vendor") /\ g_running
  /\ hid_in' = Append(hid_in, Head(calls))
  /\ vendor_pushed' = vendor_pushed + 1 /\ ticket' = vendor_pushed'
  /\ UNCHANGED <<calls, vendor_taken, digits, waits, g_running, fwAlive, called, saidVars>>

\* hid_taken_cv: the key has taken as many as the ticket says.
VendorTaken ==
  /\ ticket # 0 /\ vendor_taken >= ticket
  /\ inTime' = inTime \cup {Head(calls).id}
  /\ ticket' = 0 /\ Answered("nothing")
  /\ UNCHANGED <<hidVars, g_running, fwAlive, called, overtaken, toldWrong>>

\* ... or a second has passed.
(* Mutant: the wait has no deadline. *)
MutantVendorLate == FALSE
VendorLate == ticket # 0 /\ vendor_taken < ticket
GiveUpWaiting ==
  /\ VendorLate
  /\ ticket' = 0 /\ Answered("nothing")
  /\ UNCHANGED <<hidVars, g_running, fwAlive, called, saidVars>>

\* A run of two. What does not fit is not queued: the caller gets an error, and what
\* was queued stays; else it waits until the key has them.
QueuePresses ==
  /\ Makes("presses") /\ g_running
  /\ LET c == Head(calls).caller
         accepted == IF Room - Len(digits) < 2 THEN Room - Len(digits) ELSE 2
     IN /\ digits' = digits \o [i \in 1..accepted |-> c]
        /\ Answered(IF accepted = 2 THEN "drain" ELSE "nothing")
  /\ UNCHANGED <<hid_in, vendor_pushed, vendor_taken, ticket, g_running, fwAlive, called, saidVars>>

\* nativeStop. The firmware thread goes on.
nativeStop ==
  /\ Makes("stop")
  /\ g_running' = FALSE /\ calls' = Tail(calls)
  /\ UNCHANGED <<hidVars, ticket, waits, fwAlive, called, saidVars>>

-----------------------------------------------------------------------------
(* The firmware thread *)

\* okemu_hid_recv: a FIDO report first, the oldest one otherwise.
FirstFido == SelectInSeq(hid_in, LAMBDA p : p.kind = "fido")
Recv == IF FirstFido # 0 THEN FirstFido ELSE 1
(* Mutant: every report taken counts. *)
MutantTakenAfter(p) == vendor_taken + 1
TakenAfter(p) == vendor_taken + IF p.kind = "vendor" THEN 1 ELSE 0
TakeReport ==
  /\ fwAlive /\ hid_in # <<>>
  /\ hid_in' = RemoveAt(hid_in, Recv)
  /\ vendor_taken' = TakenAfter(hid_in[Recv])
  /\ UNCHANGED <<calls, vendor_pushed, digits, ticket, waits, g_running, fwAlive, called, saidVars>>

\* okemu_press_take. A report its caller wrote, and was told the key has, comes first.
Behind(c) == \E i \in DOMAIN hid_in : hid_in[i].caller = c /\ hid_in[i].id \in inTime
TakePress ==
  /\ fwAlive /\ digits # <<>>
  /\ digits' = Tail(digits)
  /\ overtaken' = (overtaken \/ Behind(Head(digits)))
  /\ UNCHANGED <<calls, hid_in, vendor_pushed, vendor_taken, ticket, waits, g_running, fwAlive,
                 called, inTime, toldWrong>>

\* wipe_usb_buffer, after an unlock: whoever waits for a report is released.
FlushIn ==
  /\ fwAlive /\ hid_in # <<>>
  /\ hid_in' = <<>> /\ vendor_taken' = vendor_pushed
  /\ UNCHANGED <<calls, vendor_pushed, digits, ticket, waits, g_running, fwAlive, called, saidVars>>

\* CPU_RESTART: the thread is unwound, and never starts again in this process.
CpuRestart ==
  /\ fwAlive /\ fwAlive' = FALSE
  /\ UNCHANGED <<calls, hidVars, ticket, waits, g_running, called, saidVars>>

Executes == Refused \/ DeliverFido \/ DeliverVendor \/ VendorTaken \/ GiveUpWaiting
            \/ QueuePresses \/ nativeStop
Polls(c) == Drained(c) \/ DrainGivesUp(c)
FirmwareRuns == TakeReport \/ TakePress \/ FlushIn \/ CpuRestart
HPNext == Executes \/ FirmwareRuns \/ AsksToStop \/ \E c \in Callers : Asks(c) \/ Polls(c)

\* The executor and the timers run; to the firmware nothing is owed.
HPFair == WF_hpVars(Executes) /\ \A c \in Callers : WF_hpVars(Polls(c))
HPSpec == HPInit /\ [][HPNext]_hpVars /\ HPFair

-----------------------------------------------------------------------------
\* A press is never taken before a report its caller wrote, unless the write ran out
\* of time: whatever FIDO reports jump the queue, however many writes came late.
ReportsComeFirst == ~overtaken

\* Who is told that the key has its presses has none waiting, unless the key was stopped.
DrainedIsTaken == toldWrong = {}

\* Every call ends, also at a key that was stopped or has restarted itself.
CallsEnd == \A c \in Callers : waits[c] # "nothing" ~> waits[c] = "nothing"
=============================================================================
