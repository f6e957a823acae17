---------------------------- MODULE VendorBridge ----------------------------
(* The vendor bridge (src/src/vendorBridge.ts): computers' raw reports go into *)
(* the active key and the key's reports go back to whoever spoke to it last,   *)
(* while the app's own conversations with the same key take turns with them in *)
(* the key's lane. The pipe to a key is modelled as both transports offer it:   *)
(* a write is taken by the key, echoed to the app, and answered some time.     *)
EXTENDS Integers, Sequences, SequencesExt

CONSTANTS Computers,   \* Bluetooth addresses
          Keys,        \* the transports the app may make active
          Soft,        \* those of them isKeyWaiting() knows of: the soft key; a
                       \* write to any other may fail
          None, TheApp,
          Contents,    \* what a report may say: isEchoOf compares contents
          Pressed,     \* those that wait for a press
          Asked,       \* what the app's own requests say
          MaxAsks,     \* bound: expired timers awaiting their answer at once
          MaxReports,  \* bound: computers' reports under way at once
          MaxApp,      \* bound: conversations the app has
          MaxTurns     \* bound: changes of the API door, the target, the key, and stops

ASSUME NamesAssumption ==
  /\ Soft \subseteq Keys /\ TheApp \notin Computers /\ None \notin Computers \cup Keys
  /\ TheApp # None /\ None \notin {"bridge", "app", "urgent"}

VARIABLES
  api, target, key,  \* isApi(), getTarget(), getKey()
  up,        \* the bridge runs
  owner,     \* who the key is answering, of the computers
  boundTo,   \* the transport its listeners are on
  ours,      \* computers' writes whose echo has not come
  held,      \* the key whose lane the conversation holds
  holding,   \* the promise of the hold is there
  timer,     \* held.timer is armed
  asks,      \* expired timers whose callback awaits isKeyWaiting()
  waits,     \* forward() calls that await the hold: [from, key, what]
  lane,      \* external: key -> [run, wait], node-onlykey-lib's lane
  app,       \* key -> the app's conversation there: "no", "asks", "turn", "sent"
  conv,      \* key -> which of the app's conversations that is
  unechoed,  \* key -> its writes whose echo is not out yet
  inq,       \* key -> reports the key has to answer
  press,     \* key -> the key waits for a press
  ev,        \* key -> events on their way to the app's listeners
  apps, turns,   \* counts, for the bounds
  mistaken,  \* history: app conversations whose echo was taken for a computer's
  strayed,   \* history: a computer's write went in outside its lane
  moved,     \* history: the active key changed while a hold was wanted or held
  leaks      \* history: why an app's answer was pushed to a computer

setVars == <<api, target, key>>
holdVars == <<held, holding, timer, asks>>
pipeVars == <<unechoed, inq, press, ev>>
countVars == <<apps, turns, conv>>
pastVars == <<mistaken, strayed, moved, leaks>>
vbVars == <<setVars, up, owner, boundTo, ours, holdVars, waits, lane, app,
            pipeVars, countVars, pastVars>>

VBInit ==
  /\ api = TRUE /\ target \in Computers /\ key \in Keys /\ up = TRUE
  /\ owner = None /\ boundTo = None /\ ours = <<>>
  /\ held = None /\ holding = FALSE /\ timer = FALSE /\ asks = 0 /\ waits = <<>>
  /\ lane = [k \in Keys |-> [run |-> None, wait |-> <<>>]]
  /\ app = [k \in Keys |-> "no"] /\ conv = [k \in Keys |-> 0]
  /\ unechoed = [k \in Keys |-> <<>>]
  /\ inq = [k \in Keys |-> <<>>] /\ press = [k \in Keys |-> FALSE]
  /\ ev = [k \in Keys |-> <<>>]
  /\ apps = 0 /\ turns = 0
  /\ mistaken = {} /\ strayed = FALSE /\ moved = FALSE /\ leaks = {}

-----------------------------------------------------------------------------
(* The hold on the key's lane *)

\* The lane of node-onlykey-lib: one conversation runs, the rest wait in order,
\* an urgent one in front.
Enter(l, who) == [l EXCEPT !.wait = Append(@, who)]
EnterFirst(l, who) == [l EXCEPT !.wait = <<who>> \o @]
Leave(l) == [l EXCEPT !.run = None]
urgentWaiting(k) == Contains(lane[k].wait, "urgent")

(* Mutant: the promise of the hold outlives it. *)
MutantReleaseHold ==
  /\ lane' = [lane EXCEPT ![held] = Leave(@)]
  /\ held' = None /\ timer' = FALSE
  /\ UNCHANGED holding
\* releaseHold.
releaseHold ==
  /\ lane' = [lane EXCEPT ![held] = Leave(@)]
  /\ held' = None /\ holding' = FALSE /\ timer' = FALSE

\* The reports of ws for one key, but for those that failed.
SentTo(k, ws, failed) ==
  LET sent[n \in 0..Len(ws)] ==
        IF n = 0 THEN <<>>
        ELSE IF ws[n].key = k /\ n \notin failed
        THEN Append(sent[n - 1], [from |-> ws[n].from, what |-> ws[n].what, id |-> ws[n].id])
        ELSE sent[n - 1]
  IN  sent[Len(ws)]

\* transport.write: the native executor hands the key one report after the other.
\* A write may fail: the key never has it, and its echo never comes.
Written(ws) ==
  \E failed \in SUBSET {i \in DOMAIN ws : ws[i].key \notin Soft} :
    /\ inq' = [k \in Keys |-> inq[k] \o SentTo(k, ws, failed)]
    /\ unechoed' = [k \in Keys |-> unechoed[k] \o SentTo(k, ws, failed)]

\* forward once the hold is there: the conversation is the computer's, and the
\* report is on its way. The gates are not asked again, nor which key it is. All
\* that await the hold go on in one turn of the event loop, in order.
forward(ws) ==
  /\ owner' = Last(ws).from
  /\ ours' = LET all == ours \o [i \in DOMAIN ws |-> ws[i].what]
             IN  SubSeq(all, IF Len(all) > 8 THEN Len(all) - 7 ELSE 1, Len(all))
  /\ Written(ws)
  /\ boundTo' = boundTo
  /\ strayed' = (strayed \/ \E i \in DOMAIN ws :
       lane'[ws[i].key].run # "bridge" \/ boundTo \notin {ws[i].key, None})
  /\ timer' = TRUE

\* The lane's next conversation begins: the app's, or the bridge's, which makes
\* the hold.
LaneTurn(k) ==
  /\ lane[k].run = None /\ lane[k].wait # <<>>
  /\ LET who == Head(lane[k].wait) IN
     /\ lane' = [lane EXCEPT ![k] = [run |-> who, wait |-> Tail(@.wait)]]
     /\ IF who = "bridge"
        THEN held' = k /\ forward(waits) /\ waits' = <<>> /\ UNCHANGED app
        ELSE /\ app' = [app EXCEPT ![k] = "turn"]
             /\ UNCHANGED <<held, timer, owner, boundTo, ours, inq, unechoed, waits, strayed>>
  /\ UNCHANGED <<setVars, up, holding, asks, press, ev,
                 countVars, mistaken, moved, leaks>>

\* COMPUTER_QUIET_MS have passed: the callback asks whether the key waits.
TimerFires ==
  /\ timer /\ held # None /\ asks < MaxAsks
  /\ timer' = FALSE /\ asks' = asks + 1
  /\ UNCHANGED <<setVars, up, owner, boundTo, ours, held, holding, waits, lane,
                 app, pipeVars, countVars, pastVars>>

\* It looks at the soft key only, whichever key is active.
isKeyWaiting == \E k \in Soft : press[k]

(* Mutant: with a press pending the timer is not armed again. *)
MutantAskAnswered ==
  /\ asks > 0
  /\ asks' = asks - 1
  /\ IF held # None /\ ~isKeyWaiting THEN releaseHold
     ELSE UNCHANGED <<timer, held, holding, lane>>
  /\ UNCHANGED <<setVars, up, owner, boundTo, ours, waits, app, pipeVars,
                 countVars, pastVars>>
\* ... and is answered. Whatever the hold is by now, it is armed again or ends.
AskAnswered ==
  /\ asks > 0
  /\ asks' = asks - 1
  /\ \/ held = None /\ UNCHANGED <<timer, held, holding, lane>>
     \/ held # None /\ isKeyWaiting /\ timer' = TRUE /\ UNCHANGED <<held, holding, lane>>
     \/ held # None /\ ~isKeyWaiting /\ releaseHold
  /\ UNCHANGED <<setVars, up, owner, boundTo, ours, waits, app, pipeVars,
                 countVars, pastVars>>

-----------------------------------------------------------------------------
(* A computer's report *)

\* onRequest's gates, and mayForward's without the owner.
Allowed(c) == api /\ target = c

\* The bound: what computers sent goes through before more comes. It never ends.
Room ==
  /\ Len(waits) < MaxReports
  /\ \A k \in Keys :
       /\ Len(unechoed[k]) < MaxReports /\ Len(inq[k]) < MaxReports
       /\ Len(ev[k]) < MaxReports

\* ensureSubscribed: the listeners move to the active key, which has had no
\* conversation yet.
ensureSubscribed ==
  /\ boundTo' = key
  /\ owner' = IF boundTo = key THEN owner ELSE None
  /\ ours' = IF boundTo = key THEN ours ELSE <<>>

(* Mutant: a hold that was asked for is taken for one that is there. *)
MutantGranted == holding
\* holdForComputer's promise is resolved: the lane has let the conversation in.
Granted == held # None

\* onRequest and forward when no conversation is held, or one that ends here
\* because a Hold or Revoke waits: the hold is asked for, once, and awaited.
OnRequest(c, what) ==
  /\ up /\ Allowed(c) /\ Room
  /\ ensureSubscribed
  /\ waits' = Append(waits, [from |-> c, key |-> key, what |-> what, id |-> 0])
  /\ LET ends == held # None /\ urgentWaiting(key)
         l == IF ends THEN [lane EXCEPT ![held] = Leave(@)] ELSE lane
     IN
     /\ Granted => ends
     /\ lane' = IF holding /\ ~ends THEN l ELSE [l EXCEPT ![key] = Enter(@, "bridge")]
     /\ held' = None /\ timer' = FALSE /\ holding' = TRUE
  /\ UNCHANGED <<setVars, up, asks, app, pipeVars, apps, turns, conv, pastVars>>

\* The same in a conversation that is held, whichever key it holds.
OnRequestHeld(c, what) ==
  /\ up /\ Allowed(c) /\ Room
  /\ Granted /\ ~urgentWaiting(key)
  /\ boundTo' = key
  /\ owner' = c
  /\ ours' = LET all == Append(IF boundTo = key THEN ours ELSE <<>>, what)
             IN  IF Len(all) > 8 THEN Tail(all) ELSE all
  /\ Written(<<[from |-> c, key |-> key, what |-> what, id |-> 0]>>)
  /\ strayed' = (strayed \/ held # key)
  /\ timer' = TRUE
  /\ UNCHANGED <<setVars, up, held, holding, asks, waits, lane, app, press,
                 ev, apps, turns, conv, mistaken, moved, leaks>>

\* The bridge stops: listeners off, hold released. What awaits a hold goes on.
StopBridge ==
  /\ up /\ turns < MaxTurns
  /\ turns' = turns + 1
  /\ up' = FALSE
  /\ owner' = None /\ boundTo' = None
  /\ IF held # None THEN releaseHold ELSE UNCHANGED <<lane, held, holding, timer>>
  /\ UNCHANGED <<setVars, ours, asks, waits, app, pipeVars, apps, conv, pastVars>>

-----------------------------------------------------------------------------
(* The app's own conversations *)

AppAsks(k, who) ==
  /\ app[k] = "no" /\ apps < MaxApp
  /\ apps' = apps + 1
  /\ app' = [app EXCEPT ![k] = "asks"] /\ conv' = [conv EXCEPT ![k] = apps + 1]
  /\ lane' = [lane EXCEPT ![k] = IF who = "urgent" THEN EnterFirst(@, who) ELSE Enter(@, who)]
  /\ UNCHANGED <<setVars, up, owner, boundTo, ours, holdVars, waits, pipeVars,
                 turns, pastVars>>

AppWrites(k, what) ==
  /\ app[k] = "turn"
  /\ app' = [app EXCEPT ![k] = "sent"]
  /\ Written(<<[from |-> TheApp, key |-> k, what |-> what, id |-> conv[k]]>>)
  /\ UNCHANGED <<setVars, up, owner, boundTo, ours, holdVars, waits, lane,
                 press, ev, countVars, pastVars>>

\* It is over: answered, answered by nothing, or given up.
AppLeaves(k) ==
  /\ app[k] = "sent"
  /\ app' = [app EXCEPT ![k] = "no"]
  /\ lane' = [lane EXCEPT ![k] = Leave(@)]
  /\ UNCHANGED <<setVars, up, owner, boundTo, ours, holdVars, waits, pipeVars,
                 countVars, pastVars>>

-----------------------------------------------------------------------------
(* The pipe *)

\* The echo goes out once the write is known to have: the soft key's from the
\* writing thread, the plugged-in one's when the native call has resolved.
Echoed(k) ==
  /\ unechoed[k] # <<>>
  /\ ev' = [ev EXCEPT ![k] = Append(@, [kind |-> "write", of |-> Head(unechoed[k]), early |-> FALSE])]
  /\ unechoed' = [unechoed EXCEPT ![k] = Tail(@)]
  /\ UNCHANGED <<inq, press>>

\* external: the key waits for a press, the press comes or times out, and the
\* request is answered by a report or by nothing.
KeyWaits(k) ==
  /\ inq[k] # <<>> /\ ~press[k] /\ Head(inq[k]).what \in Pressed
  /\ press' = [press EXCEPT ![k] = TRUE]
  /\ UNCHANGED <<unechoed, inq, ev>>

KeyAnswers(k, says) ==
  /\ inq[k] # <<>> /\ (Head(inq[k]).what \in Pressed => press[k])
  /\ inq' = [inq EXCEPT ![k] = Tail(@)]
  /\ press' = [press EXCEPT ![k] = FALSE]
  /\ ev' = IF says
           THEN [ev EXCEPT ![k] = Append(@, [kind |-> "report", of |-> Head(inq[k]),
                                             early |-> Contains(unechoed[k], Head(inq[k]))])]
           ELSE ev
  /\ UNCHANGED unechoed

PipeStep(k) ==
  /\ Echoed(k) \/ KeyWaits(k)
     \/ \E says \in BOOLEAN : KeyAnswers(k, says)
  /\ UNCHANGED <<setVars, up, owner, boundTo, ours, holdVars, waits, lane, app,
                 countVars, pastVars>>

\* The 'write' listener: an own write's echo is ticked off, any other is the app's.
(* Mutant: an echo that is not its own leaves the conversation where it is. *)
MutantHeard(e) ==
  /\ LET mine == {i \in DOMAIN ours : ours[i] = e.of.what} IN
     IF mine # {}
     THEN /\ ours' = RemoveAt(ours, CHOOSE i \in mine : \A j \in mine : i <= j)
          /\ mistaken' = IF e.of.from = TheApp THEN mistaken \cup {e.of.id} ELSE mistaken
          /\ UNCHANGED owner
     ELSE UNCHANGED <<owner, ours, mistaken>>
  /\ UNCHANGED <<timer, leaks>>
Heard(e) ==
  /\ LET mine == {i \in DOMAIN ours : ours[i] = e.of.what} IN
     IF mine # {}
     THEN /\ ours' = RemoveAt(ours, CHOOSE i \in mine : \A j \in mine : i <= j)
          /\ mistaken' = IF e.of.from = TheApp THEN mistaken \cup {e.of.id} ELSE mistaken
          /\ UNCHANGED owner
     ELSE owner' = None /\ UNCHANGED <<ours, mistaken>>
  /\ UNCHANGED <<timer, leaks>>

\* What there is to say for an app's answer that goes to a computer: it came
\* before the echo that says the app spoke; that echo was taken for another's;
\* the app's conversation had ended without it; a computer's write was let into
\* another key's conversation.
Reasons(k, e) ==
  {r \in {"early", "mistaken", "late", "strayed"} :
     \/ r = "early" /\ e.early
     \/ r = "mistaken" /\ e.of.id \in mistaken
     \/ r = "late" /\ ~(app[k] = "sent" /\ e.of.id = conv[k])
     \/ r = "strayed" /\ strayed}

\* The 'report' listener: the hold is armed again and the report pushed to the
\* owner, if it may.
Reported(k, e) ==
  /\ timer' = (timer \/ held # None)
  /\ leaks' = IF owner # None /\ Allowed(owner) /\ e.of.from = TheApp
              THEN leaks \cup {Reasons(k, e)} ELSE leaks
  /\ UNCHANGED <<owner, ours, mistaken>>

Delivered(k) ==
  /\ ev[k] # <<>>
  /\ ev' = [ev EXCEPT ![k] = Tail(@)]
  /\ LET e == Head(ev[k]) IN
     IF boundTo # k THEN UNCHANGED <<timer, owner, ours, leaks, mistaken>>
     ELSE IF e.kind = "write" THEN Heard(e) ELSE Reported(k, e)
  /\ UNCHANGED <<setVars, up, boundTo, held, holding, asks, waits, lane, app,
                 unechoed, inq, press, countVars, strayed, moved>>

-----------------------------------------------------------------------------
\* The person turns the API door, picks another target or key.
Turn ==
  /\ turns < MaxTurns
  /\ turns' = turns + 1
  /\ \/ api' = ~api /\ UNCHANGED <<target, key, moved>>
     \/ target' \in (Computers \cup {None}) \ {target} /\ UNCHANGED <<api, key, moved>>
     \/ /\ key' \in Keys \ {key}
        /\ moved' = (moved \/ holding)
        /\ UNCHANGED <<api, target>>
  /\ UNCHANGED <<up, owner, boundTo, ours, holdVars, waits, lane, app, pipeVars,
                 apps, conv, mistaken, strayed, leaks>>

Person ==
  \/ Turn \/ StopBridge
  \/ \E k \in Keys, who \in {"app", "urgent"} : k = key /\ AppAsks(k, who)

Computer ==
  \E c \in Computers, what \in Contents : OnRequest(c, what) \/ OnRequestHeld(c, what)

AppStep(k) == (\E what \in Asked : AppWrites(k, what)) \/ AppLeaves(k)

Timers == TimerFires \/ AskAnswered
Machine == \E k \in Keys : LaneTurn(k) \/ AppStep(k) \/ PipeStep(k) \/ Delivered(k)

VBNext == Person \/ Computer \/ Timers \/ Machine

VBSpec == VBInit /\ [][VBNext]_vbVars

\* What arms the timer again: a write of a computer, a report of the key the
\* bridge listens to.
Rearms == Computer \/ \E k \in Keys : k = boundTo /\ Delivered(k)

\* The timer need fire only where it is left alone: whatever arms it again puts
\* it off. What is asked at its end is answered; the lane's turns come, events are
\* delivered, a conversation of the app ends by an answer or its own time-out, and
\* so does a wait for a press. Nothing makes a computer write, or stop writing.
VBFair ==
  /\ VBSpec
  /\ []<><<Rearms>>_vbVars \/ WF_vbVars(TimerFires)
  /\ WF_vbVars(AskAnswered)
  /\ \A k \in Keys :
       /\ WF_vbVars(LaneTurn(k)) /\ WF_vbVars(AppStep(k))
       /\ WF_vbVars(PipeStep(k)) /\ WF_vbVars(Delivered(k))

-----------------------------------------------------------------------------
\* The bridge's places in a lane.
InTurn(k) == {i \in DOMAIN lane[k].wait : lane[k].wait[i] = "bridge"}

\* The bridge's books and the lanes' agree: it believes it holds a lane exactly
\* when that lane runs its conversation, it waits for a hold exactly when one lane
\* has it in turn once, and reports wait for nothing else; a timer runs only for a
\* hold. Else a report would wait for ever, or the lane for nobody.
HoldAgrees ==
  /\ \A k \in Keys : lane[k].run = "bridge" <=> held = k
  /\ timer => held # None
  /\ (holding /\ held = None) <=> (\E k \in Keys : InTurn(k) # {})
  /\ \A k, l \in Keys : \A i \in InTurn(k), j \in InTurn(l) : k = l /\ i = j
  /\ held # None => holding
  /\ waits # <<>> => holding /\ held = None

\* A computer's report goes into a key only in a conversation that holds that
\* key's lane, unless the active key changed while a hold was wanted or held.
WritesInsideTheHold == strayed => moved

\* An answer to the app's own request goes to a computer only if it overtook its
\* echo, its echo passed for a computer's, the app had given it up, or a write
\* strayed: never from the turns of the lane, the timer or the owner alone.
LeaksHaveAReason == {} \notin leaks

\* What owner = null is for: an answer the app waits for goes to no computer.
AppAnswersStayHome == \A why \in leaks : "late" \in why

\* However the timer, its awaited callback, new writes and new holds race: a Hold or
\* Revoke of the person gets its turn (RULE 8) however computers write - a
\* computer's next request lets it in - unless the active key changes under the hold ...
UrgentGetsTheKey ==
  \A k \in Keys :
    (app[k] = "asks" /\ Contains(lane[k].wait, "urgent"))
      ~> (app[k] # "asks" \/ moved)

\* ... and any other conversation of the app gets its turn once computers leave the
\* key alone and the app asks for nothing more: the lane is never kept for nobody.
\* (A computer that writes for ever keeps it for ever.)
Quiet ==
  <>[][~Computer /\ ~\E k \in Keys, who \in {"app", "urgent"} : AppAsks(k, who)]_vbVars
QuietlyGetsTheKey == Quiet => \A k \in Keys : (app[k] = "asks") ~> (app[k] # "asks")

AppGetsTheKey == UrgentGetsTheKey /\ QuietlyGetsTheKey
=============================================================================
