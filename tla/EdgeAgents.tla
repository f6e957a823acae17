----------------------------- MODULE EdgeAgents -----------------------------
(* Agents that ask for budgets, and computers that set the agent identity       *)
(* (src/src/edgeAgents.ts): messages are handled one at a time, an ask is put on  *)
(* the one sheet, the person answers it, the key waits for the press, and nonces  *)
(* already taken are kept on the phone. Any await may fail, and the app may       *)
(* restart at any of them.                                                        *)
EXTENDS Integers, Sequences, SequencesExt

CONSTANTS
  Nonces,
  SEEN_KEPT,   \* nonces kept; the oldest go first
  MaxSent,     \* bound: messages handed over
  MaxRestarts  \* bound

ASSUME EAAssumption == SEEN_KEPT \in Nat /\ MaxSent \in Nat /\ MaxRestarts \in Nat

VARIABLES
  messages,    \* the promise chain `queue`: messages handed over, the first is handled
  inFlight,
  doing,       \* where handle() is
  result,      \* what it is about to return, or "threw"
  seenKept,    \* the nonces in AsyncStorage
  seenNow,     \* handle()'s own set
  sheet,       \* `current`
  sent, restarts, \* counts, for the bounds
  told,        \* message -> what its computer was told, or "nothing"
  shown,       \* history: nonces the person was asked about
  forgotten,   \* history: nonces taken and lost since the person was last asked
  askedAgain,  \* history: a nonce was put to the person again although it was kept
  spoiled      \* history: asks whose sheet another message's failure wrote over

handlerVars == <<doing, result, seenNow>>
agentPast == <<shown, forgotten, askedAgain, spoiled>>
eaVars == <<messages, inFlight, handlerVars, seenKept, sheet, sent, restarts, told, agentPast>>

NoSheet == [phase |-> "none", ask |-> 0, blocked |-> FALSE, result |-> "none"]

EAInit ==
  /\ messages = <<>> /\ inFlight = FALSE
  /\ doing = "nothing" /\ result = "none" /\ seenKept = <<>> /\ seenNow = <<>>
  /\ sheet = NoSheet
  /\ sent = 0 /\ restarts = 0 /\ told = [i \in 1..MaxSent |-> "nothing"]
  /\ shown = {} /\ forgotten = {} /\ askedAgain = FALSE /\ spoiled = {}

-----------------------------------------------------------------------------
(* handleEdgeMessage *)

\* A budget request or an identity to keep: the person is asked.
Asking(m) == m.kind \in {"request", "set"}
Sends(kind, nonce) == [id |-> sent + 1, kind |-> kind, nonce |-> nonce]

TakeMessage(m) ==
  /\ sent < MaxSent /\ sent' = sent + 1
  /\ ~(Asking(m) /\ inFlight)
  /\ messages' = Append(messages, m)
  /\ inFlight' = (inFlight \/ Asking(m))
  /\ UNCHANGED <<handlerVars, seenKept, sheet, restarts, told, agentPast>>

\* One on the phone at a time.
RefuseBusy(m) ==
  /\ sent < MaxSent /\ sent' = sent + 1
  /\ Asking(m) /\ inFlight
  /\ told' = [told EXCEPT ![m.id] = "busy"]
  /\ UNCHANGED <<messages, inFlight, handlerVars, seenKept, sheet, restarts, agentPast>>

(* Mutant: an ask that failed leaves no room for the next one. *)
MutantInFlightAfter(m, r) == inFlight /\ (~Asking(m) \/ r = "threw")
InFlightAfter(m, r) == inFlight /\ ~Asking(m)

(* Mutant: a failure leaves the sheet as it is. *)
MutantSheetAfter(r) == sheet
\* The catch: a sheet that is there, whosever it is, ends with the failure.
SheetAfter(r) == IF r = "threw" /\ sheet # NoSheet
                 THEN [sheet EXCEPT !.phase = "done", !.result = "invalid"] ELSE sheet

Ends(r) ==
  LET m == Head(messages) IN
  /\ messages' = Tail(messages) /\ doing' = "nothing" /\ result' = "none" /\ seenNow' = <<>>
  /\ inFlight' = InFlightAfter(m, r)
  /\ told' = [told EXCEPT ![m.id] = IF r = "threw" THEN "invalid" ELSE r]
  /\ sheet' = SheetAfter(r)
  /\ spoiled' = IF r = "threw" /\ sheet.ask \notin {0, m.id} THEN spoiled \cup {sheet.ask} ELSE spoiled
  /\ UNCHANGED <<sent, restarts, shown, askedAgain>>

-----------------------------------------------------------------------------
(* handle *)

Handles(kinds) == messages # <<>> /\ Head(messages).kind \in kinds
nonce == Head(messages).nonce

LoadSeen ==
  /\ doing = "nothing" /\ messages # <<>>
  /\ doing' = "gates" /\ seenNow' = seenKept
  /\ UNCHANGED <<messages, inFlight, result, seenKept, sheet, sent, restarts, told, agentPast>>

LoadSeenFails ==
  /\ doing = "nothing" /\ messages # <<>>
  /\ Ends("threw")
  /\ UNCHANGED <<seenKept, forgotten>>

\* What a step of handle leaves alone.
Within == UNCHANGED <<messages, inFlight, seenKept, sent, restarts, told, askedAgain, spoiled>>
Returns(r) == doing' = "finally" /\ result' = r
Replayed == Contains(seenNow, nonce)
TakesNonce == seenNow' = Append(seenNow, nonce)

\* Nobody is paired behind the link, the Requests switch is off, the nonce is known;
\* or the identity is not usable.
Drop(r) ==
  /\ doing = "gates" /\ Returns(r)
  /\ r = "invalid" => Handles({"read", "set"})
  /\ UNCHANGED <<seenNow, sheet, shown, forgotten>> /\ Within

\* A sync, or the identity read: no one is asked. Answered, or its reads and writes fail.
ServeRead(r) ==
  /\ doing = "gates" /\ Handles({"read"}) /\ ~Replayed
  /\ TakesNonce /\ Returns(r)
  /\ UNCHANGED <<sheet, shown, forgotten>> /\ Within

\* A sheet timed out and nobody has closed it.
unattended == sheet.phase = "done" /\ sheet.result = "timeout"

\* A request is refused with its nonce unread, an identity after it was taken.
RefuseUnattended ==
  /\ doing = "gates" /\ Handles({"request", "set"}) /\ unattended
  /\ IF Handles({"set"}) THEN ~Replayed /\ TakesNonce ELSE UNCHANGED seenNow
  /\ Returns("timeout")
  /\ UNCHANGED <<sheet, shown, forgotten>> /\ Within

PassGates ==
  /\ doing = "gates" /\ Handles({"request", "set"}) /\ ~unattended
  /\ IF Handles({"set"}) THEN ~Replayed /\ TakesNonce ELSE UNCHANGED seenNow
  /\ doing' = "prepares"
  /\ UNCHANGED <<result, sheet, shown, forgotten>> /\ Within

\* No Edge on this key, a request the library refuses, a replay it drops.
EndUnasked(r) ==
  /\ doing = "prepares" /\ Handles({"request"})
  /\ r = "dropped" => Replayed
  /\ Returns(r)
  /\ UNCHANGED <<seenNow, sheet, shown, forgotten>> /\ Within

(* Mutant: only identities are looked up among the nonces taken. *)
MutantNewToPhone == TRUE
NewToPhone == Handles({"set"}) \/ ~Replayed
\* askPerson. A copy that does not verify has Approve off.
AskPerson(blocked) ==
  /\ doing = "prepares" /\ NewToPhone
  /\ blocked => Handles({"request"})
  /\ IF Handles({"request"}) THEN TakesNonce ELSE UNCHANGED seenNow
  /\ sheet' = [phase |-> "ask", ask |-> Head(messages).id, blocked |-> blocked, result |-> "none"]
  /\ doing' = "asks"
  /\ shown' = shown \cup {nonce} /\ forgotten' = forgotten \ {nonce}
  /\ askedAgain' = (askedAgain \/ (nonce \in shown /\ nonce \notin forgotten))
  /\ UNCHANGED <<messages, inFlight, seenKept, sent, restarts, told, result, spoiled>>

ShowDone(r) == sheet' = [sheet EXCEPT !.phase = "done", !.result = r]
Refuse(r) == ShowDone(r) /\ Returns(r) /\ UNCHANGED <<seenNow, shown, forgotten>> /\ Within

\* The person's answer, or SHEET_WAIT_MS. With Approve off every answer, the
\* time-out's too, is "copy_unverified".
answerSheet(a) ==
  /\ doing = "asks" /\ (a = "approve" => ~sheet.blocked)
  /\ IF sheet.blocked THEN Refuse("copy_unverified")
     ELSE IF a # "approve" THEN Refuse(a)
     ELSE /\ doing' = IF Handles({"set"}) THEN "keeps" ELSE "verifies"
          /\ UNCHANGED <<result, sheet, seenNow, shown, forgotten>> /\ Within

\* The strict check refuses, or the key does.
RefuseApproved(r) == doing = "verifies" /\ Refuse(r)

\* onPress.
KeyWantsPress ==
  /\ doing = "verifies" /\ doing' = "presses"
  /\ sheet' = [sheet EXCEPT !.phase = "press"]
  /\ UNCHANGED <<result, seenNow, shown, forgotten>> /\ Within

pressFromSheet ==
  /\ sheet.phase = "press" /\ sheet' = [sheet EXCEPT !.phase = "pressed"]
  /\ UNCHANGED <<handlerVars, shown, forgotten>> /\ Within

\* external: the key's answer after its wait.
KeyOpens ==
  /\ doing = "presses" /\ doing' = "keeps"
  /\ UNCHANGED <<result, sheet, seenNow, shown, forgotten>> /\ Within
KeyRefuses(r) == doing = "presses" /\ Refuse(r)

\* keepOpening, and the copy brought up; or keepIdentity.
Kept ==
  /\ doing = "keeps" /\ ShowDone("ok") /\ Returns("ok")
  /\ UNCHANGED <<seenNow, shown, forgotten>> /\ Within

\* An await fails: the key is gone or locked, its answer is garbled, storage refuses.
Throw ==
  /\ doing \in {"gates", "prepares", "verifies", "presses", "keeps"} /\ Returns("threw")
  /\ UNCHANGED <<seenNow, sheet, shown, forgotten>> /\ Within

-----------------------------------------------------------------------------
(* finally: saveSeen, then the answer *)

Newest(s) == SubSeq(s, IF Len(s) > SEEN_KEPT THEN Len(s) - SEEN_KEPT + 1 ELSE 1, Len(s))
SaveSeen ==
  /\ doing = "finally"
  /\ seenKept' = Newest(seenNow)
  /\ forgotten' = forgotten \cup (ToSet(seenNow) \ ToSet(seenKept'))
  /\ Ends(result)

LostWithHandler == ToSet(seenNow) \ ToSet(seenKept)
SaveSeenFails ==
  /\ doing = "finally"
  /\ forgotten' = forgotten \cup LostWithHandler
  /\ Ends("threw")
  /\ UNCHANGED seenKept

-----------------------------------------------------------------------------
closeSheet ==
  /\ sheet.phase = "done" /\ sheet' = NoSheet
  /\ UNCHANGED <<handlerVars, shown, forgotten>> /\ Within

\* DECLINED_CLOSE_MS.
DeclinedCloses == sheet.result = "declined" /\ closeSheet

AppRestarts ==
  /\ restarts < MaxRestarts /\ restarts' = restarts + 1
  /\ messages' = <<>> /\ inFlight' = FALSE /\ sheet' = NoSheet
  /\ doing' = "nothing" /\ result' = "none" /\ seenNow' = <<>>
  /\ forgotten' = forgotten \cup LostWithHandler
  /\ UNCHANGED <<seenKept, sent, told, shown, askedAgain, spoiled>>

AgentsSend == \E kind \in {"read", "request", "set"}, n \in Nonces :
  TakeMessage(Sends(kind, n)) \/ RefuseBusy(Sends(kind, n))

SheetTapped == (\E a \in {"approve", "declined"} : answerSheet(a)) \/ pressFromSheet \/ closeSheet

SheetTimers == answerSheet("timeout") \/ DeclinedCloses

HandlerRuns ==
  \/ LoadSeen \/ LoadSeenFails \/ RefuseUnattended \/ PassGates
  \/ \E r \in {"ok", "invalid", "copy_unverified"} : ServeRead(r)
  \/ \E r \in {"dropped", "invalid"} : Drop(r) \/ EndUnasked(r)
  \/ \E blocked \in BOOLEAN : AskPerson(blocked)
  \/ \E r \in {"copy_unverified", "receipt_owed", "invalid"} : RefuseApproved(r)
  \/ KeyWantsPress \/ KeyOpens \/ \E r \in {"timeout", "declined", "invalid"} : KeyRefuses(r)
  \/ Kept \/ Throw \/ SaveSeen \/ SaveSeenFails

EANext == AgentsSend \/ SheetTapped \/ SheetTimers \/ HandlerRuns \/ AppRestarts

\* Every await ends, by an answer, a failure or its own time-out; timers fire. The
\* person owes nothing.
EAFair == WF_eaVars(HandlerRuns) /\ WF_eaVars(SheetTimers)
EASpec == EAInit /\ [][EANext]_eaVars /\ EAFair

-----------------------------------------------------------------------------
\* The person is asked about a nonce once, unless the phone has lost it since: a
\* restart or a failed save before it was kept, or newer ones in its place.
NonceAskedOnce == ~askedAgain

\* "The answer the agent gets is shown last": when a computer has its answer, the
\* sheet of its ask says that, unless another message's failure wrote over it - a
\* time-out's sheet too, which is to stay open and keep new asks away.
SheetTellsTheAnswer ==
  sheet # NoSheet /\ told[sheet.ask] # "nothing" =>
    sheet.phase = "done" /\ (sheet.result = told[sheet.ask] \/ sheet.ask \in spoiled)

\* An ask does not stay on the phone: the next one is not refused as busy for ever,
\* whatever fails and whether or not anyone is there.
AsksEnd == inFlight ~> ~inFlight
=============================================================================
