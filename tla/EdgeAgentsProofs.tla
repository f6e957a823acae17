-------------------------- MODULE EdgeAgentsProofs --------------------------
(***************************************************************************)
(* The agents' asks, for any number of messages, nonces and restarts: what *)
(* the person is asked, and what the sheet says afterwards.                *)
(***************************************************************************)
EXTENDS EdgeAgents, TLAPS

Message == [id : Nat, kind : {"read", "request", "set"}, nonce : Nonces]
Results == {"none", "ok", "invalid", "copy_unverified", "timeout", "dropped",
            "receipt_owed", "declined", "threw"}
SheetRecord == [phase : {"none", "ask", "press", "pressed", "done"}, ask : Nat,
                blocked : BOOLEAN, result : Results]

EAType ==
  /\ messages \in Seq(Message)
  /\ doing \in {"nothing", "gates", "prepares", "asks", "verifies", "presses", "keeps", "finally"}
  /\ result \in Results
  /\ seenKept \in Seq(Nonces) /\ seenNow \in Seq(Nonces)
  /\ sheet \in SheetRecord
  /\ sent \in 0 .. MaxSent
  /\ told \in [1 .. MaxSent -> Results \cup {"nothing", "busy"}]

-----------------------------------------------------------------------------
(***************************************************************************)
(* A nonce.  While a message is handled, every nonce the person was asked  *)
(* about is among the handler's own, which include the kept ones, or was   *)
(* lost; an identity takes its nonce before the gates let it through, so   *)
(* that past them only "was it shown" can be said of it.                   *)
(***************************************************************************)
NonceInv ==
  /\ ~askedAgain
  /\ shown \ forgotten \subseteq ToSet(seenKept) \cup ToSet(seenNow)
  /\ doing = "nothing" => seenNow = <<>>
  /\ doing # "nothing" => messages # <<>> /\ ToSet(seenKept) \subseteq ToSet(seenNow)
  /\ doing = "prepares" => Handles({"request", "set"})
  /\ doing = "prepares" /\ Handles({"set"}) =>
       nonce \in ToSet(seenNow) /\ nonce \notin shown \ forgotten

(***************************************************************************)
(* The sheet.  What waits in the queue has no answer and its numbers grow; *)
(* the sheet is that of the message being handled exactly as long as its   *)
(* computer has no answer, and then it is not done before the result is.   *)
(***************************************************************************)
Queued ==
  /\ \A i \in 1 .. Len(messages) : messages[i].id \in 1 .. sent /\ told[messages[i].id] = "nothing"
  /\ \A i, j \in 1 .. Len(messages) : i < j => messages[i].id < messages[j].id
  /\ \A k \in 1 .. MaxSent : k > sent => told[k] = "nothing"

AtSheet == {"asks", "verifies", "presses", "keeps"}
IsThere == sheet # NoSheet
SheetInv ==
  /\ sheet = NoSheet \/ (sheet.ask \in 1 .. sent /\ sheet.phase # "none")
  /\ doing \in AtSheet => IsThere /\ sheet.ask = Head(messages).id /\ sheet.phase # "done"
  /\ IsThere /\ told[sheet.ask] = "nothing" =>
       doing \in AtSheet \cup {"finally"} /\ messages # <<>> /\ sheet.ask = Head(messages).id
  /\ IsThere /\ doing = "finally" /\ sheet.ask = Head(messages).id /\ result # "threw" =>
       sheet.phase = "done" /\ sheet.result = result

EAInv == EAType /\ NonceInv /\ Queued /\ SheetInv /\ SheetTellsTheAnswer

-----------------------------------------------------------------------------
LEMMA AppendSet ==
  ASSUME NEW S, NEW s \in Seq(S), NEW e \in S
  PROVE  Append(s, e) \in Seq(S) /\ ToSet(Append(s, e)) = ToSet(s) \cup {e}
<1>1. /\ Append(s, e) \in Seq(S) /\ DOMAIN s = 1 .. Len(s) /\ Len(s) \in Nat
      /\ DOMAIN Append(s, e) = 1 .. Len(s) + 1 /\ Append(s, e)[Len(s) + 1] = e
      /\ \A i \in 1 .. Len(s) : Append(s, e)[i] = s[i]
  OBVIOUS
<1>2. 1 .. Len(s) + 1 = (1 .. Len(s)) \cup {Len(s) + 1}
  BY <1>1
<1> QED BY <1>1, <1>2 DEF ToSet

LEMMA InSet ==
  ASSUME NEW S, NEW s \in Seq(S), NEW e
  PROVE  Contains(s, e) <=> e \in ToSet(s)
BY DEF ToSet, Contains

LEMMA TheHead ==
  ASSUME EAType, messages # <<>>
  PROVE  /\ Len(messages) \in Nat \ {0}
         /\ Head(messages) = messages[1] /\ Head(messages) \in Message
         /\ Head(messages).id \in Nat /\ nonce \in Nonces
<1>1. /\ messages \in Seq(Message) /\ Len(messages) \in Nat /\ Len(messages) # 0
      /\ Head(messages) = messages[1] /\ messages[1] \in Message
  BY DEF EAType
<1> QED BY <1>1 DEF Message, nonce

(* What a step that leaves the queue and the answers alone has to keep.     *)
LEMMA WithinQueue ==
  ASSUME EAInv, Within
  PROVE  Queued'
BY DEF EAInv, Queued, Within

LEMMA TakeMessageStep ==
  ASSUME EAInv, NEW kind \in {"read", "request", "set"}, NEW n \in Nonces,
         TakeMessage(Sends(kind, n))
  PROVE  EAInv'
<1> DEFINE m == Sends(kind, n)
<1>1. m \in Message /\ m.id = sent + 1
  BY DEF Sends, Message, EAInv, EAType
<1>2. /\ sent \in Nat /\ sent < MaxSent /\ sent' = sent + 1 /\ messages' = Append(messages, m)
      /\ UNCHANGED <<doing, result, seenNow, seenKept, sheet, told, shown, forgotten, askedAgain, spoiled>>
  BY EAAssumption DEF TakeMessage, EAInv, EAType, handlerVars, agentPast
<1> HIDE DEF m
<1>3. EAType'
  BY <1>1, <1>2, EAAssumption DEF EAInv, EAType
<1>4. messages # <<>> => messages' # <<>> /\ Head(messages') = Head(messages)
  BY <1>1, <1>2 DEF EAInv, EAType
<1>5. messages' # <<>>
  BY <1>1, <1>2 DEF EAInv, EAType
<1>6. NonceInv'
  <2>1. doing # "nothing" => messages # <<>>
    BY DEF EAInv, NonceInv
  <2> QED BY <1>2, <1>4, <1>5, <2>1 DEF EAInv, NonceInv, Handles, nonce
<1>7. Queued'
  <2>1. /\ Len(messages) \in Nat /\ Len(messages') = Len(messages) + 1
        /\ messages'[Len(messages) + 1] = m
        /\ \A i \in 1 .. Len(messages) : messages'[i] = messages[i]
    BY <1>1, <1>2 DEF EAInv, EAType
  <2>2. told[sent + 1] = "nothing"
    BY <1>2, EAAssumption DEF EAInv, Queued
  <2>3. \A i \in 1 .. Len(messages') :
          i \in 1 .. Len(messages) \/ (i = Len(messages) + 1 /\ messages'[i] = m)
    BY <2>1
  <2>4. \A i \in 1 .. Len(messages') : messages'[i].id \in 1 .. sent' /\ told'[messages'[i].id] = "nothing"
    BY <1>1, <1>2, <2>1, <2>2, <2>3 DEF EAInv, Queued
  <2>5. \A i, j \in 1 .. Len(messages') : i < j => messages'[i].id < messages'[j].id
    BY <1>1, <1>2, <2>1, <2>3 DEF EAInv, Queued
  <2>6. \A k \in 1 .. MaxSent : k > sent' => told'[k] = "nothing"
    BY <1>2, EAAssumption DEF EAInv, Queued
  <2> QED BY <2>4, <2>5, <2>6 DEF Queued
<1>8. SheetInv'
  <2>1. doing \in AtSheet => messages # <<>>
    BY DEF EAInv, NonceInv, AtSheet
  <2>2. doing = "finally" => messages # <<>>
    BY DEF EAInv, NonceInv
  <2> QED BY <1>2, <1>4, <1>5, <2>1, <2>2 DEF EAInv, SheetInv, IsThere
<1>9. SheetTellsTheAnswer'
  BY <1>2 DEF EAInv, SheetTellsTheAnswer
<1> QED BY <1>3, <1>6, <1>7, <1>8, <1>9 DEF EAInv

LEMMA RefuseBusyStep ==
  ASSUME EAInv, NEW kind \in {"read", "request", "set"}, NEW n \in Nonces,
         RefuseBusy(Sends(kind, n))
  PROVE  EAInv'
<1>1. /\ sent \in Nat /\ sent < MaxSent /\ sent' = sent + 1
      /\ told' = [told EXCEPT ![sent + 1] = "busy"]
      /\ UNCHANGED <<messages, doing, result, seenNow, seenKept, sheet, shown, forgotten, askedAgain, spoiled>>
  BY EAAssumption DEF RefuseBusy, Sends, EAInv, EAType, handlerVars, agentPast
<1>2. EAType'
  BY <1>1, EAAssumption DEF EAInv, EAType
<1>3. \A k \in 1 .. sent : k \in 1 .. MaxSent /\ told'[k] = told[k]
  BY <1>1, EAAssumption DEF EAInv, EAType
<1>4. NonceInv'
  BY <1>1 DEF EAInv, NonceInv, Handles, nonce
<1>5. Queued'
  <2>1. \A k \in 1 .. MaxSent : k > sent' => told'[k] = "nothing"
    BY <1>1, EAAssumption DEF EAInv, EAType, Queued
  <2>2. \A i \in 1 .. Len(messages) : messages[i].id \in 1 .. sent' /\ told'[messages[i].id] = "nothing"
    BY <1>1, <1>3 DEF EAInv, Queued
  <2> QED BY <1>1, <2>1, <2>2 DEF EAInv, Queued
<1>6. IsThere => sheet.ask \in 1 .. sent
  BY DEF EAInv, SheetInv, IsThere
<1>7. SheetInv'
  BY <1>1, <1>3, <1>6 DEF EAInv, SheetInv, IsThere
<1>8. SheetTellsTheAnswer'
  BY <1>1, <1>3, <1>6 DEF EAInv, SheetTellsTheAnswer, IsThere
<1> QED BY <1>2, <1>4, <1>5, <1>7, <1>8 DEF EAInv

(***************************************************************************)
(* The end of a message, whatever came of it.                              *)
(***************************************************************************)
LEMMA TheTail ==
  ASSUME EAInv, messages # <<>>
  PROVE  /\ Tail(messages) \in Seq(Message)
         /\ Len(Tail(messages)) = Len(messages) - 1
         /\ \A i \in 1 .. Len(Tail(messages)) :
              i + 1 \in 1 .. Len(messages) /\ Tail(messages)[i] = messages[i + 1]
BY DEF EAInv, EAType

LEMMA EndsStep ==
  ASSUME EAInv, NEW r \in Results, messages # <<>>, Ends(r),
         seenKept' \in Seq(Nonces),
         shown \ forgotten' \subseteq ToSet(seenKept'),
         r # "threw" => doing = "finally" /\ r = result
  PROVE  EAInv'
<1> DEFINE id == Head(messages).id
           v == IF r = "threw" THEN "invalid" ELSE r
<1>1. id \in 1 .. sent /\ id \in 1 .. MaxSent /\ told[id] = "nothing" /\ id = messages[1].id
  BY TheHead, EAAssumption DEF EAInv, Queued, EAType
<1>2. /\ doing' = "nothing" /\ result' = "none" /\ seenNow' = <<>>
      /\ messages' = Tail(messages) /\ sheet' = SheetAfter(r)
      /\ told' = [told EXCEPT ![id] = v]
      /\ spoiled' = IF r = "threw" /\ sheet.ask \notin {0, id} THEN spoiled \cup {sheet.ask} ELSE spoiled
      /\ UNCHANGED <<sent, shown, askedAgain>>
  BY DEF Ends
<1>3. v \in Results /\ v # "nothing"
  BY DEF Results
<1> HIDE DEF v, id
<1>4. told' \in [1 .. MaxSent -> Results \cup {"nothing", "busy"}]
      /\ told'[id] = v /\ \A k \in 1 .. MaxSent : k # id => told'[k] = told[k]
  BY <1>1, <1>2, <1>3 DEF EAInv, EAType
<1>5. sheet' \in SheetRecord
  BY <1>2 DEF SheetAfter, EAInv, EAType, SheetRecord, Results
<1>6. EAType'
  BY <1>2, <1>4, <1>5, TheTail DEF EAInv, EAType, Results
<1>7. NonceInv'
  BY <1>2 DEF EAInv, NonceInv
<1>8. Queued'
  <2>1. \A i \in 1 .. Len(messages') : /\ i + 1 \in 1 .. Len(messages)
                                       /\ messages'[i] = messages[i + 1]
                                       /\ messages'[i].id # id
    <3> SUFFICES ASSUME NEW i \in 1 .. Len(messages')
                 PROVE  /\ i + 1 \in 1 .. Len(messages) /\ messages'[i] = messages[i + 1]
                        /\ messages[i + 1].id # id
      OBVIOUS
    <3>1. i + 1 \in 1 .. Len(messages) /\ messages'[i] = messages[i + 1]
      BY <1>2, TheTail
    <3>2. Len(messages) \in Nat /\ 1 \in 1 .. Len(messages) /\ 1 < i + 1
      BY <3>1, TheHead
    <3>3. messages[1].id < messages[i + 1].id /\ messages[1].id \in 1 .. sent /\ messages[i + 1].id \in 1 .. sent
      BY <3>1, <3>2 DEF EAInv, Queued
    <3>4. sent \in Nat
      BY EAAssumption DEF EAInv, EAType
    <3> QED BY <1>1, <3>1, <3>3, <3>4
  <2>2. \A i \in 1 .. Len(messages') : messages'[i].id \in 1 .. sent' /\ told'[messages'[i].id] = "nothing"
    BY <1>2, <1>4, <2>1, EAAssumption DEF EAInv, Queued, EAType
  <2>3. \A i, j \in 1 .. Len(messages') : i < j => messages'[i].id < messages'[j].id
    BY <2>1, TheTail, TheHead, <1>2 DEF EAInv, Queued, EAType
  <2>4. \A k \in 1 .. MaxSent : k > sent' => told'[k] = "nothing"
    <3>1. sent \in Nat /\ sent' = sent
      BY <1>2, EAAssumption DEF EAInv, EAType
    <3> QED BY <1>1, <1>4, <3>1, EAAssumption DEF EAInv, Queued
  <2> QED BY <2>2, <2>3, <2>4 DEF Queued
<1>9. IsThere' <=> IsThere
  BY <1>2 DEF SheetAfter, IsThere, NoSheet, EAInv, SheetInv, EAType, SheetRecord
<1>10. IsThere => sheet'.ask = sheet.ask /\ sheet.ask \in 1 .. sent /\ sheet.ask \in 1 .. MaxSent
  BY <1>2, EAAssumption DEF SheetAfter, IsThere, EAInv, SheetInv, EAType, SheetRecord
<1>11. IsThere => told'[sheet.ask] # "nothing"
  BY <1>1, <1>3, <1>4, <1>10 DEF EAInv, SheetInv, id
<1>12. SheetInv'
  <2>1. sheet' = NoSheet \/ (sheet'.ask \in 1 .. sent' /\ sheet'.phase # "none")
    BY <1>2, <1>10 DEF SheetAfter, IsThere, EAInv, SheetInv, EAType, SheetRecord
  <2> QED BY <1>2, <1>9, <1>10, <1>11, <2>1 DEF SheetInv, AtSheet
<1>13. SheetTellsTheAnswer'
  <2> SUFFICES ASSUME IsThere
               PROVE  sheet'.phase = "done" /\ (sheet'.result = told'[sheet.ask] \/ sheet.ask \in spoiled')
    BY <1>9, <1>10 DEF SheetTellsTheAnswer, IsThere
  <2>1. CASE r = "threw"
    <3>1. sheet'.phase = "done" /\ sheet'.result = "invalid"
      BY <1>2, <2>1 DEF SheetAfter, IsThere, EAInv, EAType, SheetRecord
    <3>2. sheet.ask = id => told'[sheet.ask] = "invalid"
      BY <1>4, <2>1 DEF v
    <3>3. sheet.ask # id => sheet.ask \in spoiled'
      BY <1>2, <1>10, <2>1
    <3> QED BY <3>1, <3>2, <3>3
  <2>2. CASE r # "threw"
    <3>1. sheet' = sheet /\ spoiled' = spoiled /\ v = r
      BY <1>2, <2>2 DEF SheetAfter, v
    <3>2. CASE sheet.ask = id
      BY <1>4, <2>2, <3>1, <3>2 DEF EAInv, SheetInv, id
    <3>3. CASE sheet.ask # id
      <4>1. told[sheet.ask] # "nothing"
        BY <3>3 DEF EAInv, SheetInv, id
      <4> QED BY <1>4, <1>10, <3>1, <3>3, <4>1 DEF EAInv, SheetTellsTheAnswer, IsThere
    <3> QED BY <3>2, <3>3
  <2> QED BY <2>1, <2>2
<1> QED BY <1>6, <1>7, <1>8, <1>12, <1>13 DEF EAInv

LEMMA LoadSeenFailsStep ==
  ASSUME EAInv, LoadSeenFails
  PROVE  EAInv'
<1>1. messages # <<>> /\ Ends("threw") /\ seenKept' = seenKept /\ forgotten' = forgotten /\ seenNow = <<>>
  BY DEF LoadSeenFails, EAInv, NonceInv
<1>2. ToSet(seenNow) = {}
  BY <1>1 DEF ToSet
<1>3. seenKept' \in Seq(Nonces) /\ shown \ forgotten' \subseteq ToSet(seenKept')
  BY <1>1, <1>2 DEF EAInv, EAType, NonceInv
<1> QED BY <1>1, <1>3, EndsStep DEF Results

LEMMA NewestType ==
  ASSUME NEW s \in Seq(Nonces)
  PROVE  Newest(s) \in Seq(Nonces)
<1>1. Len(s) \in Nat /\ SEEN_KEPT \in Nat
  BY EAAssumption
<1>2. CASE Len(s) > SEEN_KEPT
  BY <1>1, <1>2 DEF Newest
<1>3. CASE ~(Len(s) > SEEN_KEPT)
  BY <1>1, <1>3 DEF Newest
<1> QED BY <1>2, <1>3

LEMMA SaveSeenStep ==
  ASSUME EAInv, SaveSeen \/ SaveSeenFails
  PROVE  EAInv'
<1>1. doing = "finally" /\ messages # <<>> /\ result \in Results
      /\ ToSet(seenKept) \subseteq ToSet(seenNow) /\ shown \ forgotten \subseteq ToSet(seenNow)
  BY DEF EAInv, EAType, NonceInv, SaveSeen, SaveSeenFails
<1>2. CASE SaveSeen
  <2>1. seenKept' \in Seq(Nonces)
    BY <1>2, NewestType DEF SaveSeen, EAInv, EAType
  <2> QED BY <1>1, <1>2, <2>1, EndsStep DEF SaveSeen
<1>3. CASE SaveSeenFails
  <2>1. seenKept' = seenKept /\ forgotten' = forgotten \cup (ToSet(seenNow) \ ToSet(seenKept)) /\ Ends("threw")
    BY <1>3 DEF SaveSeenFails, LostWithHandler
  <2> QED BY <1>1, <2>1, EndsStep DEF EAInv, EAType, Results
<1> QED BY <1>2, <1>3

-----------------------------------------------------------------------------
(***************************************************************************)
(* Steps of handle between the first and the last await of a message.      *)
(***************************************************************************)
LEMMA HandledHead ==
  ASSUME EAInv, doing # "nothing"
  PROVE  /\ messages # <<>> /\ told[Head(messages).id] = "nothing"
         /\ ToSet(seenKept) \subseteq ToSet(seenNow) /\ nonce \in Nonces
BY TheHead DEF EAInv, NonceInv, Queued

(* A step that leaves the sheet alone.                                     *)
LEMMA QuietStep ==
  ASSUME EAInv, Within, UNCHANGED <<sheet, shown, forgotten>>,
         doing \notin {"nothing", "finally"},
         doing' \in {"prepares", "finally"} \cup AtSheet,
         result' \in Results, seenNow' \in Seq(Nonces), ToSet(seenNow) \subseteq ToSet(seenNow'),
         doing' = "prepares" => Handles({"request", "set"}),
         doing' = "prepares" /\ Handles({"set"}) =>
           nonce \in ToSet(seenNow') /\ nonce \notin shown \ forgotten,
         doing \in AtSheet =>
           doing' \in AtSheet \/ (doing' = "finally" /\ result' = "threw"),
         doing' \in AtSheet => doing \in AtSheet
  PROVE  EAInv'
<1>1. UNCHANGED <<messages, seenKept, sent, told, askedAgain, spoiled, sheet, shown, forgotten>>
  BY DEF Within
<1>2. EAType'
  BY <1>1 DEF EAInv, EAType, AtSheet
<1>3. NonceInv'
  BY <1>1, HandledHead DEF EAInv, NonceInv, Handles, nonce, AtSheet
<1>4. Queued'
  BY WithinQueue
<1>5. SheetInv'
  BY <1>1, HandledHead DEF EAInv, SheetInv, IsThere, AtSheet
<1>6. SheetTellsTheAnswer'
  BY <1>1 DEF EAInv, SheetTellsTheAnswer
<1> QED BY <1>2, <1>3, <1>4, <1>5, <1>6 DEF EAInv

(* A step that moves the sheet of the message it handles, or ends with it. *)
LEMMA OwnSheetStep ==
  ASSUME EAInv, Within, UNCHANGED <<seenNow, shown, forgotten>>,
         doing \in AtSheet, NEW ph \in {"press", "done"}, NEW r \in Results,
         sheet' = [sheet EXCEPT !.phase = ph, !.result = r],
         \/ ph = "press" /\ doing' \in AtSheet /\ result' \in Results
         \/ ph = "done" /\ doing' = "finally" /\ result' = r
  PROVE  EAInv'
<1>1. UNCHANGED <<messages, seenNow, seenKept, sent, told, askedAgain, spoiled, shown, forgotten>>
  BY DEF Within
<1>2. messages # <<>> /\ IsThere /\ sheet.ask = Head(messages).id /\ sheet.ask \in 1 .. sent
      /\ told[sheet.ask] = "nothing"
  BY HandledHead DEF EAInv, SheetInv, AtSheet, IsThere
<1>3. sheet' \in SheetRecord /\ sheet'.ask = sheet.ask /\ sheet'.phase = ph /\ sheet'.result = r
  BY DEF EAInv, EAType, SheetRecord
<1>4. EAType'
  BY <1>1, <1>3 DEF EAInv, EAType, AtSheet
<1>5. NonceInv'
  BY <1>1, HandledHead DEF EAInv, NonceInv, Handles, nonce, AtSheet
<1>6. Queued'
  BY WithinQueue
<1>7. IsThere'
  BY <1>3 DEF IsThere, NoSheet
<1>8. SheetInv'
  BY <1>1, <1>2, <1>3, <1>7 DEF SheetInv, AtSheet, IsThere
<1>9. SheetTellsTheAnswer'
  BY <1>1, <1>2, <1>3 DEF SheetTellsTheAnswer
<1> QED BY <1>4, <1>5, <1>6, <1>8, <1>9 DEF EAInv

LEMMA LoadSeenStep ==
  ASSUME EAInv, LoadSeen
  PROVE  EAInv'
<1>1. /\ messages # <<>> /\ doing = "nothing" /\ doing' = "gates" /\ seenNow' = seenKept
      /\ UNCHANGED <<messages, result, seenKept, sheet, sent, told, shown, forgotten, askedAgain, spoiled>>
  BY DEF LoadSeen, agentPast
<1>2. EAType'
  BY <1>1 DEF EAInv, EAType
<1>3. NonceInv'
  <2>1. ToSet(seenNow) = {}
    BY <1>1 DEF ToSet, EAInv, NonceInv
  <2> QED BY <1>1, <2>1 DEF EAInv, NonceInv
<1>4. Queued'
  BY <1>1 DEF EAInv, Queued
<1>5. SheetInv'
  BY <1>1 DEF EAInv, SheetInv, IsThere, AtSheet
<1>6. SheetTellsTheAnswer'
  BY <1>1 DEF EAInv, SheetTellsTheAnswer
<1> QED BY <1>2, <1>3, <1>4, <1>5, <1>6 DEF EAInv

(* Past the gates an identity's nonce is new: nobody was asked about it, or *)
(* it was lost since.                                                      *)
LEMMA NewNonce ==
  ASSUME EAInv, doing # "nothing", ~Replayed
  PROVE  nonce \notin shown \ forgotten
<1>1. nonce \notin ToSet(seenNow)
  BY InSet DEF Replayed, EAInv, EAType
<1> QED BY <1>1, HandledHead DEF EAInv, NonceInv

LEMMA TakingANonce ==
  ASSUME EAInv, doing # "nothing", TakesNonce
  PROVE  /\ seenNow' \in Seq(Nonces)
         /\ ToSet(seenNow') = ToSet(seenNow) \cup {nonce}
BY HandledHead, AppendSet DEF TakesNonce, EAInv, EAType

LEMMA GatesStep ==
  ASSUME EAInv,
         \/ \E r \in {"ok", "invalid", "copy_unverified"} : ServeRead(r)
         \/ \E r \in {"dropped", "invalid"} : Drop(r)
         \/ RefuseUnattended \/ PassGates
  PROVE  EAInv'
<1>1. doing = "gates" /\ Within /\ UNCHANGED <<sheet, shown, forgotten>>
  BY DEF ServeRead, Drop, RefuseUnattended, PassGates
<1>2. seenNow' \in Seq(Nonces) /\ ToSet(seenNow) \subseteq ToSet(seenNow')
  <2>1. seenNow' = seenNow \/ TakesNonce
    BY DEF ServeRead, Drop, RefuseUnattended, PassGates
  <2> QED BY <1>1, <2>1, TakingANonce DEF EAInv, EAType
<1>3. doing' \in {"prepares", "finally"} /\ result' \in Results
  BY DEF ServeRead, Drop, RefuseUnattended, PassGates, Returns, EAInv, EAType, Results
<1>4. doing' = "prepares" /\ Handles({"set"}) =>
        nonce \in ToSet(seenNow') /\ nonce \notin shown \ forgotten
  <2> SUFFICES ASSUME doing' = "prepares", Handles({"set"})
               PROVE  nonce \in ToSet(seenNow') /\ nonce \notin shown \ forgotten
    OBVIOUS
  <2>1. ~Replayed /\ TakesNonce
    BY DEF ServeRead, Drop, RefuseUnattended, PassGates, Returns
  <2> QED BY <1>1, <2>1, NewNonce, TakingANonce
<1>5. doing' = "prepares" => Handles({"request", "set"})
  BY DEF ServeRead, Drop, RefuseUnattended, PassGates, Returns
<1> QED BY <1>1, <1>2, <1>3, <1>4, <1>5, QuietStep DEF AtSheet

LEMMA AskPersonStep ==
  ASSUME EAInv, NEW blocked \in BOOLEAN, AskPerson(blocked)
  PROVE  EAInv'
<1> DEFINE id == Head(messages).id
<1>1. /\ doing = "prepares" /\ doing' = "asks" /\ NewToPhone
      /\ (Handles({"request"}) /\ TakesNonce) \/ (~Handles({"request"}) /\ seenNow' = seenNow)
      /\ sheet' = [phase |-> "ask", ask |-> id, blocked |-> blocked, result |-> "none"]
      /\ shown' = shown \cup {nonce} /\ forgotten' = forgotten \ {nonce}
      /\ askedAgain' = (askedAgain \/ (nonce \in shown /\ nonce \notin forgotten))
      /\ UNCHANGED <<messages, seenKept, sent, told, result, spoiled>>
  BY DEF AskPerson
<1>2. messages # <<>> /\ id \in 1 .. sent /\ told[id] = "nothing" /\ id \in Nat
  BY <1>1, HandledHead, TheHead DEF EAInv, Queued
<1>3. /\ seenNow' \in Seq(Nonces) /\ ToSet(seenNow) \subseteq ToSet(seenNow')
      /\ nonce \in ToSet(seenNow') /\ nonce \notin shown \ forgotten
  <2>1. CASE Handles({"request"})
    <3>1. ~Replayed
      BY <1>1, <2>1 DEF NewToPhone, Handles
    <3> QED BY <1>1, <2>1, <3>1, TakingANonce, NewNonce
  <2>2. CASE ~Handles({"request"})
    <3>1. CASE Handles({"set"})
      BY <1>1, <2>2, <3>1 DEF EAInv, EAType, NonceInv
    <3>2. CASE ~Handles({"set"})
      BY <1>1, <2>2, <3>2 DEF EAInv, NonceInv, Handles
    <3> QED BY <3>1, <3>2
  <2> QED BY <2>1, <2>2
<1>4. sheet' \in SheetRecord
  BY <1>1, <1>2 DEF SheetRecord, Results
<1>5. EAType'
  BY <1>1, <1>3, <1>4 DEF EAInv, EAType
<1>6. NonceInv'
  BY <1>1, <1>2, <1>3 DEF EAInv, NonceInv
<1>7. Queued'
  BY <1>1 DEF EAInv, Queued
<1>8. SheetInv'
  BY <1>1, <1>2 DEF SheetInv, IsThere, AtSheet, NoSheet
<1>9. SheetTellsTheAnswer'
  BY <1>1, <1>2 DEF SheetTellsTheAnswer
<1> QED BY <1>5, <1>6, <1>7, <1>8, <1>9 DEF EAInv

LEMMA RefuseStep ==
  ASSUME EAInv, doing \in AtSheet, NEW r \in Results, Refuse(r)
  PROVE  EAInv'
<1>1. Within /\ UNCHANGED <<seenNow, shown, forgotten>> /\ doing' = "finally" /\ result' = r
      /\ sheet' = [sheet EXCEPT !.phase = "done", !.result = r]
  BY DEF Refuse, ShowDone, Returns
<1> QED BY <1>1, OwnSheetStep

LEMMA AnswerStep ==
  ASSUME EAInv, NEW a \in {"approve", "declined", "timeout"}, answerSheet(a)
  PROVE  EAInv'
<1>1. doing = "asks" /\ doing \in AtSheet
  BY DEF answerSheet, AtSheet
<1>2. CASE sheet.blocked
  BY <1>1, <1>2, RefuseStep DEF answerSheet, Results
<1>3. CASE ~sheet.blocked /\ a # "approve"
  BY <1>1, <1>3, RefuseStep DEF answerSheet, Results
<1>4. CASE ~sheet.blocked /\ a = "approve"
  <2>1. Within /\ UNCHANGED <<result, sheet, seenNow, shown, forgotten>> /\ doing' \in AtSheet
    BY <1>4 DEF answerSheet, AtSheet
  <2> QED BY <1>1, <2>1, QuietStep DEF EAInv, EAType, AtSheet
<1> QED BY <1>2, <1>3, <1>4

LEMMA KeyStep ==
  ASSUME EAInv,
         \/ \E r \in {"copy_unverified", "receipt_owed", "invalid"} : RefuseApproved(r)
         \/ \E r \in {"timeout", "declined", "invalid"} : KeyRefuses(r)
         \/ KeyWantsPress \/ KeyOpens \/ Kept
  PROVE  EAInv'
<1>1. CASE \E r \in {"copy_unverified", "receipt_owed", "invalid"} : RefuseApproved(r)
  BY <1>1, RefuseStep DEF RefuseApproved, AtSheet, Results
<1>2. CASE \E r \in {"timeout", "declined", "invalid"} : KeyRefuses(r)
  BY <1>2, RefuseStep DEF KeyRefuses, AtSheet, Results
<1>3. CASE KeyWantsPress
  <2>1. doing \in AtSheet /\ doing' \in AtSheet /\ sheet' = [sheet EXCEPT !.phase = "press"]
        /\ Within /\ UNCHANGED <<result, seenNow, shown, forgotten>>
    BY <1>3 DEF KeyWantsPress, AtSheet
  <2>2. sheet.result \in Results /\ sheet' = [sheet EXCEPT !.phase = "press", !.result = sheet.result]
    BY <2>1 DEF EAInv, EAType, SheetRecord
  <2> QED BY <2>1, <2>2, OwnSheetStep DEF EAInv, EAType
<1>4. CASE KeyOpens
  <2>1. Within /\ UNCHANGED <<result, sheet, seenNow, shown, forgotten>> /\ doing' \in AtSheet
        /\ doing \in AtSheet /\ doing' = "keeps"
    BY <1>4 DEF KeyOpens, AtSheet
  <2> QED BY <2>1, QuietStep DEF EAInv, EAType, AtSheet
<1>5. CASE Kept
  <2>1. doing \in AtSheet /\ Refuse("ok")
    BY <1>5 DEF Kept, Refuse, AtSheet
  <2> QED BY <2>1, RefuseStep DEF Results
<1> QED BY <1>1, <1>2, <1>3, <1>4, <1>5

LEMMA EarlyEndStep ==
  ASSUME EAInv, Throw \/ \E r \in {"dropped", "invalid"} : EndUnasked(r)
  PROVE  EAInv'
<1>1. CASE Throw
  <2>1. /\ doing \in {"gates", "prepares", "verifies", "presses", "keeps"}
        /\ doing' = "finally" /\ result' = "threw" /\ Within
        /\ UNCHANGED <<seenNow, sheet, shown, forgotten>>
    BY <1>1 DEF Throw, Returns
  <2> QED BY <2>1, QuietStep DEF EAInv, EAType, AtSheet, Results
<1>2. CASE \E r \in {"dropped", "invalid"} : EndUnasked(r)
  <2>1. /\ doing = "prepares" /\ doing' = "finally" /\ result' \in Results /\ Within
        /\ UNCHANGED <<seenNow, sheet, shown, forgotten>>
    BY <1>2 DEF EndUnasked, Returns, Results
  <2> QED BY <2>1, QuietStep DEF EAInv, EAType, AtSheet
<1> QED BY <1>1, <1>2

-----------------------------------------------------------------------------
(***************************************************************************)
(* The person and the sheet, at any time.                                  *)
(***************************************************************************)
LEMMA PressStep ==
  ASSUME EAInv, pressFromSheet
  PROVE  EAInv'
<1>1. /\ sheet.phase = "press" /\ sheet' = [sheet EXCEPT !.phase = "pressed"]
      /\ UNCHANGED <<messages, doing, result, seenNow, seenKept, sent, told, shown, forgotten, askedAgain, spoiled>>
      /\ Within
  BY DEF pressFromSheet, Within, handlerVars
<1>2. sheet' \in SheetRecord /\ sheet'.ask = sheet.ask /\ sheet'.phase = "pressed"
  BY <1>1 DEF EAInv, EAType, SheetRecord
<1>3. EAType'
  BY <1>1, <1>2 DEF EAInv, EAType
<1>4. NonceInv'
  BY <1>1 DEF EAInv, NonceInv, Handles, nonce
<1>5. Queued'
  BY <1>1, WithinQueue
<1>6. IsThere /\ IsThere' /\ told[sheet.ask] = "nothing"
  BY <1>1, <1>2 DEF IsThere, NoSheet, EAInv, SheetTellsTheAnswer
<1>7. SheetInv'
  BY <1>1, <1>2, <1>6 DEF EAInv, SheetInv, IsThere
<1>8. SheetTellsTheAnswer'
  BY <1>1, <1>2, <1>6 DEF SheetTellsTheAnswer
<1> QED BY <1>3, <1>4, <1>5, <1>7, <1>8 DEF EAInv

LEMMA CloseStep ==
  ASSUME EAInv, closeSheet
  PROVE  EAInv'
<1>1. /\ sheet.phase = "done" /\ sheet' = NoSheet
      /\ UNCHANGED <<messages, doing, result, seenNow, seenKept, sent, told, shown, forgotten, askedAgain, spoiled>>
      /\ Within
  BY DEF closeSheet, Within, handlerVars
<1>2. EAType'
  BY <1>1 DEF EAInv, EAType, NoSheet, SheetRecord, Results
<1>3. NonceInv'
  BY <1>1 DEF EAInv, NonceInv, Handles, nonce
<1>4. Queued'
  BY <1>1, WithinQueue
<1>5. SheetInv' /\ SheetTellsTheAnswer'
  BY <1>1 DEF EAInv, SheetInv, IsThere, SheetTellsTheAnswer
<1> QED BY <1>2, <1>3, <1>4, <1>5 DEF EAInv

LEMMA RestartStep ==
  ASSUME EAInv, AppRestarts
  PROVE  EAInv'
<1>1. /\ messages' = <<>> /\ sheet' = NoSheet /\ doing' = "nothing" /\ result' = "none" /\ seenNow' = <<>>
      /\ forgotten' = forgotten \cup (ToSet(seenNow) \ ToSet(seenKept))
      /\ UNCHANGED <<seenKept, sent, told, shown, askedAgain, spoiled>>
  BY DEF AppRestarts, LostWithHandler
<1>2. EAType'
  BY <1>1 DEF EAInv, EAType, NoSheet, SheetRecord, Results
<1>3. NonceInv'
  BY <1>1 DEF EAInv, NonceInv
<1>4. Queued'
  BY <1>1 DEF EAInv, Queued
<1>5. SheetInv' /\ SheetTellsTheAnswer'
  BY <1>1 DEF SheetInv, IsThere, AtSheet, SheetTellsTheAnswer
<1> QED BY <1>2, <1>3, <1>4, <1>5 DEF EAInv

-----------------------------------------------------------------------------
LEMMA EAInitInv ==
  ASSUME EAInit
  PROVE  EAInv
<1>1. EAType
  BY EAAssumption DEF EAInit, EAType, NoSheet, SheetRecord, Results
<1>2. NonceInv
  BY DEF EAInit, NonceInv
<1>3. Queued
  BY EAAssumption DEF EAInit, Queued
<1>4. SheetInv /\ SheetTellsTheAnswer
  BY DEF EAInit, SheetInv, IsThere, AtSheet, SheetTellsTheAnswer
<1> QED BY <1>1, <1>2, <1>3, <1>4 DEF EAInv

LEMMA EAStep ==
  ASSUME EAInv, [EANext]_eaVars
  PROVE  EAInv'
<1>1. CASE AgentsSend
  BY <1>1, TakeMessageStep, RefuseBusyStep DEF AgentsSend
<1>2. CASE SheetTapped
  BY <1>2, AnswerStep, PressStep, CloseStep DEF SheetTapped
<1>3. CASE SheetTimers
  BY <1>3, AnswerStep, CloseStep DEF SheetTimers, DeclinedCloses
<1>4. CASE HandlerRuns
  BY <1>4, LoadSeenStep, LoadSeenFailsStep, GatesStep, EarlyEndStep, AskPersonStep, KeyStep,
     SaveSeenStep DEF HandlerRuns
<1>5. CASE AppRestarts
  BY <1>5, RestartStep
<1>6. CASE UNCHANGED eaVars
  BY <1>6 DEF eaVars, handlerVars, agentPast, EAInv, EAType, NonceInv, Queued, SheetInv, IsThere,
     SheetTellsTheAnswer, Handles, nonce
<1> QED BY <1>1, <1>2, <1>3, <1>4, <1>5, <1>6 DEF EANext

LEMMA EAAlways == EASpec => []EAInv
<1>1. EAInit => EAInv
  BY EAInitInv
<1>2. EAInv /\ [EANext]_eaVars => EAInv'
  BY EAStep
<1> QED BY <1>1, <1>2, PTL DEF EASpec

(***************************************************************************)
(* handle, verify, saveSeen: the person is asked about a nonce once, unless *)
(* the phone lost it since, whatever fails and whenever the app restarts.  *)
(***************************************************************************)
THEOREM NoncesAreAskedOnce == EASpec => []NonceAskedOnce
<1>1. EAInv => NonceAskedOnce
  BY DEF EAInv, NonceInv, NonceAskedOnce
<1> QED BY <1>1, EAAlways, PTL

(***************************************************************************)
(* show, handleEdgeMessage's catch: the sheet that is there once its        *)
(* computer was answered says that answer, unless another message's        *)
(* failure wrote over it.                                                  *)
(***************************************************************************)
THEOREM SheetSaysWhatWasTold == EASpec => []SheetTellsTheAnswer
<1>1. EAInv => SheetTellsTheAnswer
  BY DEF EAInv
<1> QED BY <1>1, EAAlways, PTL
=============================================================================
