------------------------- MODULE VendorBridgeProofs -------------------------
(***************************************************************************)
(* The vendor bridge, for any computers, keys and number of reports,       *)
(* conversations, turns and timers: its books and the lanes' agree, a       *)
(* computer's report strays out of its lane only after the active key       *)
(* changed, and no answer to the app leaks to a computer without a reason.  *)
(***************************************************************************)
EXTENDS VendorBridge, WellFoundedInduction, TLAPS

-----------------------------------------------------------------------------
(***************************************************************************)
(* The types.                                                              *)
(***************************************************************************)

Msgs == [from : Computers \cup {TheApp}, what : Contents \cup Asked, id : Nat]
Events == [kind : {"write", "report"}, of : Msgs, early : BOOLEAN]
Talks == {"bridge", "app", "urgent"}
Waiting == [from : Computers, key : Keys, what : Contents, id : {0}]

BookTypes ==
  /\ api \in BOOLEAN /\ target \in Computers \cup {None} /\ key \in Keys
  /\ up \in BOOLEAN /\ owner \in Computers \cup {None}
  /\ boundTo \in Keys \cup {None}
  /\ held \in Keys \cup {None} /\ holding \in BOOLEAN /\ timer \in BOOLEAN
  /\ waits \in Seq(Waiting) /\ strayed \in BOOLEAN /\ moved \in BOOLEAN
Lanes == [run : Talks \cup {None}, wait : Seq(Talks)]
LaneTypes ==
  /\ lane \in [Keys -> Lanes]
  /\ app \in [Keys -> {"no", "asks", "turn", "sent"}]
  /\ apps \in Nat /\ conv \in [Keys -> Nat]
  /\ \A k \in Keys : conv[k] <= apps
PipeTypes ==
  /\ unechoed \in [Keys -> Seq(Msgs)] /\ inq \in [Keys -> Seq(Msgs)]
  /\ press \in [Keys -> BOOLEAN] /\ ev \in [Keys -> Seq(Events)]
VBType == BookTypes /\ LaneTypes /\ PipeTypes

(* What the bridge believes of the lanes, and what they run.               *)
HoldInv ==
  /\ \A k \in Keys : lane[k].run = "bridge" <=> held = k
  /\ timer => held # None
  /\ (holding /\ held = None) <=> (\E k \in Keys : InTurn(k) # {})
  /\ \A k, l \in Keys : \A i \in InTurn(k), j \in InTurn(l) : k = l /\ i = j
  /\ held # None => holding
  /\ (waits # << >>) <=> (holding /\ held = None)
  /\ \A k \in Keys : app[k] \in {"turn", "sent"} => lane[k].run \in {"app", "urgent"}

(* While the active key stays, a hold is wanted, held and used on it only. *)
InsideInv ==
  /\ ~moved /\ holding =>
       /\ held \in {None, key} /\ boundTo \in {None, key}
       /\ \A k \in Keys : InTurn(k) # {} => k = key
       /\ \A i \in DOMAIN waits : waits[i].key = key
  /\ strayed => moved

(* The app has at most one place in a lane's queue, while it asks for it.  *)
AtMostOne(w) == \A i, j \in DOMAIN w : w[i] # "bridge" /\ w[j] # "bridge" => i = j
AskInv ==
  \A k \in Keys :
    /\ AtMostOne(lane[k].wait)
    /\ (\E i \in DOMAIN lane[k].wait : lane[k].wait[i] # "bridge") => app[k] = "asks"

(* No answer to this request of the app leaks without a reason any more.   *)
Settled(k, id) ==
  \/ owner = None \/ boundTo # k \/ id \in mistaken
  \/ app[k] # "sent" \/ id # conv[k] \/ strayed
(* The request is of the conversation the app has at k, or of an earlier.  *)
Past(k, id) == id <= conv[k] /\ (app[k] \in {"asks", "turn"} => id < conv[k])

PastInv ==
  \A k \in Keys :
    /\ \A m \in Range(inq[k]) : m.from = TheApp => Past(k, m.id)
    /\ \A e \in Range(ev[k]) :
         e.kind = "report" /\ e.of.from = TheApp => Past(k, e.of.id)
EchoInv ==
  \A k \in Keys : \A m \in Range(inq[k]) :
    m.from = TheApp =>
      \/ Settled(k, m.id) \/ m \in Range(unechoed[k])
      \/ \E e \in Range(ev[k]) : e.kind = "write" /\ e.of = m
(* An answer that did not overtake its echo comes behind it.               *)
Behind(s, i) == \E j \in 1 .. i - 1 : s[j].kind = "write" /\ s[j].of = s[i].of
ReportInv ==
  \A k \in Keys : \A i \in DOMAIN ev[k] :
    ev[k][i].kind = "report" /\ ev[k][i].of.from = TheApp /\ ~ev[k][i].early =>
      Settled(k, ev[k][i].of.id) \/ Behind(ev[k], i)

-----------------------------------------------------------------------------
(***************************************************************************)
(* Sequences: what stands in one after a step.                             *)
(***************************************************************************)

LEMMA RangeAppend ==
  ASSUME NEW S, NEW s \in Seq(S), NEW e \in S
  PROVE  /\ Append(s, e) \in Seq(S)
         /\ Range(Append(s, e)) = Range(s) \cup {e}
         /\ Len(Append(s, e)) = Len(s) + 1
         /\ \A i \in 1 .. Len(s) : Append(s, e)[i] = s[i]
         /\ Append(s, e)[Len(s) + 1] = e
<1>1. \A i \in 1 .. Len(s) : Append(s, e)[i] = s[i]
  OBVIOUS
<1>2. Append(s, e)[Len(s) + 1] = e /\ Len(Append(s, e)) = Len(s) + 1
  OBVIOUS
<1>3. DOMAIN s = 1 .. Len(s) /\ DOMAIN Append(s, e) = 1 .. Len(s) + 1 /\ Len(s) \in Nat
  OBVIOUS
<1>4. Range(Append(s, e)) \subseteq Range(s) \cup {e}
  BY <1>1, <1>2, <1>3 DEF Range
<1>5. Range(s) \cup {e} \subseteq Range(Append(s, e))
  BY <1>1, <1>2, <1>3 DEF Range
<1> QED BY <1>1, <1>2, <1>4, <1>5

LEMMA RangeConcat ==
  ASSUME NEW S, NEW s \in Seq(S), NEW t \in Seq(S)
  PROVE  /\ s \o t \in Seq(S)
         /\ Range(s \o t) = Range(s) \cup Range(t)
<1>1. \A i \in 1 .. Len(s) : (s \o t)[i] = s[i]
  OBVIOUS
<1>2. \A i \in 1 .. Len(t) : (s \o t)[Len(s) + i] = t[i]
  OBVIOUS
<1>3. /\ DOMAIN s = 1 .. Len(s) /\ DOMAIN t = 1 .. Len(t)
      /\ DOMAIN (s \o t) = 1 .. Len(s) + Len(t) /\ Len(s) \in Nat /\ Len(t) \in Nat
  OBVIOUS
<1>4. ASSUME NEW i \in 1 .. Len(s) + Len(t) PROVE (s \o t)[i] \in Range(s) \cup Range(t)
  <2>1. CASE i <= Len(s)
    <3>1. i \in 1 .. Len(s)
      BY <1>3, <2>1
    <3> QED BY <1>1, <1>3, <3>1 DEF Range
  <2>2. CASE i > Len(s)
    <3>1. i - Len(s) \in 1 .. Len(t) /\ Len(s) + (i - Len(s)) = i
      BY <1>3, <2>2
    <3>2. (s \o t)[i] = t[i - Len(s)]
      BY <1>2, <3>1
    <3> QED BY <1>3, <3>1, <3>2 DEF Range
  <2> QED BY <1>3, <2>1, <2>2
<1>5. Range(s \o t) \subseteq Range(s) \cup Range(t)
  BY <1>3, <1>4 DEF Range
<1>6. Range(s) \subseteq Range(s \o t)
  BY <1>1, <1>3 DEF Range
<1>7. Range(t) \subseteq Range(s \o t)
  <2> SUFFICES ASSUME NEW i \in 1 .. Len(t) PROVE t[i] \in Range(s \o t)
    BY <1>3 DEF Range
  <2>1. Len(s) + i \in 1 .. Len(s) + Len(t)
    BY <1>3
  <2> QED BY <1>2, <1>3, <2>1 DEF Range
<1> QED BY <1>5, <1>6, <1>7

LEMMA RangeTail ==
  ASSUME NEW S, NEW s \in Seq(S), s # << >>
  PROVE  /\ Tail(s) \in Seq(S) /\ Head(s) \in S
         /\ Range(s) = {Head(s)} \cup Range(Tail(s))
         /\ Len(Tail(s)) = Len(s) - 1 /\ Len(s) \in Nat \ {0}
         /\ Head(s) = s[1]
         /\ \A i \in 1 .. Len(s) - 1 : Tail(s)[i] = s[i + 1]
<1>1. Len(s) \in Nat \ {0} /\ Head(s) = s[1] /\ Len(Tail(s)) = Len(s) - 1
  OBVIOUS
<1>2. \A i \in 1 .. Len(s) - 1 : Tail(s)[i] = s[i + 1]
  OBVIOUS
<1>3. Tail(s) \in Seq(S) /\ Head(s) \in S
  OBVIOUS
<1>4. DOMAIN s = 1 .. Len(s) /\ DOMAIN Tail(s) = 1 .. Len(s) - 1
  BY <1>1
<1>5. Range(Tail(s)) \subseteq Range(s)
  BY <1>1, <1>2, <1>4 DEF Range
<1>6. ASSUME NEW i \in 1 .. Len(s) PROVE s[i] \in {Head(s)} \cup Range(Tail(s))
  <2>1. CASE i = 1
    BY <1>1, <2>1
  <2>2. CASE i # 1
    <3>1. i - 1 \in 1 .. Len(s) - 1 /\ (i - 1) + 1 = i
      BY <1>1, <2>2
    <3>2. Tail(s)[i - 1] = s[i]
      BY <1>2, <3>1
    <3> QED BY <1>4, <3>1, <3>2 DEF Range
  <2> QED BY <2>1, <2>2
<1>7. Range(s) \subseteq {Head(s)} \cup Range(Tail(s))
  BY <1>4, <1>6 DEF Range
<1>8. Head(s) \in Range(s)
  BY <1>1, <1>4 DEF Range
<1> QED BY <1>1, <1>2, <1>3, <1>5, <1>7, <1>8

LEMMA RangeTyped ==
  ASSUME NEW S, NEW s \in Seq(S)
  PROVE  Range(s) \subseteq S /\ \A i \in DOMAIN s : s[i] \in S
BY DEF Range

-----------------------------------------------------------------------------
(***************************************************************************)
(* Which reports one write hands to a key.  SentTo is recursive: what it   *)
(* returns is shown by the least position where it would fail.             *)
(***************************************************************************)

(* A report as the key gets it, and those of ws that are for k.            *)
Report(w) == [from |-> w.from, what |-> w.what, id |-> w.id]
ReportsFor(k, ws) == {Report(ws[i]) : i \in {j \in 1 .. Len(ws) : ws[j].key = k}}

IsSent(f, k, ws, failed, m) ==
  /\ f \in [0 .. m -> Seq(ReportsFor(k, ws))] /\ f[0] = << >>
  /\ \A n \in 1 .. m :
       f[n] = IF ws[n].key = k /\ n \notin failed
              THEN Append(f[n - 1], [from |-> ws[n].from, what |-> ws[n].what, id |-> ws[n].id])
              ELSE f[n - 1]

(* A set of numbers that is not empty has a first one.                     *)
Less == {p \in Nat \X Nat : p[1] < p[2]}

LEMMA LeastOf ==
  ASSUME NEW S \in SUBSET Nat, S # {}
  PROVE  \E m \in S : m = 0 \/ (m - 1 \in Nat /\ m - 1 \notin S)
<1>1. IsWellFoundedOn(Less, Nat)
  BY NatLessThanWellFounded DEF OpToRel, Less
<1>2. PICK m \in S : \A y \in S : ~(<<y, m>> \in Less)
  BY <1>1, WFMin
<1>3. ASSUME NEW y \in S PROVE ~(y < m)
  <2>1. <<y, m>> \in Nat \X Nat /\ <<y, m>>[1] = y /\ <<y, m>>[2] = m
    OBVIOUS
  <2> QED BY <1>2, <2>1 DEF Less
<1>4. ASSUME m # 0 PROVE m - 1 \in Nat /\ m - 1 \notin S
  <2>1. m \in Nat /\ m - 1 \in Nat /\ m - 1 < m
    BY <1>4
  <2> QED BY <1>3, <2>1
<1> QED BY <1>4

LEMMA SentExists ==
  ASSUME NEW k, NEW ws, Len(ws) \in Nat, NEW failed, NEW n \in 0 .. Len(ws)
  PROVE  \E f : IsSent(f, k, ws, failed, n)
<1> DEFINE Bad == {j \in 0 .. Len(ws) : ~\E f : IsSent(f, k, ws, failed, j)}
<1> SUFFICES ASSUME Bad # {} PROVE FALSE
  OBVIOUS
<1>0. Bad \in SUBSET Nat
  OBVIOUS
<1>1. PICK m \in Bad : m = 0 \/ (m - 1 \in Nat /\ m - 1 \notin Bad)
  BY <1>0, LeastOf
<1>2. CASE m = 0
  <2>1. IsSent([j \in 0 .. 0 |-> << >>], k, ws, failed, 0)
    BY DEF IsSent
  <2> QED BY <1>2, <2>1
<1>3. CASE m - 1 \in Nat /\ m - 1 \notin Bad
  <2>1. m \in 1 .. Len(ws) /\ m - 1 \in 0 .. Len(ws)
    BY <1>3
  <2>2. PICK f : IsSent(f, k, ws, failed, m - 1)
    BY <1>3, <2>1
  <2> DEFINE R == ReportsFor(k, ws)
             r == [from |-> ws[m].from, what |-> ws[m].what, id |-> ws[m].id]
             takes == ws[m].key = k /\ m \notin failed
             last == IF takes THEN Append(f[m - 1], r) ELSE f[m - 1]
             g == [j \in 0 .. m |-> IF j = m THEN last ELSE f[j]]
  <2>3. takes => r \in R
    BY <2>1 DEF ReportsFor, Report
  <2> HIDE DEF R
  <2>4. f \in [0 .. m - 1 -> Seq(R)] /\ f[0] = << >>
    BY <2>2 DEF IsSent, R
  <2>5. f[m - 1] \in Seq(R)
    BY <2>1, <2>4
  <2> HIDE DEF r
  <2>6. last \in Seq(R)
    BY <2>3, <2>5
  <2> HIDE DEF last
  <2>7. g \in [0 .. m -> Seq(R)] /\ g[0] = << >>
    BY <2>1, <2>4, <2>6
  <2>8. ASSUME NEW j \in 1 .. m
        PROVE  g[j] = IF ws[j].key = k /\ j \notin failed
                      THEN Append(g[j - 1], [from |-> ws[j].from, what |-> ws[j].what, id |-> ws[j].id])
                      ELSE g[j - 1]
    <3>1. CASE j = m
      <4>1. g[m] = last /\ g[m - 1] = f[m - 1]
        BY <2>1
      <4> QED BY <3>1, <4>1 DEF last, r
    <3>2. CASE j # m
      <4>1. j \in 1 .. m - 1 /\ j - 1 \in 0 .. m /\ j - 1 # m
        BY <2>1, <3>2
      <4>2. g[j] = f[j] /\ g[j - 1] = f[j - 1]
        BY <3>2, <4>1
      <4> QED BY <2>2, <4>1, <4>2 DEF IsSent
    <3> QED BY <3>1, <3>2
  <2>9. IsSent(g, k, ws, failed, m)
    BY <2>7, <2>8 DEF IsSent, R
  <2> QED BY <2>9
<1> QED BY <1>1, <1>2, <1>3

(* What SentTo returns is a sequence of the reports that are for the key.  *)
LEMMA SentToType ==
  ASSUME NEW k, NEW ws, Len(ws) \in Nat, NEW failed
  PROVE  SentTo(k, ws, failed) \in Seq(ReportsFor(k, ws))
<1> DEFINE Is(f) == f = [n \in 0 .. Len(ws) |->
             IF n = 0 THEN << >>
             ELSE IF ws[n].key = k /\ n \notin failed
             THEN Append(f[n - 1], [from |-> ws[n].from, what |-> ws[n].what, id |-> ws[n].id])
             ELSE f[n - 1]]
           sent == CHOOSE f : Is(f)
<1>0. Len(ws) \in 0 .. Len(ws)
  OBVIOUS
<1>1. PICK f : IsSent(f, k, ws, failed, Len(ws))
  BY <1>0, SentExists
<1>2. Is(f)
  <2>1. f \in [0 .. Len(ws) -> Seq(ReportsFor(k, ws))]
    BY <1>1 DEF IsSent
  <2>2. \A n \in 0 .. Len(ws) : f[n] =
             IF n = 0 THEN << >>
             ELSE IF ws[n].key = k /\ n \notin failed
             THEN Append(f[n - 1], [from |-> ws[n].from, what |-> ws[n].what, id |-> ws[n].id])
             ELSE f[n - 1]
    <3> SUFFICES ASSUME NEW n \in 0 .. Len(ws), n # 0
                 PROVE  f[n] = IF ws[n].key = k /\ n \notin failed
             THEN Append(f[n - 1], [from |-> ws[n].from, what |-> ws[n].what, id |-> ws[n].id])
             ELSE f[n - 1]
      BY <1>1 DEF IsSent
    <3>1. n \in 1 .. Len(ws)
      OBVIOUS
    <3> QED BY <1>1, <3>1 DEF IsSent
  <2> QED BY <2>1, <2>2
<1>3. Is(sent)
  BY <1>2
<1>4. SentTo(k, ws, failed) = sent[Len(ws)]
  BY DEF SentTo
<1> HIDE DEF sent
<1> DEFINE Bad == {n \in 0 .. Len(ws) : sent[n] # f[n]}
<1>5. Bad = {}
  <2> SUFFICES ASSUME Bad # {} PROVE FALSE
    OBVIOUS
  <2>0. Bad \in SUBSET Nat
    OBVIOUS
  <2> HIDE DEF Bad
  <2>1. PICK m \in Bad : m = 0 \/ (m - 1 \in Nat /\ m - 1 \notin Bad)
    BY <2>0, LeastOf
  <2> USE DEF Bad
  <2>2. m = 0 => sent[m] = f[m]
    BY <1>1, <1>3 DEF IsSent
  <2>3. CASE m - 1 \in Nat /\ m - 1 \notin Bad
    <3>1. m - 1 \in 0 .. Len(ws) /\ m \in 1 .. Len(ws) /\ m # 0
      BY <2>3
    <3>2. sent[m - 1] = f[m - 1]
      BY <2>3, <3>1
    <3>3. sent[m] = IF ws[m].key = k /\ m \notin failed
             THEN Append(sent[m - 1], [from |-> ws[m].from, what |-> ws[m].what, id |-> ws[m].id])
             ELSE sent[m - 1]
      BY <1>3, <3>1
    <3>4. f[m] = IF ws[m].key = k /\ m \notin failed
             THEN Append(f[m - 1], [from |-> ws[m].from, what |-> ws[m].what, id |-> ws[m].id])
             ELSE f[m - 1]
      BY <1>1, <3>1 DEF IsSent
    <3> QED BY <3>2, <3>3, <3>4
  <2> QED BY <2>1, <2>2, <2>3
<1>6. sent[Len(ws)] = f[Len(ws)]
  BY <1>5
<1> QED BY <1>1, <1>4, <1>6 DEF IsSent

(* A write adds some of its reports to what the keys have to answer and    *)
(* to echo, and nothing else.                                              *)
LEMMA WrittenAdds ==
  ASSUME PipeTypes, NEW ws, Len(ws) \in Nat,
         \A i \in 1 .. Len(ws) : Report(ws[i]) \in Msgs, Written(ws)
  PROVE  /\ inq' \in [Keys -> Seq(Msgs)] /\ unechoed' \in [Keys -> Seq(Msgs)]
         /\ \A k \in Keys : \E new \in SUBSET ReportsFor(k, ws) :
              /\ Range(inq'[k]) = Range(inq[k]) \cup new
              /\ Range(unechoed'[k]) = Range(unechoed[k]) \cup new
<1>1. PICK failed :
        /\ inq' = [k \in Keys |-> inq[k] \o SentTo(k, ws, failed)]
        /\ unechoed' = [k \in Keys |-> unechoed[k] \o SentTo(k, ws, failed)]
  BY DEF Written
<1>2. ASSUME NEW k \in Keys
      PROVE  /\ inq'[k] \in Seq(Msgs) /\ unechoed'[k] \in Seq(Msgs)
             /\ \E new \in SUBSET ReportsFor(k, ws) :
                  /\ Range(inq'[k]) = Range(inq[k]) \cup new
                  /\ Range(unechoed'[k]) = Range(unechoed[k]) \cup new
  <2> DEFINE t == SentTo(k, ws, failed)
  <2>1. t \in Seq(ReportsFor(k, ws))
    BY SentToType
  <2>2. ReportsFor(k, ws) \subseteq Msgs
    BY DEF ReportsFor
  <2>3. inq'[k] = inq[k] \o t /\ unechoed'[k] = unechoed[k] \o t
    BY <1>1
  <2>4. inq[k] \in Seq(Msgs) /\ unechoed[k] \in Seq(Msgs)
    BY DEF PipeTypes
  <2> HIDE DEF t
  <2>5. Range(t) \subseteq ReportsFor(k, ws)
    BY <2>1, RangeTyped
  <2>6. t \in Seq(Msgs)
    BY <2>1, <2>2
  <2>7. /\ inq[k] \o t \in Seq(Msgs) /\ Range(inq[k] \o t) = Range(inq[k]) \cup Range(t)
        /\ unechoed[k] \o t \in Seq(Msgs)
        /\ Range(unechoed[k] \o t) = Range(unechoed[k]) \cup Range(t)
    BY <2>4, <2>6, RangeConcat
  <2> QED BY <2>3, <2>5, <2>7
<1>3. inq' \in [Keys -> Seq(Msgs)] /\ unechoed' \in [Keys -> Seq(Msgs)]
  BY <1>1, <1>2
<1> QED BY <1>2, <1>3

-----------------------------------------------------------------------------
(***************************************************************************)
(* The lane: who runs and who has a turn in it.                            *)
(***************************************************************************)

Places(w) == {i \in DOMAIN w : w[i] = "bridge"}

LEMMA LaneTyped ==
  ASSUME NEW l \in Lanes, NEW who \in Talks
  PROVE  /\ Enter(l, who) \in Lanes /\ Enter(l, who).run = l.run
         /\ Enter(l, who).wait = Append(l.wait, who)
         /\ EnterFirst(l, who) \in Lanes /\ EnterFirst(l, who).run = l.run
         /\ EnterFirst(l, who).wait = <<who>> \o l.wait
         /\ Leave(l) \in Lanes /\ Leave(l).run = None /\ Leave(l).wait = l.wait
<1>1. l.wait \in Seq(Talks) /\ l.run \in Talks \cup {None}
  BY DEF Lanes
<1>2. Append(l.wait, who) \in Seq(Talks) /\ <<who>> \o l.wait \in Seq(Talks)
  BY <1>1
<1>3. ASSUME NEW w \in Seq(Talks)
      PROVE  /\ [l EXCEPT !.wait = w] \in Lanes
             /\ [l EXCEPT !.wait = w].run = l.run /\ [l EXCEPT !.wait = w].wait = w
  BY DEF Lanes
<1>4. /\ [l EXCEPT !.run = None] \in Lanes
      /\ [l EXCEPT !.run = None].run = None /\ [l EXCEPT !.run = None].wait = l.wait
  BY DEF Lanes
<1>5. /\ Enter(l, who) = [l EXCEPT !.wait = Append(l.wait, who)]
      /\ EnterFirst(l, who) = [l EXCEPT !.wait = <<who>> \o l.wait]
      /\ Leave(l) = [l EXCEPT !.run = None]
  BY DEF Enter, EnterFirst, Leave
<1> DEFINE a == Append(l.wait, who)
           c == <<who>> \o l.wait
<1>6. a \in Seq(Talks) /\ c \in Seq(Talks)
  BY <1>2
<1>7. /\ Enter(l, who) = [l EXCEPT !.wait = a] /\ EnterFirst(l, who) = [l EXCEPT !.wait = c]
      /\ Leave(l) = [l EXCEPT !.run = None]
  BY <1>5
<1> HIDE DEF a, c
<1>8. /\ Enter(l, who) \in Lanes /\ Enter(l, who).run = l.run /\ Enter(l, who).wait = a
      /\ EnterFirst(l, who) \in Lanes /\ EnterFirst(l, who).run = l.run
      /\ EnterFirst(l, who).wait = c
      /\ Leave(l) \in Lanes /\ Leave(l).run = None /\ Leave(l).wait = l.wait
  BY <1>3, <1>4, <1>6, <1>7
<1> QED BY <1>8 DEF a, c

LEMMA PlacesAppend ==
  ASSUME NEW w \in Seq(Talks), NEW who \in Talks
  PROVE  Places(Append(w, who)) =
           Places(w) \cup (IF who = "bridge" THEN {Len(w) + 1} ELSE {})
<1>1. /\ DOMAIN w = 1 .. Len(w) /\ DOMAIN Append(w, who) = 1 .. Len(w) + 1
      /\ Len(w) \in Nat
  OBVIOUS
<1>2. /\ \A i \in 1 .. Len(w) : Append(w, who)[i] = w[i]
      /\ Append(w, who)[Len(w) + 1] = who
  OBVIOUS
<1> QED BY <1>1, <1>2 DEF Places

LEMMA PlacesFirst ==
  ASSUME NEW w \in Seq(Talks), NEW who \in Talks, who # "bridge"
  PROVE  Places(<<who>> \o w) = {i + 1 : i \in Places(w)}
<1> DEFINE v == <<who>> \o w
<1>1. /\ DOMAIN w = 1 .. Len(w) /\ DOMAIN v = 1 .. Len(w) + 1 /\ Len(w) \in Nat
  OBVIOUS
<1>2. v[1] = who /\ \A i \in 1 .. Len(w) : v[i + 1] = w[i]
  OBVIOUS
<1> HIDE DEF v
<1>3. ASSUME NEW i \in Places(v) PROVE i \in {j + 1 : j \in Places(w)}
  <2>1. i \in 1 .. Len(w) + 1 /\ v[i] = "bridge" /\ i # 1
    BY <1>1, <1>2 DEF Places
  <2>2. i - 1 \in 1 .. Len(w) /\ (i - 1) + 1 = i
    BY <1>1, <2>1
  <2>3. i - 1 \in Places(w)
    BY <1>1, <1>2, <2>1, <2>2 DEF Places
  <2> QED BY <2>2, <2>3
<1>4. ASSUME NEW i \in Places(w) PROVE i + 1 \in Places(v)
  BY <1>1, <1>2 DEF Places
<1>5. Places(v) = {j + 1 : j \in Places(w)}
  BY <1>3, <1>4
<1> QED BY <1>5 DEF v

LEMMA PlacesTail ==
  ASSUME NEW w \in Seq(Talks), w # << >>
  PROVE  /\ Places(Tail(w)) = {i - 1 : i \in Places(w) \ {1}}
         /\ (Head(w) = "bridge") = (1 \in Places(w))
         /\ Tail(w) \in Seq(Talks) /\ Head(w) \in Talks
<1> DEFINE v == Tail(w)
<1>1. /\ Len(w) \in Nat \ {0} /\ Head(w) = w[1] /\ Len(v) = Len(w) - 1
      /\ v \in Seq(Talks) /\ Head(w) \in Talks
      /\ \A i \in 1 .. Len(w) - 1 : v[i] = w[i + 1]
  BY RangeTail
<1>2. DOMAIN w = 1 .. Len(w) /\ DOMAIN v = 1 .. Len(w) - 1
  BY <1>1
<1> HIDE DEF v
<1>3. ASSUME NEW i \in Places(v) PROVE i \in {j - 1 : j \in Places(w) \ {1}}
  <2>1. i \in 1 .. Len(w) - 1 /\ w[i + 1] = "bridge"
    BY <1>1, <1>2 DEF Places
  <2>2. i + 1 \in 1 .. Len(w) /\ i + 1 # 1 /\ (i + 1) - 1 = i
    BY <1>1, <2>1
  <2>3. i + 1 \in Places(w) \ {1}
    BY <1>2, <2>1, <2>2 DEF Places
  <2> QED BY <2>2, <2>3
<1>4. ASSUME NEW i \in Places(w) \ {1} PROVE i - 1 \in Places(v)
  <2>1. i \in 1 .. Len(w) /\ i # 1 /\ w[i] = "bridge"
    BY <1>2 DEF Places
  <2>2. i - 1 \in 1 .. Len(w) - 1 /\ (i - 1) + 1 = i
    BY <1>1, <2>1
  <2>3. v[i - 1] = w[i]
    BY <1>1, <2>2
  <2> QED BY <1>2, <2>1, <2>2, <2>3 DEF Places
<1>5. Places(v) = {j - 1 : j \in Places(w) \ {1}}
  BY <1>3, <1>4
<1>6. (Head(w) = "bridge") = (1 \in Places(w))
  BY <1>1, <1>2 DEF Places
<1> QED BY <1>1, <1>5, <1>6 DEF v

LEMMA InTurnIs == ASSUME NEW k PROVE InTurn(k) = Places(lane[k].wait)
BY DEF InTurn, Places

(* Where no lane's queue changes, the bridge's places stay.                *)
LEMMA TurnsStay ==
  ASSUME \A k \in Keys : lane'[k].wait = lane[k].wait
  PROVE  \A k \in Keys : InTurn(k)' = InTurn(k)
BY DEF InTurn

-----------------------------------------------------------------------------
(***************************************************************************)
(* Every step keeps the types and the agreement of bridge and lanes.       *)
(***************************************************************************)

LEMMA InitTyped == VBInit => VBType /\ HoldInv
<1> SUFFICES ASSUME VBInit PROVE VBType /\ HoldInv
  OBVIOUS
<1> USE NamesAssumption
<1>1. BookTypes
  <2>1. waits \in Seq(Waiting)
    BY DEF VBInit
  <2>2. api \in BOOLEAN /\ target \in Computers /\ key \in Keys /\ up \in BOOLEAN
    BY DEF VBInit
  <2>3. owner = None /\ boundTo = None /\ held = None
    BY DEF VBInit
  <2>4. holding \in BOOLEAN /\ timer \in BOOLEAN /\ strayed \in BOOLEAN /\ moved \in BOOLEAN
    BY DEF VBInit
  <2> QED BY <2>1, <2>2, <2>3, <2>4 DEF BookTypes
<1>2. LaneTypes
  BY DEF VBInit, LaneTypes, Lanes
<1>3. PipeTypes
  BY DEF VBInit, PipeTypes
<1>4. \A k \in Keys : InTurn(k) = {} /\ lane[k].run = None
  BY DEF VBInit, InTurn
<1>5. HoldInv
  BY <1>4 DEF VBInit, HoldInv
<1> QED BY <1>1, <1>2, <1>3, <1>5 DEF VBType

(* What waits for the hold are reports of computers.                       *)
LEMMA WaitsTyped ==
  ASSUME VBType
  PROVE  /\ Len(waits) \in Nat /\ DOMAIN waits = 1 .. Len(waits)
         /\ \A i \in 1 .. Len(waits) : waits[i] \in Waiting /\ Report(waits[i]) \in Msgs
         /\ waits # << >> => Len(waits) \in 1 .. Len(waits) /\ Last(waits) = waits[Len(waits)]
<1>1. waits \in Seq(Waiting)
  BY DEF VBType, BookTypes
<1>2. Len(waits) \in Nat /\ DOMAIN waits = 1 .. Len(waits)
  BY <1>1
<1>3. \A i \in 1 .. Len(waits) : waits[i] \in Waiting
  BY <1>1
<1>4. \A w \in Waiting : Report(w) \in Msgs
  BY DEF Waiting, Report, Msgs
<1>5. waits # << >> => Len(waits) \in 1 .. Len(waits)
  BY <1>1
<1> QED BY <1>2, <1>3, <1>4, <1>5 DEF Last

LEMMA LaneTurnMoves ==
  ASSUME VBType, NEW k \in Keys, LaneTurn(k)
  PROVE  /\ Head(lane[k].wait) \in Talks
         /\ lane' \in [Keys -> Lanes]
         /\ lane'[k].run = Head(lane[k].wait)
         /\ \A l \in Keys : l # k => lane'[l] = lane[l]
         /\ InTurn(k)' = {i - 1 : i \in InTurn(k) \ {1}}
         /\ \A l \in Keys : l # k => InTurn(l)' = InTurn(l)
         /\ (Head(lane[k].wait) = "bridge") = (1 \in InTurn(k))
<1> DEFINE w == lane[k].wait
<1>1. w \in Seq(Talks) /\ w # << >> /\ lane \in [Keys -> Lanes]
  BY DEF VBType, LaneTypes, Lanes, LaneTurn
<1>2. lane' = [lane EXCEPT ![k] = [run |-> Head(w), wait |-> Tail(lane[k].wait)]]
  BY DEF LaneTurn
<1> HIDE DEF w
<1>3. /\ Places(Tail(w)) = {i - 1 : i \in Places(w) \ {1}}
      /\ (Head(w) = "bridge") = (1 \in Places(w))
      /\ Tail(w) \in Seq(Talks) /\ Head(w) \in Talks
  BY <1>1, PlacesTail
<1>4. [run |-> Head(w), wait |-> Tail(w)] \in Lanes
  BY <1>3 DEF Lanes
<1>5. /\ lane' \in [Keys -> Lanes] /\ lane'[k] = [run |-> Head(w), wait |-> Tail(w)]
      /\ \A l \in Keys : l # k => lane'[l] = lane[l]
  BY <1>1, <1>2, <1>4 DEF w
<1>6. InTurn(k)' = Places(Tail(w)) /\ InTurn(k) = Places(w)
  BY <1>5 DEF InTurn, Places, w
<1>7. \A l \in Keys : l # k => InTurn(l)' = InTurn(l)
  BY <1>5 DEF InTurn
<1> QED BY <1>3, <1>5, <1>6, <1>7 DEF w

LEMMA LaneTurnKeeps ==
  ASSUME VBType, HoldInv, NEW k \in Keys, LaneTurn(k)
  PROVE  VBType' /\ HoldInv'
<1> DEFINE who == Head(lane[k].wait)
<1>1. /\ who \in Talks /\ lane' \in [Keys -> Lanes] /\ lane'[k].run = who
      /\ \A l \in Keys : l # k => lane'[l] = lane[l]
      /\ InTurn(k)' = {i - 1 : i \in InTurn(k) \ {1}}
      /\ \A l \in Keys : l # k => InTurn(l)' = InTurn(l)
      /\ (who = "bridge") = (1 \in InTurn(k))
  BY LaneTurnMoves
<1>2. /\ lane[k].run = None
      /\ UNCHANGED <<setVars, up, holding, asks, press, ev, countVars, mistaken, moved, leaks>>
  BY DEF LaneTurn
<1>3. CASE who = "bridge"
  <2>1. 1 \in InTurn(k) /\ holding /\ held = None /\ waits # << >>
    BY <1>1, <1>3 DEF HoldInv
  <2>2. InTurn(k) = {1} /\ \A l \in Keys : l # k => InTurn(l) = {}
    BY <2>1 DEF HoldInv
  <2>3. \A l \in Keys : InTurn(l)' = {}
    BY <1>1, <2>2
  <2>4. held' = k /\ forward(waits) /\ waits' = << >> /\ app' = app
    BY <1>3 DEF LaneTurn
  <2>5. /\ owner' = waits[Len(waits)].from /\ boundTo' = boundTo /\ timer' = TRUE
        /\ strayed' \in BOOLEAN /\ Written(waits)
    BY <2>1, <2>4, WaitsTyped DEF forward, VBType, BookTypes
  <2>6. owner' \in Computers
    BY <2>1, <2>5, WaitsTyped DEF Waiting
  <2>7. inq' \in [Keys -> Seq(Msgs)] /\ unechoed' \in [Keys -> Seq(Msgs)]
    BY <2>5, WaitsTyped, WrittenAdds DEF VBType
  <2>8. BookTypes'
    BY <1>2, <2>4, <2>5, <2>6 DEF VBType, BookTypes, setVars
  <2>9. LaneTypes'
    BY <1>1, <1>2, <2>4 DEF VBType, LaneTypes, countVars
  <2>10. PipeTypes'
    BY <1>2, <2>7 DEF VBType, PipeTypes
  <2>11. \A l \in Keys : lane'[l].run = "bridge" <=> held' = l
    BY <1>1, <1>3, <2>1, <2>4, NamesAssumption DEF HoldInv
  <2>12. \A l \in Keys : app'[l] \in {"turn", "sent"} => lane'[l].run \in {"app", "urgent"}
    BY <1>1, <1>2, <2>4, NamesAssumption DEF HoldInv
  <2>13. held' # None /\ holding' /\ timer'
    BY <1>2, <2>1, <2>4, <2>5, NamesAssumption
  <2>14. HoldInv'
    BY <2>3, <2>4, <2>11, <2>12, <2>13 DEF HoldInv
  <2> QED BY <2>8, <2>9, <2>10, <2>14 DEF VBType
<1>4. CASE who # "bridge"
  <2>1. /\ app' = [app EXCEPT ![k] = "turn"]
        /\ UNCHANGED <<held, timer, owner, boundTo, ours, inq, unechoed, waits, strayed>>
    BY <1>4 DEF LaneTurn
  <2>2. BookTypes'
    BY <1>2, <2>1 DEF VBType, BookTypes, setVars
  <2>3. LaneTypes'
    BY <1>1, <1>2, <2>1 DEF VBType, LaneTypes, countVars
  <2>4. PipeTypes'
    BY <1>2, <2>1 DEF VBType, PipeTypes
  <2>5. InTurn(k)' = {i - 1 : i \in InTurn(k)} /\ InTurn(k) \subseteq Int
    <3>1. lane[k].wait \in Seq(Talks)
      BY DEF VBType, LaneTypes, Lanes
    <3> QED BY <1>1, <1>4, <3>1 DEF InTurn
  <2>6. (\E l \in Keys : InTurn(l)' # {}) <=> (\E l \in Keys : InTurn(l) # {})
    BY <1>1, <2>5
  <2>7. ASSUME NEW l \in Keys, NEW m \in Keys, NEW i \in InTurn(l)', NEW j \in InTurn(m)'
        PROVE  l = m /\ i = j
    <3>1. CASE l = k /\ m = k
      BY <2>5, <2>7, <3>1 DEF HoldInv
    <3>2. CASE l = k /\ m # k
      BY <1>1, <2>5, <2>7, <3>2 DEF HoldInv
    <3>3. CASE l # k /\ m = k
      BY <1>1, <2>5, <2>7, <3>3 DEF HoldInv
    <3>4. CASE l # k /\ m # k
      BY <1>1, <2>7, <3>4 DEF HoldInv
    <3> QED BY <3>1, <3>2, <3>3, <3>4
  <2>8. \A l \in Keys : lane'[l].run = "bridge" <=> held' = l
    BY <1>1, <1>2, <1>4, <2>1, NamesAssumption DEF HoldInv
  <2>9. app \in [Keys -> {"no", "asks", "turn", "sent"}]
    BY DEF VBType, LaneTypes
  <2>10. \A l \in Keys : app'[l] \in {"turn", "sent"} => lane'[l].run \in {"app", "urgent"}
    BY <1>1, <1>4, <2>1, <2>9 DEF HoldInv, Talks
  <2>11. HoldInv'
    BY <1>2, <2>1, <2>6, <2>7, <2>8, <2>10 DEF HoldInv
  <2> QED BY <2>2, <2>3, <2>4, <2>11 DEF VBType
<1> QED BY <1>3, <1>4

(* What the end of a hold does to the lanes.                               *)
LEMMA LeaveMoves ==
  ASSUME VBType, NEW h \in Keys
  PROVE  LET after == [lane EXCEPT ![h] = Leave(@)]
         IN  /\ after \in [Keys -> Lanes] /\ after[h].run = None
             /\ \A l \in Keys : after[l].wait = lane[l].wait
             /\ \A l \in Keys : l # h => after[l] = lane[l]
<1>1. lane \in [Keys -> Lanes] /\ "bridge" \in Talks
  BY DEF VBType, LaneTypes, Talks
<1>2. Leave(lane[h]) \in Lanes /\ Leave(lane[h]).run = None /\ Leave(lane[h]).wait = lane[h].wait
  BY <1>1, LaneTyped
<1> QED BY <1>1, <1>2

LEMMA ReleaseMoves ==
  ASSUME VBType, HoldInv, held # None, releaseHold
  PROVE  /\ lane' \in [Keys -> Lanes] /\ held' = None /\ holding' = FALSE /\ timer' = FALSE
         /\ \A l \in Keys : InTurn(l)' = InTurn(l) /\ InTurn(l)' = {}
         /\ \A l \in Keys : lane'[l].run # "bridge"
         /\ \A l \in Keys : app[l] \in {"turn", "sent"} => lane'[l].run \in {"app", "urgent"}
<1>1. held \in Keys
  BY DEF VBType, BookTypes
<1>2. /\ lane' = [lane EXCEPT ![held] = Leave(@)]
      /\ held' = None /\ holding' = FALSE /\ timer' = FALSE
  BY DEF releaseHold
<1>3. /\ lane' \in [Keys -> Lanes] /\ lane'[held].run = None
      /\ \A l \in Keys : lane'[l].wait = lane[l].wait
      /\ \A l \in Keys : l # held => lane'[l] = lane[l]
  BY <1>1, <1>2, LeaveMoves
<1>4. \A l \in Keys : InTurn(l)' = InTurn(l)
  BY <1>3, TurnsStay
<1>5. \A l \in Keys : InTurn(l) = {}
  BY DEF HoldInv
<1>6. \A l \in Keys : lane'[l].run # "bridge"
  BY <1>1, <1>3, NamesAssumption DEF HoldInv
<1>7. lane[held].run = "bridge"
  BY <1>1 DEF HoldInv
<1>8. \A l \in Keys : app[l] \in {"turn", "sent"} => lane'[l].run \in {"app", "urgent"}
  BY <1>3, <1>7 DEF HoldInv
<1> QED BY <1>2, <1>3, <1>4, <1>5, <1>6, <1>8

(* A hold that ends, or that stays as it was, leaves the books agreeing.   *)
LEMMA ReleaseKeeps ==
  ASSUME VBType, HoldInv, held # None, releaseHold, UNCHANGED <<waits, app, apps, conv>>
  PROVE  HoldInv' /\ LaneTypes'
<1>1. /\ lane' \in [Keys -> Lanes] /\ held' = None /\ holding' = FALSE /\ timer' = FALSE
      /\ \A l \in Keys : InTurn(l)' = {}
      /\ \A l \in Keys : lane'[l].run # "bridge"
      /\ \A l \in Keys : app[l] \in {"turn", "sent"} => lane'[l].run \in {"app", "urgent"}
  BY ReleaseMoves
<1>2. waits = << >>
  BY DEF HoldInv
<1>3. \A l \in Keys : lane'[l].run = "bridge" <=> held' = l
  BY <1>1, NamesAssumption
<1>4. HoldInv'
  BY <1>1, <1>2, <1>3 DEF HoldInv
<1>5. LaneTypes'
  BY <1>1 DEF VBType, LaneTypes
<1> QED BY <1>4, <1>5

LEMMA HoldStays ==
  ASSUME HoldInv, UNCHANGED <<lane, held, holding, waits, app>>,
         timer' => (timer \/ held # None)
  PROVE  HoldInv'
<1>1. lane' = lane /\ held' = held /\ holding' = holding /\ waits' = waits /\ app' = app
  OBVIOUS
<1>2. \A k \in Keys : lane'[k].run = "bridge" <=> held' = k
  BY <1>1 DEF HoldInv
<1>3. timer' => held' # None
  BY <1>1 DEF HoldInv
<1>4. (holding' /\ held' = None) <=> (\E k \in Keys : InTurn(k)' # {})
  <2>1. \A k \in Keys : InTurn(k)' = InTurn(k)
    BY <1>1 DEF InTurn
  <2>2. (holding /\ held = None) <=> (\E k \in Keys : InTurn(k) # {})
    BY DEF HoldInv
  <2>3. (\E k \in Keys : InTurn(k)' # {}) <=> (\E k \in Keys : InTurn(k) # {})
    BY <2>1
  <2> QED BY <1>1, <2>2, <2>3
<1>5. \A k, l \in Keys : \A i \in InTurn(k)', j \in InTurn(l)' : k = l /\ i = j
  BY <1>1 DEF HoldInv, InTurn
<1>6. (held' # None => holding') /\ (waits' # << >>) <=> (holding' /\ held' = None)
  BY <1>1 DEF HoldInv
<1>7. \A k \in Keys : app'[k] \in {"turn", "sent"} => lane'[k].run \in {"app", "urgent"}
  BY <1>1 DEF HoldInv
<1> QED BY <1>2, <1>3, <1>4, <1>5, <1>6, <1>7 DEF HoldInv

LEMMA TimersKeep ==
  ASSUME VBType, HoldInv, Timers
  PROVE  VBType' /\ HoldInv'
<1>1. CASE TimerFires
  <2>1. /\ timer' = FALSE /\ UNCHANGED <<setVars, up, owner, boundTo, held, holding, waits, lane,
                 app, pipeVars, countVars, pastVars>>
    BY <1>1 DEF TimerFires
  <2>2. VBType'
    BY <2>1 DEF VBType, BookTypes, LaneTypes, PipeTypes, setVars, pipeVars, countVars, pastVars
  <2>3. HoldInv'
    BY <2>1, HoldStays
  <2> QED BY <2>2, <2>3
<1>2. CASE AskAnswered
  <2>1. UNCHANGED <<setVars, up, owner, boundTo, waits, app, pipeVars, countVars, pastVars>>
    BY <1>2 DEF AskAnswered
  <2>2. CASE held # None /\ releaseHold
    <3>1. HoldInv' /\ LaneTypes'
      BY <2>1, <2>2, ReleaseKeeps DEF countVars
    <3>2. held' = None /\ holding' = FALSE /\ timer' = FALSE
      BY <2>2 DEF releaseHold
    <3>3. BookTypes' /\ PipeTypes'
      BY <2>1, <3>2 DEF VBType, BookTypes, PipeTypes, setVars, pipeVars, pastVars
    <3> QED BY <3>1, <3>3 DEF VBType
  <2>3. CASE /\ timer' = timer \/ (held # None /\ timer' = TRUE)
             /\ UNCHANGED <<held, holding, lane>>
    <3>1. VBType'
      BY <2>1, <2>3 DEF VBType, BookTypes, LaneTypes, PipeTypes, setVars, pipeVars, countVars, pastVars
    <3>2. HoldInv'
      BY <2>1, <2>3, HoldStays
    <3> QED BY <3>1, <3>2
  <2>4. \/ held # None /\ releaseHold
        \/ /\ (timer' = timer \/ (held # None /\ timer' = TRUE))
           /\ UNCHANGED <<held, holding, lane>>
    BY <1>2 DEF AskAnswered
  <2> QED BY <2>2, <2>3, <2>4
<1> QED BY <1>1, <1>2 DEF Timers

LEMMA StopKeeps ==
  ASSUME VBType, HoldInv, StopBridge
  PROVE  VBType' /\ HoldInv'
<1>1. /\ up' = FALSE /\ owner' = None /\ boundTo' = None
      /\ UNCHANGED <<setVars, ours, asks, waits, app, pipeVars, apps, conv, pastVars>>
  BY DEF StopBridge
<1>2. CASE held # None /\ releaseHold
  <2>1. HoldInv' /\ LaneTypes'
    BY <1>1, <1>2, ReleaseKeeps
  <2>2. held' = None /\ holding' = FALSE /\ timer' = FALSE
    BY <1>2 DEF releaseHold
  <2>3. BookTypes' /\ PipeTypes'
    BY <1>1, <2>2 DEF VBType, BookTypes, PipeTypes, setVars, pipeVars, pastVars
  <2> QED BY <2>1, <2>3 DEF VBType
<1>3. CASE UNCHANGED <<lane, held, holding, timer>>
  <2>1. VBType'
    BY <1>1, <1>3 DEF VBType, BookTypes, LaneTypes, PipeTypes, setVars, pipeVars, pastVars
  <2>2. HoldInv'
    BY <1>1, <1>3, HoldStays
  <2> QED BY <2>1, <2>2
<1> QED BY <1>2, <1>3 DEF StopBridge

LEMMA PersonKeeps ==
  ASSUME VBType, HoldInv, Turn
  PROVE  VBType' /\ HoldInv'
<1>1. UNCHANGED <<up, owner, boundTo, ours, holdVars, waits, lane, app, pipeVars,
                 apps, conv, mistaken, strayed, leaks>>
  BY DEF Turn
<1>2. /\ api' \in BOOLEAN /\ target' \in Computers \cup {None} /\ key' \in Keys
      /\ moved' \in BOOLEAN
  BY DEF Turn, VBType, BookTypes
<1>3. VBType'
  BY <1>1, <1>2 DEF VBType, BookTypes, LaneTypes, PipeTypes, holdVars, pipeVars
<1>4. HoldInv'
  BY <1>1, HoldStays DEF holdVars
<1> QED BY <1>3, <1>4

LEMMA DeliveredKeeps ==
  ASSUME VBType, HoldInv, NEW k \in Keys, Delivered(k)
  PROVE  VBType' /\ HoldInv'
<1>1. UNCHANGED <<setVars, up, boundTo, held, holding, asks, waits, lane, app,
                 unechoed, inq, press, countVars, strayed, moved>>
  BY DEF Delivered
<1>2. /\ owner' \in {owner, None} /\ timer' \in BOOLEAN
      /\ timer' => (timer \/ held # None)
  BY DEF Delivered, Heard, Reported, VBType, BookTypes
<1>3. ev' \in [Keys -> Seq(Events)]
  <2>1. ev \in [Keys -> Seq(Events)] /\ ev[k] # << >> /\ ev' = [ev EXCEPT ![k] = Tail(@)]
    BY DEF Delivered, VBType, PipeTypes
  <2>2. Tail(ev[k]) \in Seq(Events)
    BY <2>1, RangeTail
  <2> QED BY <2>1, <2>2
<1>4. VBType'
  BY <1>1, <1>2, <1>3 DEF VBType, BookTypes, LaneTypes, PipeTypes, setVars, countVars
<1>5. HoldInv'
  BY <1>1, <1>2, HoldStays
<1> QED BY <1>4, <1>5

LEMMA PipeKeeps ==
  ASSUME VBType, HoldInv, NEW k \in Keys, PipeStep(k)
  PROVE  VBType' /\ HoldInv'
<1>1. UNCHANGED <<setVars, up, owner, boundTo, ours, holdVars, waits, lane, app,
                 countVars, pastVars>>
  BY DEF PipeStep
<1>2. PipeTypes
  BY DEF VBType
<1>3. ASSUME Echoed(k) PROVE PipeTypes'
  <2> DEFINE e == [kind |-> "write", of |-> Head(unechoed[k]), early |-> FALSE]
  <2>1. Tail(unechoed[k]) \in Seq(Msgs) /\ Head(unechoed[k]) \in Msgs
    BY <1>2, <1>3, RangeTail DEF PipeTypes, Echoed
  <2>2. e \in Events
    BY <2>1 DEF Events
  <2>3. /\ ev' = [ev EXCEPT ![k] = Append(@, e)]
        /\ unechoed' = [unechoed EXCEPT ![k] = Tail(@)] /\ UNCHANGED <<inq, press>>
    BY <1>3 DEF Echoed
  <2> HIDE DEF e
  <2>4. Append(ev[k], e) \in Seq(Events)
    BY <1>2, <2>2 DEF PipeTypes
  <2> QED BY <1>2, <2>1, <2>3, <2>4 DEF PipeTypes
<1>4. ASSUME KeyWaits(k) PROVE PipeTypes'
  BY <1>2, <1>4 DEF PipeTypes, KeyWaits
<1>5. ASSUME NEW says \in BOOLEAN, KeyAnswers(k, says) PROVE PipeTypes'
  <2> DEFINE e == [kind |-> "report", of |-> Head(inq[k]),
                   early |-> Contains(unechoed[k], Head(inq[k]))]
  <2>1. Tail(inq[k]) \in Seq(Msgs) /\ Head(inq[k]) \in Msgs
    BY <1>2, <1>5, RangeTail DEF PipeTypes, KeyAnswers
  <2>2. Contains(unechoed[k], Head(inq[k])) \in BOOLEAN
    BY DEF Contains
  <2>3. e \in Events
    BY <2>1, <2>2 DEF Events
  <2>4. /\ ev' = IF says THEN [ev EXCEPT ![k] = Append(@, e)] ELSE ev
        /\ inq' = [inq EXCEPT ![k] = Tail(@)]
        /\ press' = [press EXCEPT ![k] = FALSE] /\ UNCHANGED unechoed
    BY <1>5 DEF KeyAnswers
  <2> HIDE DEF e
  <2>5. Append(ev[k], e) \in Seq(Events)
    BY <1>2, <2>3 DEF PipeTypes
  <2> QED BY <1>2, <2>1, <2>4, <2>5 DEF PipeTypes
<1>6. PipeTypes'
  BY <1>3, <1>4, <1>5 DEF PipeStep
<1>7. VBType'
  BY <1>1, <1>6 DEF VBType, BookTypes, LaneTypes, setVars, holdVars, countVars, pastVars
<1>8. HoldInv'
  BY <1>1, HoldStays DEF holdVars
<1> QED BY <1>7, <1>8

LEMMA AppKeeps ==
  ASSUME VBType, HoldInv, NEW k \in Keys, AppStep(k)
  PROVE  VBType' /\ HoldInv'
<1>0. app \in [Keys -> {"no", "asks", "turn", "sent"}] /\ lane \in [Keys -> Lanes]
  BY DEF VBType, LaneTypes
<1>1. ASSUME NEW what \in Asked, AppWrites(k, what) PROVE VBType' /\ HoldInv'
  <2> DEFINE ws == <<[from |-> TheApp, key |-> k, what |-> what, id |-> conv[k]]>>
  <2>1. /\ app[k] = "turn" /\ app' = [app EXCEPT ![k] = "sent"] /\ Written(ws)
        /\ UNCHANGED <<setVars, up, owner, boundTo, ours, holdVars, waits, lane,
                       press, ev, countVars, pastVars>>
    BY <1>1 DEF AppWrites
  <2>2. Len(ws) = 1 /\ Report(ws[1]) \in Msgs
    BY DEF Report, Msgs, VBType, LaneTypes
  <2> HIDE DEF ws
  <2>3. inq' \in [Keys -> Seq(Msgs)] /\ unechoed' \in [Keys -> Seq(Msgs)]
    BY <2>1, <2>2, WrittenAdds DEF VBType
  <2>4. VBType'
    BY <2>1, <2>3 DEF VBType, BookTypes, LaneTypes, PipeTypes, setVars, holdVars, countVars, pastVars
  <2>5. \A l \in Keys : app'[l] \in {"turn", "sent"} => app[l] \in {"turn", "sent"}
    BY <1>0, <2>1
  <2>6. \A l \in Keys : InTurn(l)' = InTurn(l)
    BY <2>1 DEF InTurn
  <2>7. HoldInv'
    BY <2>1, <2>5, <2>6 DEF HoldInv, holdVars
  <2> QED BY <2>4, <2>7
<1>2. CASE AppLeaves(k)
  <2>1. /\ app[k] = "sent" /\ app' = [app EXCEPT ![k] = "no"]
        /\ lane' = [lane EXCEPT ![k] = Leave(@)]
        /\ UNCHANGED <<setVars, up, owner, boundTo, ours, holdVars, waits, pipeVars,
                       countVars, pastVars>>
    BY <1>2 DEF AppLeaves
  <2>2. /\ lane' \in [Keys -> Lanes] /\ lane'[k].run = None
        /\ \A l \in Keys : lane'[l].wait = lane[l].wait
        /\ \A l \in Keys : l # k => lane'[l] = lane[l]
    BY <2>1, LeaveMoves
  <2>3. lane[k].run \in {"app", "urgent"} /\ held # k
    BY <2>1 DEF HoldInv
  <2>4. \A l \in Keys : lane'[l].run = "bridge" <=> held' = l
    BY <2>1, <2>2, <2>3, NamesAssumption DEF HoldInv, holdVars
  <2>5. \A l \in Keys : app'[l] \in {"turn", "sent"} => lane'[l].run \in {"app", "urgent"}
    BY <1>0, <2>1, <2>2 DEF HoldInv
  <2>6. \A l \in Keys : InTurn(l)' = InTurn(l)
    BY <2>2, TurnsStay
  <2>7. HoldInv'
    BY <2>1, <2>4, <2>5, <2>6 DEF HoldInv, holdVars
  <2>8. VBType'
    BY <2>1, <2>2 DEF VBType, BookTypes, LaneTypes, PipeTypes, setVars, holdVars, pipeVars, countVars, pastVars
  <2> QED BY <2>7, <2>8
<1> QED BY <1>1, <1>2 DEF AppStep

(* The app's place in a lane moves the bridge's at most back by one.        *)
LEMMA AsksMoves ==
  ASSUME VBType, NEW k \in Keys, NEW who \in {"app", "urgent"}, AppAsks(k, who)
  PROVE  /\ lane' \in [Keys -> Lanes] /\ InTurn(k) \subseteq Int
         /\ \A l \in Keys : lane'[l].run = lane[l].run
         /\ \A l \in Keys : l # k => InTurn(l)' = InTurn(l)
         /\ InTurn(k)' = InTurn(k) \/ InTurn(k)' = {i + 1 : i \in InTurn(k)}
         /\ \A l \in Keys : InTurn(l)' # {} <=> InTurn(l) # {}
<1>0. /\ lane \in [Keys -> Lanes]
      /\ who \in Talks /\ who # "bridge" /\ lane[k].wait \in Seq(Talks)
  BY DEF VBType, LaneTypes, Talks, Lanes
<1> DEFINE to == IF who = "urgent" THEN EnterFirst(lane[k], who) ELSE Enter(lane[k], who)
<1>1. lane' = [lane EXCEPT ![k] = to]
  BY DEF AppAsks
<1>2. /\ to \in Lanes /\ to.run = lane[k].run
      /\ to.wait = IF who = "urgent" THEN <<who>> \o lane[k].wait ELSE Append(lane[k].wait, who)
  BY <1>0, LaneTyped
<1>3. \/ Places(to.wait) = Places(lane[k].wait)
      \/ Places(to.wait) = {i + 1 : i \in Places(lane[k].wait)}
  BY <1>0, <1>2, PlacesAppend, PlacesFirst
<1> HIDE DEF to
<1>4. /\ lane' \in [Keys -> Lanes] /\ lane'[k] = to
      /\ \A l \in Keys : l # k => lane'[l] = lane[l]
  BY <1>0, <1>1, <1>2
<1>5. InTurn(k)' = Places(to.wait) /\ InTurn(k) = Places(lane[k].wait)
  BY <1>4 DEF InTurn, Places
<1>6. \A l \in Keys : l # k => InTurn(l)' = InTurn(l)
  BY <1>4 DEF InTurn
<1>7. InTurn(k) \subseteq Int
  BY <1>0 DEF InTurn
<1>8. InTurn(k)' = InTurn(k) \/ InTurn(k)' = {i + 1 : i \in InTurn(k)}
  BY <1>3, <1>5
<1>9. \A l \in Keys : InTurn(l)' # {} <=> InTurn(l) # {}
  BY <1>6, <1>8
<1>10. \A l \in Keys : lane'[l].run = lane[l].run
  BY <1>2, <1>4
<1> QED BY <1>4, <1>6, <1>7, <1>8, <1>9, <1>10

LEMMA AsksKeep ==
  ASSUME VBType, HoldInv, NEW k \in Keys, NEW who \in {"app", "urgent"}, AppAsks(k, who)
  PROVE  VBType' /\ HoldInv'
<1>0. /\ app \in [Keys -> {"no", "asks", "turn", "sent"}]
      /\ apps \in Nat /\ conv \in [Keys -> Nat] /\ \A l \in Keys : conv[l] <= apps
  BY DEF VBType, LaneTypes
<1>1. /\ app[k] = "no" /\ apps' = apps + 1 /\ app' = [app EXCEPT ![k] = "asks"]
      /\ conv' = [conv EXCEPT ![k] = apps + 1]
      /\ UNCHANGED <<setVars, up, owner, boundTo, ours, holdVars, waits, pipeVars,
                     turns, pastVars>>
  BY DEF AppAsks
<1>2. /\ lane' \in [Keys -> Lanes] /\ InTurn(k) \subseteq Int
      /\ \A l \in Keys : lane'[l].run = lane[l].run
      /\ \A l \in Keys : l # k => InTurn(l)' = InTurn(l)
      /\ InTurn(k)' = InTurn(k) \/ InTurn(k)' = {i + 1 : i \in InTurn(k)}
      /\ \A l \in Keys : InTurn(l)' # {} <=> InTurn(l) # {}
  BY AsksMoves
<1>3. ASSUME NEW l \in Keys, NEW m \in Keys, NEW i \in InTurn(l)', NEW j \in InTurn(m)'
       PROVE  l = m /\ i = j
  <2>1. CASE l = k /\ m = k
    BY <1>2, <1>3, <2>1 DEF HoldInv
  <2>2. CASE l = k /\ m # k
    BY <1>2, <1>3, <2>2 DEF HoldInv
  <2>3. CASE l # k /\ m = k
    BY <1>2, <1>3, <2>3 DEF HoldInv
  <2>4. CASE l # k /\ m # k
    BY <1>2, <1>3, <2>4 DEF HoldInv
  <2> QED BY <2>1, <2>2, <2>3, <2>4
<1>4. \A l \in Keys : app'[l] \in {"turn", "sent"} => lane'[l].run \in {"app", "urgent"}
  BY <1>0, <1>1, <1>2 DEF HoldInv
<1>5. HoldInv'
  BY <1>1, <1>2, <1>3, <1>4 DEF HoldInv, holdVars
<1>6. LaneTypes'
  <2>1. conv' \in [Keys -> Nat] /\ apps' \in Nat
    BY <1>0, <1>1
  <2>2. app' \in [Keys -> {"no", "asks", "turn", "sent"}]
    BY <1>0, <1>1
  <2>3. \A l \in Keys : conv'[l] <= apps'
    BY <1>0, <1>1
  <2> QED BY <1>2, <2>1, <2>2, <2>3 DEF LaneTypes
<1>7. VBType'
  BY <1>1, <1>6 DEF VBType, BookTypes, PipeTypes, setVars, holdVars, pipeVars, pastVars
<1> QED BY <1>5, <1>7

LEMMA HeldRequestKeeps ==
  ASSUME VBType, HoldInv, NEW c \in Computers, NEW what \in Contents, OnRequestHeld(c, what)
  PROVE  VBType' /\ HoldInv'
<1> DEFINE ws == <<[from |-> c, key |-> key, what |-> what, id |-> 0]>>
<1>1. /\ held # None /\ boundTo' = key /\ owner' = c /\ timer' = TRUE /\ Written(ws)
      /\ strayed' = (strayed \/ held # key)
      /\ UNCHANGED <<setVars, up, held, holding, asks, waits, lane, app, press,
                     ev, apps, turns, conv, mistaken, moved, leaks>>
  BY DEF OnRequestHeld, Granted
<1>2. Len(ws) = 1 /\ Report(ws[1]) \in Msgs
  BY DEF Report, Msgs
<1> HIDE DEF ws
<1>3. inq' \in [Keys -> Seq(Msgs)] /\ unechoed' \in [Keys -> Seq(Msgs)]
  BY <1>1, <1>2, WrittenAdds DEF VBType
<1>4. VBType'
  BY <1>1, <1>3 DEF VBType, BookTypes, LaneTypes, PipeTypes, setVars
<1>5. HoldInv'
  BY <1>1, HoldStays
<1> QED BY <1>4, <1>5

LEMMA RequestKeeps ==
  ASSUME VBType, HoldInv, NEW c \in Computers, NEW what \in Contents, OnRequest(c, what)
  PROVE  VBType' /\ HoldInv'
<1> DEFINE w == [from |-> c, key |-> key, what |-> what, id |-> 0]
           ends == held # None /\ urgentWaiting(key)
           l0 == IF ends THEN [lane EXCEPT ![held] = Leave(@)] ELSE lane
<1>1. /\ boundTo' = key /\ owner' \in {owner, None} /\ waits' = Append(waits, w)
      /\ (held # None => ends)
      /\ lane' = IF holding /\ ~ends THEN l0 ELSE [l0 EXCEPT ![key] = Enter(@, "bridge")]
      /\ held' = None /\ timer' = FALSE /\ holding' = TRUE
      /\ UNCHANGED <<setVars, up, asks, app, pipeVars, apps, turns, conv, pastVars>>
  BY DEF OnRequest, ensureSubscribed, Granted
<1>2. /\ key \in Keys /\ held \in Keys \cup {None} /\ lane \in [Keys -> Lanes]
      /\ waits \in Seq(Waiting) /\ w \in Waiting /\ "bridge" \in Talks
  BY DEF VBType, BookTypes, LaneTypes, Waiting, Talks
<1>3. waits' \in Seq(Waiting) /\ waits' # << >>
  BY <1>1, <1>2
<1>4. /\ l0 \in [Keys -> Lanes]
      /\ \A l \in Keys : l0[l].wait = lane[l].wait /\ l0[l].run # "bridge"
      /\ \A l \in Keys : app[l] \in {"turn", "sent"} => l0[l].run \in {"app", "urgent"}
  <2>1. CASE held # None
    <3>1. held \in Keys /\ ends
      BY <1>1, <1>2, <2>1
    <3>2. /\ l0 \in [Keys -> Lanes] /\ l0[held].run = None
          /\ \A l \in Keys : l0[l].wait = lane[l].wait
          /\ \A l \in Keys : l # held => l0[l] = lane[l]
      BY <3>1, LeaveMoves
    <3> HIDE DEF l0
    <3>3. lane[held].run = "bridge"
      BY <3>1 DEF HoldInv
    <3> QED BY <3>1, <3>2, <3>3, NamesAssumption DEF HoldInv
  <2>2. CASE held = None
    <3>1. l0 = lane
      BY <2>2
    <3> HIDE DEF l0
    <3> QED BY <1>2, <2>2, <3>1, NamesAssumption DEF HoldInv
  <2> QED BY <2>1, <2>2
<1>5. (holding /\ ~ends) <=> (holding /\ held = None)
  BY <1>1
<1> HIDE DEF w, l0, ends
<1>6. CASE holding /\ held = None
  <2>1. lane' = l0
    BY <1>1, <1>5, <1>6
  <2>2. \A l \in Keys : InTurn(l)' = InTurn(l)
    BY <1>4, <2>1, TurnsStay
  <2>3. \E l \in Keys : InTurn(l)' # {}
    BY <1>6, <2>2 DEF HoldInv
  <2>4. \A l, m \in Keys : \A i \in InTurn(l)', j \in InTurn(m)' : l = m /\ i = j
    BY <2>2 DEF HoldInv
  <2>5. HoldInv'
    BY <1>1, <1>3, <1>4, <2>1, <2>3, <2>4, NamesAssumption DEF HoldInv
  <2>6. VBType'
    BY <1>1, <1>3, <1>4, <2>1 DEF VBType, BookTypes, LaneTypes, PipeTypes, setVars, pipeVars, pastVars
  <2> QED BY <2>5, <2>6
<1>7. CASE ~(holding /\ held = None)
  <2> DEFINE to == Enter(l0[key], "bridge")
  <2>1. lane' = [l0 EXCEPT ![key] = to]
    BY <1>1, <1>5, <1>7
  <2>2. to \in Lanes /\ to.run = l0[key].run /\ to.wait = Append(l0[key].wait, "bridge")
    BY <1>2, <1>4, LaneTyped
  <2> HIDE DEF to
  <2>3. /\ lane' \in [Keys -> Lanes] /\ lane'[key] = to
        /\ \A l \in Keys : l # key => lane'[l] = l0[l]
    BY <1>2, <1>4, <2>1, <2>2
  <2>4. lane[key].wait \in Seq(Talks) /\ l0[key].wait = lane[key].wait
    BY <1>2, <1>4 DEF Lanes
  <2>5. \A l \in Keys : InTurn(l) = {}
    BY <1>7 DEF HoldInv
  <2>6. Places(lane[key].wait) = {}
    BY <1>2, <2>5, InTurnIs
  <2>7. Places(to.wait) = {Len(lane[key].wait) + 1}
    BY <1>2, <2>2, <2>4, <2>6, PlacesAppend
  <2>8. InTurn(key)' = Places(to.wait)
    <3>1. InTurn(key)' = Places(lane'[key'].wait)
      BY DEF InTurn, Places
    <3> QED BY <1>1, <2>3, <3>1 DEF setVars
  <2>9. ASSUME NEW l \in Keys PROVE InTurn(l)' = IF l = key THEN {Len(lane[key].wait) + 1} ELSE {}
    <3>1. InTurn(l)' = Places(lane'[l].wait)
      BY DEF InTurn, Places
    <3>2. l # key => lane'[l].wait = lane[l].wait
      BY <1>4, <2>3
    <3>3. l # key => Places(lane[l].wait) = {}
      BY <2>5, InTurnIs
    <3> QED BY <2>3, <2>7, <3>1, <3>2, <3>3
  <2>10. \E l \in Keys : InTurn(l)' # {}
    BY <1>2, <2>9
  <2>11. \A l, m \in Keys : \A i \in InTurn(l)', j \in InTurn(m)' : l = m /\ i = j
    BY <2>9
  <2>12. \A l \in Keys : lane'[l].run = l0[l].run
    BY <2>2, <2>3
  <2>13. HoldInv'
    BY <1>1, <1>3, <1>4, <2>10, <2>11, <2>12, NamesAssumption DEF HoldInv
  <2>14. VBType'
    BY <1>1, <1>3, <2>3 DEF VBType, BookTypes, LaneTypes, PipeTypes, setVars, pipeVars, pastVars
  <2> QED BY <2>13, <2>14
<1> QED BY <1>6, <1>7

(* The types and the agreement hold in every reachable state.              *)
LEMMA BooksKept == VBType /\ HoldInv /\ [VBNext]_vbVars => VBType' /\ HoldInv'
<1> SUFFICES ASSUME VBType, HoldInv, [VBNext]_vbVars PROVE VBType' /\ HoldInv'
  OBVIOUS
<1>1. CASE Person
  BY <1>1, PersonKeeps, StopKeeps, AsksKeep DEF Person
<1>2. CASE Computer
  BY <1>2, RequestKeeps, HeldRequestKeeps DEF Computer
<1>3. CASE Timers
  BY <1>3, TimersKeep
<1>4. CASE Machine
  BY <1>4, LaneTurnKeeps, AppKeeps, PipeKeeps, DeliveredKeeps DEF Machine
<1>5. CASE UNCHANGED vbVars
  <2>1. VBType'
    BY <1>5 DEF vbVars, VBType, BookTypes, LaneTypes, PipeTypes, setVars, holdVars, pipeVars, countVars, pastVars
  <2>2. HoldInv'
    BY <1>5, HoldStays DEF vbVars, holdVars
  <2> QED BY <2>1, <2>2
<1> QED BY <1>1, <1>2, <1>3, <1>4, <1>5 DEF VBNext

LEMMA BooksAlways == VBSpec => [](VBType /\ HoldInv)
BY InitTyped, BooksKept, PTL DEF VBSpec

(* The bridge holds a lane exactly when that lane runs its conversation,   *)
(* has its turn in one lane exactly while it waits for a hold, and no      *)
(* report waits for anything else.                                         *)
THEOREM BooksAgree == VBSpec => []HoldAgrees
<1>1. VBType /\ HoldInv => HoldAgrees
  BY DEF HoldInv, HoldAgrees
<1> QED BY BooksAlways, <1>1, PTL

-----------------------------------------------------------------------------
(***************************************************************************)
(* Where computers' reports go.                                            *)
(***************************************************************************)

(* While the active key stays, nothing but a request of a computer says    *)
(* that a hold is wanted, or for which key.                                *)
LEMMA InsideStays ==
  ASSUME InsideInv, UNCHANGED <<key, lane, held, holding, waits, moved>>,
         boundTo' \in {boundTo, None}, strayed' = strayed
  PROVE  InsideInv'
<1>1. \A k \in Keys : InTurn(k)' = InTurn(k)
  BY DEF InTurn
<1> QED BY <1>1 DEF InsideInv

LEMMA InsideInit == VBInit => InsideInv
BY DEF VBInit, InsideInv

LEMMA InsideTurns ==
  ASSUME VBType, HoldInv, InsideInv, NEW k \in Keys, LaneTurn(k)
  PROVE  InsideInv'
<1> DEFINE who == Head(lane[k].wait)
<1>1. /\ lane'[k].run = who
      /\ \A l \in Keys : l # k => lane'[l] = lane[l]
      /\ InTurn(k)' = {i - 1 : i \in InTurn(k) \ {1}}
      /\ \A l \in Keys : l # k => InTurn(l)' = InTurn(l)
      /\ (who = "bridge") = (1 \in InTurn(k))
  BY LaneTurnMoves
<1>2. UNCHANGED <<key, holding, moved>>
  BY DEF LaneTurn, setVars
<1>3. \A l \in Keys : InTurn(l)' # {} => InTurn(l) # {}
  BY <1>1
<1>4. CASE who = "bridge"
  <2>1. 1 \in InTurn(k) /\ holding /\ held = None
    BY <1>1, <1>4 DEF HoldInv
  <2>2. held' = k /\ forward(waits) /\ waits' = << >>
    BY <1>4 DEF LaneTurn
  <2>3. /\ boundTo' = boundTo
        /\ strayed' = (strayed \/ \E i \in DOMAIN waits :
             lane'[waits[i].key].run # "bridge" \/ boundTo \notin {waits[i].key, None})
    BY <2>2 DEF forward
  <2>4. CASE moved
    BY <1>2, <2>4 DEF InsideInv
  <2>5. CASE ~moved
    <3>1. /\ k = key /\ boundTo \in {None, key}
          /\ \A i \in DOMAIN waits : waits[i].key = key
          /\ \A l \in Keys : InTurn(l) # {} => l = key
      BY <2>1, <2>5 DEF InsideInv
    <3>2. strayed' = strayed
      <4>1. ~\E i \in DOMAIN waits :
               lane'[waits[i].key].run # "bridge" \/ boundTo \notin {waits[i].key, None}
        BY <1>1, <1>4, <3>1
      <4>2. strayed \in BOOLEAN
        BY DEF VBType, BookTypes
      <4> QED BY <2>3, <4>1, <4>2
    <3> QED BY <1>2, <1>3, <2>2, <2>3, <2>5, <3>1, <3>2 DEF InsideInv
  <2> QED BY <2>4, <2>5
<1>5. CASE who # "bridge"
  <2>1. UNCHANGED <<held, boundTo, waits, strayed>>
    BY <1>5 DEF LaneTurn
  <2> QED BY <1>2, <1>3, <2>1 DEF InsideInv
<1> QED BY <1>4, <1>5

LEMMA InsideRequests ==
  ASSUME VBType, HoldInv, InsideInv, NEW c \in Computers, NEW what \in Contents,
         OnRequest(c, what)
  PROVE  InsideInv'
<1>1. /\ boundTo' = key /\ held' = None
      /\ waits' = Append(waits, [from |-> c, key |-> key, what |-> what, id |-> 0])
      /\ UNCHANGED <<key, moved, strayed>>
  BY DEF OnRequest, ensureSubscribed, setVars, pastVars
<1>2. CASE moved
  BY <1>1, <1>2 DEF InsideInv
<1>3. CASE ~moved
  <2>1. /\ waits \in Seq(Waiting) /\ key \in Keys
        /\ [from |-> c, key |-> key, what |-> what, id |-> 0] \in Waiting
        /\ lane \in [Keys -> Lanes]
    BY DEF VBType, BookTypes, LaneTypes, Waiting
  <2>2. \A i \in DOMAIN waits : waits[i].key = key
    <3>1. CASE waits = << >>
      BY <3>1
    <3>2. CASE waits # << >>
      BY <1>3, <3>2 DEF HoldInv, InsideInv
    <3> QED BY <3>1, <3>2
  <2>3. \A i \in DOMAIN waits' : waits'[i].key = key
    BY <1>1, <2>1, <2>2
  <2>4. \A l \in Keys : InTurn(l) # {} => l = key
    <3> SUFFICES ASSUME NEW l \in Keys, InTurn(l) # {} PROVE l = key
      OBVIOUS
    <3>1. holding
      BY DEF HoldInv
    <3> QED BY <1>3, <3>1 DEF InsideInv
  <2>5. \A l \in Keys : l # key => lane'[l].wait = lane[l].wait
    <3> DEFINE ends == held # None /\ urgentWaiting(key)
               l0 == IF ends THEN [lane EXCEPT ![held] = Leave(@)] ELSE lane
    <3>1. lane' = IF holding /\ ~ends THEN l0 ELSE [l0 EXCEPT ![key] = Enter(@, "bridge")]
      BY DEF OnRequest
    <3>2. \A l \in Keys : l0[l].wait = lane[l].wait
      <4>1. CASE ends
        <5>1. held \in Keys
          BY <4>1 DEF VBType, BookTypes
        <5> QED BY <4>1, <5>1, LeaveMoves
      <4>2. CASE ~ends
        BY <4>2
      <4> QED BY <4>1, <4>2
    <3>3. \A l \in Keys : l # key => lane'[l] = l0[l]
      BY <2>1, <3>1
    <3> QED BY <3>2, <3>3
  <2>6. \A l \in Keys : l # key => InTurn(l)' = InTurn(l)
    BY <2>5 DEF InTurn
  <2> QED BY <1>1, <1>3, <2>3, <2>4, <2>6 DEF InsideInv
<1> QED BY <1>2, <1>3

LEMMA InsideKept ==
  VBType /\ HoldInv /\ InsideInv /\ [VBNext]_vbVars => InsideInv'
<1> SUFFICES ASSUME VBType, HoldInv, InsideInv, [VBNext]_vbVars PROVE InsideInv'
  OBVIOUS
<1>1. CASE Turn
  <2>1. /\ UNCHANGED <<lane, held, holding, waits, boundTo, strayed>>
        /\ UNCHANGED <<key, moved>> \/ moved' = (moved \/ holding)
    BY <1>1 DEF Turn, holdVars
  <2>2. CASE UNCHANGED <<key, moved>>
    BY <2>1, <2>2, InsideStays
  <2>3. CASE moved' = (moved \/ holding)
    BY <2>1, <2>3 DEF InsideInv
  <2> QED BY <2>1, <2>2, <2>3
<1>2. ASSUME held # None, releaseHold, UNCHANGED <<key, moved, waits, strayed>>
      PROVE  InsideInv'
  <2>1. holding' = FALSE
    BY <1>2 DEF releaseHold
  <2> QED BY <1>2, <2>1 DEF InsideInv
<1>3. CASE StopBridge
  <2>1. boundTo' = None /\ UNCHANGED <<key, moved, waits, strayed>>
    BY <1>3 DEF StopBridge, setVars, pastVars
  <2>2. CASE held # None /\ releaseHold
    BY <1>2, <2>1, <2>2
  <2>3. CASE UNCHANGED <<lane, held, holding, timer>>
    BY <2>1, <2>3, InsideStays
  <2> QED BY <1>3, <2>2, <2>3 DEF StopBridge
<1>4. ASSUME NEW k \in Keys, NEW who \in {"app", "urgent"}, AppAsks(k, who) PROVE InsideInv'
  <2>1. UNCHANGED <<key, held, holding, waits, moved, boundTo, strayed>>
    BY <1>4 DEF AppAsks, setVars, holdVars, pastVars
  <2>2. \A l \in Keys : InTurn(l)' # {} => InTurn(l) # {}
    BY <1>4, AsksMoves
  <2> QED BY <2>1, <2>2 DEF InsideInv
<1>5. ASSUME NEW c \in Computers, NEW what \in Contents, OnRequestHeld(c, what)
      PROVE  InsideInv'
  <2>1. /\ held # None /\ boundTo' = key /\ strayed' = (strayed \/ held # key)
        /\ UNCHANGED <<key, held, holding, waits, lane, moved>>
    BY <1>5 DEF OnRequestHeld, Granted, setVars
  <2>2. \A l \in Keys : InTurn(l)' = InTurn(l)
    BY <2>1 DEF InTurn
  <2>3. ~moved => held = key
    BY <2>1 DEF HoldInv, InsideInv
  <2> QED BY <2>1, <2>2, <2>3 DEF InsideInv
<1>6. CASE TimerFires
  BY <1>6, InsideStays DEF TimerFires, setVars, pastVars
<1>7. CASE AskAnswered
  <2>1. UNCHANGED <<key, waits, moved, boundTo, strayed>>
    BY <1>7 DEF AskAnswered, setVars, pastVars
  <2>2. CASE held # None /\ releaseHold
    BY <1>2, <2>1, <2>2
  <2>3. CASE UNCHANGED <<held, holding, lane>>
    BY <2>1, <2>3, InsideStays
  <2> QED BY <1>7, <2>2, <2>3 DEF AskAnswered
<1>8. ASSUME NEW k \in Keys, AppStep(k) PROVE InsideInv'
  <2>1. UNCHANGED <<key, held, holding, waits, moved, boundTo, strayed>>
    BY <1>8 DEF AppStep, AppWrites, AppLeaves, setVars, holdVars, pastVars
  <2>2. \A l \in Keys : lane'[l].wait = lane[l].wait
    BY <1>8, LeaveMoves DEF AppStep, AppWrites, AppLeaves
  <2>3. \A l \in Keys : InTurn(l)' = InTurn(l)
    BY <2>2, TurnsStay
  <2> QED BY <2>1, <2>3 DEF InsideInv
<1>9. ASSUME NEW k \in Keys, PipeStep(k) \/ Delivered(k) PROVE InsideInv'
  BY <1>9, InsideStays DEF PipeStep, Delivered, setVars, holdVars, pastVars
<1>10. CASE UNCHANGED vbVars
  BY <1>10, InsideStays DEF vbVars, setVars, holdVars, pastVars
<1>11. CASE Person
  BY <1>1, <1>3, <1>4, <1>11 DEF Person
<1>12. CASE Computer
  BY <1>5, <1>12, InsideRequests DEF Computer
<1>13. CASE Timers
  BY <1>6, <1>7, <1>13 DEF Timers
<1>14. CASE Machine
  BY <1>8, <1>9, <1>14, InsideTurns DEF Machine
<1> QED BY <1>10, <1>11, <1>12, <1>13, <1>14 DEF VBNext

(* A computer's report goes into a key only in a conversation that holds   *)
(* the lane of that key, unless the active key changed under it.           *)
THEOREM WritesStayInside == VBSpec => []WritesInsideTheHold
<1>1. InsideInv => WritesInsideTheHold
  BY DEF InsideInv, WritesInsideTheHold
<1> QED BY InsideInit, InsideKept, BooksAlways, <1>1, PTL DEF VBSpec

-----------------------------------------------------------------------------
(***************************************************************************)
(* Which answers may leak.                                                 *)
(***************************************************************************)

(* Who writes to the key, and into which lane, says whether the owner may   *)
(* be a computer: in a conversation of the app, none is made the owner but  *)
(* by a write that strays.                                                  *)
LEMMA OwnerMoves ==
  ASSUME VBType, HoldInv, [VBNext]_vbVars, NEW k \in Keys, app[k] = "sent", app'[k] = "sent",
         owner = None \/ boundTo # k
  PROVE  owner' = None \/ boundTo' # k \/ strayed'
<1>0. lane[k].run \in {"app", "urgent"} /\ held # k
  BY DEF HoldInv
<1>1. ASSUME UNCHANGED <<owner, boundTo>> PROVE owner' = None \/ boundTo' # k \/ strayed'
  BY <1>1
<1>2. CASE Turn
  BY <1>1, <1>2 DEF Turn
<1>3. CASE StopBridge
  BY <1>3 DEF StopBridge
<1>4. ASSUME NEW l \in Keys, NEW who \in {"app", "urgent"}, AppAsks(l, who)
      PROVE  owner' = None \/ boundTo' # k \/ strayed'
  BY <1>1, <1>4 DEF AppAsks
<1>5. ASSUME NEW c \in Computers, NEW what \in Contents, OnRequest(c, what)
      PROVE  owner' = None \/ boundTo' # k \/ strayed'
  BY <1>5 DEF OnRequest, ensureSubscribed
<1>6. ASSUME NEW c \in Computers, NEW what \in Contents, OnRequestHeld(c, what)
      PROVE  owner' = None \/ boundTo' # k \/ strayed'
  BY <1>0, <1>6 DEF OnRequestHeld
<1>7. CASE Timers
  BY <1>1, <1>7 DEF Timers, TimerFires, AskAnswered
<1>8. ASSUME NEW l \in Keys, LaneTurn(l) PROVE owner' = None \/ boundTo' # k \/ strayed'
  <2> DEFINE who == Head(lane[l].wait)
  <2>1. /\ lane'[l].run = who
        /\ \A m \in Keys : m # l => lane'[m] = lane[m]
        /\ (who = "bridge") = (1 \in InTurn(l))
    BY <1>8, LaneTurnMoves
  <2>2. CASE who # "bridge"
    BY <1>1, <1>8, <2>2 DEF LaneTurn
  <2>3. CASE who = "bridge"
    <3>1. holding /\ held = None /\ waits # << >>
      BY <2>1, <2>3 DEF HoldInv
    <3>2. /\ held' = l /\ boundTo' = boundTo
          /\ strayed' = (strayed \/ \E i \in DOMAIN waits :
               lane'[waits[i].key].run # "bridge" \/ boundTo \notin {waits[i].key, None})
      BY <1>8, <2>3 DEF LaneTurn, forward
    <3>3. lane[l].run = None
      BY <1>8 DEF LaneTurn
    <3>4. l # k
      BY <1>0, <3>3, NamesAssumption
    <3>5. Len(waits) \in DOMAIN waits /\ waits[Len(waits)].key \in Keys
      BY <3>1, WaitsTyped DEF Waiting
    <3>6. SUFFICES ASSUME boundTo = k PROVE strayed'
      BY <3>2
    <3>7. CASE waits[Len(waits)].key = k
      <4>1. lane'[k].run # "bridge"
        BY <1>0, <2>1, <3>4
      <4> QED BY <3>2, <3>5, <3>7, <4>1
    <3>8. CASE waits[Len(waits)].key # k
      <4>1. k # None
        BY NamesAssumption
      <4> QED BY <3>2, <3>5, <3>6, <3>8, <4>1
    <3> QED BY <3>7, <3>8
  <2> QED BY <2>2, <2>3
<1>9. ASSUME NEW l \in Keys, AppStep(l) PROVE owner' = None \/ boundTo' # k \/ strayed'
  BY <1>1, <1>9 DEF AppStep, AppWrites, AppLeaves
<1>10. ASSUME NEW l \in Keys, PipeStep(l) PROVE owner' = None \/ boundTo' # k \/ strayed'
  BY <1>1, <1>10 DEF PipeStep
<1>11. ASSUME NEW l \in Keys, Delivered(l) PROVE owner' = None \/ boundTo' # k \/ strayed'
  <2>1. boundTo' = boundTo /\ owner' \in {owner, None}
    BY <1>11 DEF Delivered, Heard, Reported
  <2> QED BY <2>1
<1>12. CASE UNCHANGED vbVars
  BY <1>1, <1>12 DEF vbVars
<1> QED BY <1>2, <1>3, <1>4, <1>5, <1>6, <1>7, <1>8, <1>9, <1>10, <1>11, <1>12
        DEF VBNext, Person, Computer, Machine

-----------------------------------------------------------------------------
(***************************************************************************)
(* The app's place in a lane: where it stands after a step.                *)
(***************************************************************************)

LEMMA PlaceAppend ==
  ASSUME NEW w \in Seq(Talks), NEW who \in Talks, AtMostOne(w),
         who = "bridge" \/ ~\E i \in DOMAIN w : w[i] # "bridge"
  PROVE  /\ AtMostOne(Append(w, who))
         /\ who = "bridge" =>
              ((\E i \in DOMAIN Append(w, who) : Append(w, who)[i] # "bridge") =>
                 \E i \in DOMAIN w : w[i] # "bridge")
<1> DEFINE v == Append(w, who)
<1>1. /\ DOMAIN w = 1 .. Len(w) /\ DOMAIN v = 1 .. Len(w) + 1 /\ Len(w) \in Nat
      /\ \A i \in 1 .. Len(w) : v[i] = w[i]
      /\ v[Len(w) + 1] = who
  OBVIOUS
<1> HIDE DEF v
<1>2. CASE who = "bridge"
  <2>1. \A i \in DOMAIN v : v[i] # "bridge" => i \in DOMAIN w /\ w[i] # "bridge"
    BY <1>1, <1>2
  <2> QED BY <1>2, <2>1 DEF AtMostOne, v
<1>3. CASE who # "bridge"
  <2>1. \A i \in DOMAIN v : v[i] # "bridge" => i = Len(w) + 1
    BY <1>1, <1>3
  <2> QED BY <1>3, <2>1 DEF AtMostOne, v
<1> QED BY <1>2, <1>3

LEMMA PlaceFirst ==
  ASSUME NEW w \in Seq(Talks), NEW who \in Talks, ~\E i \in DOMAIN w : w[i] # "bridge"
  PROVE  AtMostOne(<<who>> \o w)
<1> DEFINE v == <<who>> \o w
<1>1. /\ DOMAIN w = 1 .. Len(w) /\ DOMAIN v = 1 .. Len(w) + 1 /\ Len(w) \in Nat
      /\ \A i \in 1 .. Len(w) : v[i + 1] = w[i]
  OBVIOUS
<1> HIDE DEF v
<1>2. ASSUME NEW i \in DOMAIN v, v[i] # "bridge" PROVE i = 1
  <2> SUFFICES ASSUME i # 1 PROVE FALSE
    OBVIOUS
  <2>1. i - 1 \in 1 .. Len(w) /\ (i - 1) + 1 = i
    BY <1>1
  <2>2. v[i] = w[i - 1]
    BY <1>1, <2>1
  <2> QED BY <1>1, <1>2, <2>1, <2>2
<1> QED BY <1>2 DEF AtMostOne, v

LEMMA PlaceTail ==
  ASSUME NEW w \in Seq(Talks), w # << >>, AtMostOne(w)
  PROVE  /\ AtMostOne(Tail(w))
         /\ (\E i \in DOMAIN Tail(w) : Tail(w)[i] # "bridge") =>
              /\ Head(w) = "bridge" /\ \E i \in DOMAIN w : w[i] # "bridge"
         /\ Head(w) # "bridge" => \E i \in DOMAIN w : w[i] # "bridge"
<1> DEFINE v == Tail(w)
<1>1. /\ Len(w) \in Nat \ {0} /\ Head(w) = w[1] /\ Len(v) = Len(w) - 1
      /\ v \in Seq(Talks) /\ \A i \in 1 .. Len(w) - 1 : v[i] = w[i + 1]
  BY RangeTail
<1>2. DOMAIN w = 1 .. Len(w) /\ DOMAIN v = 1 .. Len(w) - 1 /\ 1 \in DOMAIN w
  BY <1>1
<1> HIDE DEF v
<1>3. \A i \in DOMAIN v : i + 1 \in DOMAIN w /\ v[i] = w[i + 1] /\ i + 1 # 1 /\ i \in Int
  BY <1>1, <1>2
<1>4. AtMostOne(v)
  <2> SUFFICES ASSUME NEW i \in DOMAIN v, NEW j \in DOMAIN v, v[i] # "bridge", v[j] # "bridge"
               PROVE  i = j
    BY DEF AtMostOne
  <2>1. i + 1 = j + 1 /\ i \in Int /\ j \in Int
    BY <1>3 DEF AtMostOne
  <2> QED BY <2>1
<1>5. ASSUME NEW i \in DOMAIN v, v[i] # "bridge"
      PROVE  Head(w) = "bridge" /\ \E j \in DOMAIN w : w[j] # "bridge"
  BY <1>1, <1>2, <1>3, <1>5 DEF AtMostOne
<1> QED BY <1>1, <1>2, <1>4, <1>5 DEF v

LEMMA AskStays ==
  ASSUME AskInv, \A k \in Keys : lane'[k].wait = lane[k].wait,
         \A k \in Keys : app[k] = "asks" => app'[k] = "asks"
  PROVE  AskInv'
BY DEF AskInv, AtMostOne

LEMMA AskInit == VBInit => AskInv
<1> SUFFICES ASSUME VBInit PROVE AskInv
  OBVIOUS
<1>1. \A k \in Keys : lane[k].wait = << >>
  BY DEF VBInit
<1>2. DOMAIN << >> = {}
  OBVIOUS
<1> QED BY <1>1, <1>2 DEF AskInv, AtMostOne

LEMMA AskTurns ==
  ASSUME VBType, AskInv, NEW k \in Keys, LaneTurn(k)
  PROVE  /\ AskInv'
         /\ Head(lane[k].wait) # "bridge" => app[k] = "asks" /\ app' = [app EXCEPT ![k] = "turn"]
         /\ Head(lane[k].wait) = "bridge" => app' = app
<1> DEFINE w == lane[k].wait
<1>1. w \in Seq(Talks) /\ w # << >> /\ lane \in [Keys -> Lanes] /\ AtMostOne(w)
  BY DEF VBType, LaneTypes, Lanes, LaneTurn, AskInv
<1>2. app \in [Keys -> {"no", "asks", "turn", "sent"}]
  BY DEF VBType, LaneTypes
<1>3. lane' = [lane EXCEPT ![k] = [run |-> Head(w), wait |-> Tail(w)]]
  BY DEF LaneTurn
<1>4. /\ Head(w) # "bridge" => app' = [app EXCEPT ![k] = "turn"]
      /\ Head(w) = "bridge" => app' = app
  BY DEF LaneTurn
<1>5. (\E i \in DOMAIN w : w[i] # "bridge") => app[k] = "asks"
  BY DEF AskInv
<1> HIDE DEF w
<1>6. /\ AtMostOne(Tail(w))
      /\ (\E i \in DOMAIN Tail(w) : Tail(w)[i] # "bridge") =>
           /\ Head(w) = "bridge" /\ \E i \in DOMAIN w : w[i] # "bridge"
      /\ Head(w) # "bridge" => \E i \in DOMAIN w : w[i] # "bridge"
  BY <1>1, PlaceTail
<1>7. lane'[k].wait = Tail(w) /\ \A l \in Keys : l # k => lane'[l] = lane[l]
  BY <1>1, <1>3
<1>8. \A l \in Keys : l # k => app'[l] = app[l]
  BY <1>2, <1>4
<1>9. ASSUME NEW l \in Keys
      PROVE  /\ AtMostOne(lane'[l].wait)
             /\ (\E i \in DOMAIN lane'[l].wait : lane'[l].wait[i] # "bridge") => app'[l] = "asks"
  <2>1. CASE l = k
    BY <1>4, <1>5, <1>6, <1>7, <2>1
  <2>2. CASE l # k
    BY <1>7, <1>8, <2>2 DEF AskInv
  <2> QED BY <2>1, <2>2
<1>10. AskInv'
  BY <1>9 DEF AskInv, AtMostOne
<1> QED BY <1>4, <1>5, <1>6, <1>10 DEF w

LEMMA AskAsks ==
  ASSUME VBType, AskInv, NEW k \in Keys, NEW who \in {"app", "urgent"}, AppAsks(k, who)
  PROVE  AskInv'
<1> DEFINE w == lane[k].wait
           to == IF who = "urgent" THEN EnterFirst(lane[k], who) ELSE Enter(lane[k], who)
<1>1. /\ w \in Seq(Talks) /\ lane \in [Keys -> Lanes] /\ who \in Talks
      /\ app \in [Keys -> {"no", "asks", "turn", "sent"}]
  BY DEF VBType, LaneTypes, Lanes, Talks
<1>2. /\ app[k] = "no" /\ app' = [app EXCEPT ![k] = "asks"] /\ lane' = [lane EXCEPT ![k] = to]
  BY DEF AppAsks
<1>3. to.wait = IF who = "urgent" THEN <<who>> \o w ELSE Append(w, who)
  BY <1>1, LaneTyped
<1>4. ~(\E i \in DOMAIN w : w[i] # "bridge") /\ AtMostOne(w)
  BY <1>2 DEF AskInv
<1> HIDE DEF w, to
<1>5. AtMostOne(to.wait)
  BY <1>1, <1>3, <1>4, PlaceAppend, PlaceFirst
<1>6. lane'[k] = to /\ \A l \in Keys : l # k => lane'[l] = lane[l]
  BY <1>1, <1>2
<1>7. app'[k] = "asks" /\ \A l \in Keys : l # k => app'[l] = app[l]
  BY <1>1, <1>2
<1>8. ASSUME NEW l \in Keys
      PROVE  /\ AtMostOne(lane'[l].wait)
             /\ (\E i \in DOMAIN lane'[l].wait : lane'[l].wait[i] # "bridge") => app'[l] = "asks"
  <2>1. CASE l = k
    BY <1>5, <1>6, <1>7, <2>1
  <2>2. CASE l # k
    BY <1>6, <1>7, <2>2 DEF AskInv
  <2> QED BY <2>1, <2>2
<1> QED BY <1>8 DEF AskInv, AtMostOne

LEMMA AskRequests ==
  ASSUME VBType, AskInv, NEW c \in Computers, NEW what \in Contents, OnRequest(c, what)
  PROVE  AskInv'
<1> DEFINE ends == held # None /\ urgentWaiting(key)
           l0 == IF ends THEN [lane EXCEPT ![held] = Leave(@)] ELSE lane
<1>1. /\ lane' = IF holding /\ ~ends THEN l0 ELSE [l0 EXCEPT ![key] = Enter(@, "bridge")]
      /\ app' = app
  BY DEF OnRequest
<1>2. lane \in [Keys -> Lanes] /\ "bridge" \in Talks /\ key \in Keys
  BY DEF VBType, BookTypes, LaneTypes, Talks
<1>3. l0 \in [Keys -> Lanes] /\ \A l \in Keys : l0[l].wait = lane[l].wait
  <2>1. CASE ends
    <3>1. held \in Keys
      BY <2>1 DEF VBType, BookTypes
    <3> QED BY <2>1, <3>1, LeaveMoves
  <2>2. CASE ~ends
    BY <1>2, <2>2
  <2> QED BY <2>1, <2>2
<1> HIDE DEF l0
<1>4. CASE holding /\ ~ends
  BY <1>1, <1>3, <1>4, AskStays
<1>5. CASE ~(holding /\ ~ends)
  <2> DEFINE w == lane[key].wait
             to == Enter(l0[key], "bridge")
  <2>1. to.wait = Append(w, "bridge") /\ w \in Seq(Talks) /\ AtMostOne(w)
    <3>1. l0[key] \in Lanes /\ l0[key].wait = w
      BY <1>2, <1>3
    <3>2. to.wait = Append(l0[key].wait, "bridge")
      BY <1>2, <3>1, LaneTyped
    <3>3. AtMostOne(w)
      BY <1>2 DEF AskInv
    <3>4. w \in Seq(Talks)
      BY <3>1 DEF Lanes
    <3> QED BY <3>1, <3>2, <3>3, <3>4
  <2>2. (\E i \in DOMAIN w : w[i] # "bridge") => app[key] = "asks"
    BY <1>2 DEF AskInv
  <2>3. lane' = [l0 EXCEPT ![key] = to]
    BY <1>1, <1>5
  <2> HIDE DEF w, to
  <2>4. /\ AtMostOne(to.wait)
        /\ (\E i \in DOMAIN to.wait : to.wait[i] # "bridge") => \E i \in DOMAIN w : w[i] # "bridge"
    BY <1>2, <2>1, PlaceAppend
  <2>5. lane'[key] = to /\ \A l \in Keys : l # key => lane'[l].wait = lane[l].wait
    BY <1>2, <1>3, <2>3
  <2>6. ASSUME NEW l \in Keys
        PROVE  /\ AtMostOne(lane'[l].wait)
               /\ (\E i \in DOMAIN lane'[l].wait : lane'[l].wait[i] # "bridge") => app'[l] = "asks"
    <3>1. CASE l = key
      BY <1>1, <2>2, <2>4, <2>5, <3>1
    <3>2. CASE l # key
      BY <1>1, <2>5, <3>2 DEF AskInv
    <3> QED BY <3>1, <3>2
  <2> QED BY <2>6 DEF AskInv, AtMostOne
<1> QED BY <1>4, <1>5

LEMMA AskKept == VBType /\ HoldInv /\ AskInv /\ [VBNext]_vbVars => AskInv'
<1> SUFFICES ASSUME VBType, HoldInv, AskInv, [VBNext]_vbVars PROVE AskInv'
  OBVIOUS
<1>1. ASSUME lane' = lane, app' = app PROVE AskInv'
  BY <1>1, AskStays
<1>2. ASSUME held # None, releaseHold, app' = app PROVE AskInv'
  <2>1. held \in Keys
    BY <1>2 DEF VBType, BookTypes
  <2>2. \A k \in Keys : lane'[k].wait = lane[k].wait
    BY <1>2, <2>1, LeaveMoves DEF releaseHold
  <2> QED BY <1>2, <2>2, AskStays
<1>3. CASE Turn
  BY <1>1, <1>3 DEF Turn
<1>4. CASE StopBridge
  BY <1>1, <1>2, <1>4 DEF StopBridge
<1>5. ASSUME NEW c \in Computers, NEW what \in Contents, OnRequestHeld(c, what)
      PROVE  AskInv'
  BY <1>1, <1>5 DEF OnRequestHeld
<1>6. CASE Timers
  BY <1>1, <1>2, <1>6 DEF Timers, TimerFires, AskAnswered
<1>7. ASSUME NEW k \in Keys, NEW what \in Asked, AppWrites(k, what) PROVE AskInv'
  <2>1. lane' = lane /\ app[k] = "turn" /\ app' = [app EXCEPT ![k] = "sent"]
    BY <1>7 DEF AppWrites
  <2>2. \A l \in Keys : app[l] = "asks" => app'[l] = "asks"
    BY <2>1 DEF VBType, LaneTypes
  <2> QED BY <2>1, <2>2, AskStays
<1>8. ASSUME NEW k \in Keys, AppLeaves(k) PROVE AskInv'
  <2>1. lane' = [lane EXCEPT ![k] = Leave(@)] /\ app[k] = "sent" /\ app' = [app EXCEPT ![k] = "no"]
    BY <1>8 DEF AppLeaves
  <2>2. \A l \in Keys : app[l] = "asks" => app'[l] = "asks"
    BY <2>1 DEF VBType, LaneTypes
  <2> QED BY <2>1, <2>2, LeaveMoves, AskStays
<1>9. ASSUME NEW k \in Keys, PipeStep(k) \/ Delivered(k) PROVE AskInv'
  BY <1>1, <1>9 DEF PipeStep, Delivered
<1>10. CASE UNCHANGED vbVars
  BY <1>1, <1>10 DEF vbVars
<1>11. CASE Person
  BY <1>3, <1>4, <1>11, AskAsks DEF Person
<1>12. CASE Computer
  BY <1>5, <1>12, AskRequests DEF Computer
<1>13. CASE Machine
  BY <1>7, <1>8, <1>9, <1>13, AskTurns DEF Machine, AppStep
<1> QED BY <1>6, <1>10, <1>11, <1>12, <1>13 DEF VBNext

(* What a step does to the app's conversation at one key, and to what is    *)
(* said of its requests.                                                   *)
AppMoves(k) ==
  /\ mistaken \subseteq mistaken' /\ (strayed => strayed')
  /\ \/ app'[k] = app[k] /\ conv'[k] = conv[k]
     \/ app[k] = "no" /\ app'[k] = "asks" /\ conv'[k] > conv[k]
     \/ app[k] = "asks" /\ app'[k] = "turn" /\ conv'[k] = conv[k]
     \/ app[k] = "turn" /\ app'[k] = "sent" /\ conv'[k] = conv[k]
     \/ app[k] = "sent" /\ app'[k] = "no" /\ conv'[k] = conv[k]

LEMMA AppMovesOn ==
  ASSUME VBType, HoldInv, AskInv, [VBNext]_vbVars, NEW k \in Keys
  PROVE  AppMoves(k)
<1>0. /\ app \in [Keys -> {"no", "asks", "turn", "sent"}] /\ strayed \in BOOLEAN
      /\ conv \in [Keys -> Nat] /\ apps \in Nat /\ \A l \in Keys : conv[l] <= apps
  BY DEF VBType, LaneTypes, BookTypes
<1>1. ASSUME UNCHANGED <<app, conv, mistaken, strayed>> PROVE AppMoves(k)
  BY <1>1 DEF AppMoves
<1>2. CASE Turn \/ StopBridge \/ Timers
  BY <1>1, <1>2 DEF Turn, StopBridge, Timers, TimerFires, AskAnswered, countVars, pastVars
<1>3. ASSUME NEW l \in Keys, NEW who \in {"app", "urgent"}, AppAsks(l, who) PROVE AppMoves(k)
  <2>1. /\ app[l] = "no" /\ app' = [app EXCEPT ![l] = "asks"]
        /\ conv' = [conv EXCEPT ![l] = apps + 1] /\ UNCHANGED <<mistaken, strayed>>
    BY <1>3 DEF AppAsks, pastVars
  <2>2. CASE l = k
    <3>1. app'[k] = "asks" /\ conv'[k] = apps + 1 /\ apps + 1 > conv[k]
      BY <1>0, <2>1, <2>2
    <3> QED BY <2>1, <2>2, <3>1 DEF AppMoves
  <2>3. CASE l # k
    BY <2>1, <2>3 DEF AppMoves
  <2> QED BY <2>2, <2>3
<1>4. ASSUME NEW c \in Computers, NEW what \in Contents, OnRequest(c, what) PROVE AppMoves(k)
  BY <1>1, <1>4 DEF OnRequest, pastVars
<1>5. ASSUME NEW c \in Computers, NEW what \in Contents, OnRequestHeld(c, what)
      PROVE  AppMoves(k)
  BY <1>5 DEF OnRequestHeld, AppMoves
<1>6. ASSUME NEW l \in Keys, LaneTurn(l) PROVE AppMoves(k)
  <2>1. UNCHANGED <<conv, mistaken>> /\ (strayed => strayed')
    BY <1>6 DEF LaneTurn, forward, countVars
  <2>2. CASE Head(lane[l].wait) = "bridge"
    <3>1. app' = app
      BY <1>6, <2>2, AskTurns
    <3> QED BY <2>1, <3>1 DEF AppMoves
  <2>3. CASE Head(lane[l].wait) # "bridge"
    <3>1. app[l] = "asks" /\ app' = [app EXCEPT ![l] = "turn"]
      BY <1>6, <2>3, AskTurns
    <3> QED BY <1>0, <2>1, <3>1 DEF AppMoves
  <2> QED BY <2>2, <2>3
<1>7. ASSUME NEW l \in Keys, AppStep(l) PROVE AppMoves(k)
  <2>1. UNCHANGED <<conv, mistaken, strayed>>
    BY <1>7 DEF AppStep, AppWrites, AppLeaves, countVars, pastVars
  <2>2. \/ app[l] = "turn" /\ app' = [app EXCEPT ![l] = "sent"]
        \/ app[l] = "sent" /\ app' = [app EXCEPT ![l] = "no"]
    BY <1>7 DEF AppStep, AppWrites, AppLeaves
  <2> QED BY <1>0, <2>1, <2>2 DEF AppMoves
<1>8. ASSUME NEW l \in Keys, PipeStep(l) PROVE AppMoves(k)
  BY <1>1, <1>8 DEF PipeStep, countVars, pastVars
<1>9. ASSUME NEW l \in Keys, Delivered(l) PROVE AppMoves(k)
  <2>1. UNCHANGED <<app, conv, strayed>> /\ mistaken \subseteq mistaken'
    BY <1>9 DEF Delivered, Heard, Reported, countVars
  <2> QED BY <2>1 DEF AppMoves
<1>10. CASE UNCHANGED vbVars
  BY <1>1, <1>10 DEF vbVars, countVars, pastVars
<1> QED BY <1>2, <1>3, <1>4, <1>5, <1>6, <1>7, <1>8, <1>9, <1>10
        DEF VBNext, Person, Computer, Machine

(* A request stays of the past, and one that no answer to which leaks       *)
(* without a reason stays one.                                             *)
LEMMA SettledStays ==
  ASSUME VBType, HoldInv, AskInv, [VBNext]_vbVars,
         NEW k \in Keys, NEW id \in Nat, Past(k, id)
  PROVE  Past(k, id)' /\ (Settled(k, id) => Settled(k, id)')
<1>1. AppMoves(k)
  BY AppMovesOn
<1>2. conv[k] \in Nat /\ conv'[k] \in Nat /\ app[k] \in {"no", "asks", "turn", "sent"}
  BY BooksKept DEF VBType, LaneTypes
<1>3. Past(k, id)'
  BY <1>1, <1>2 DEF Past, AppMoves
<1> SUFFICES ASSUME Settled(k, id) PROVE Settled(k, id)'
  BY <1>3
<1>4. CASE id \in mistaken \/ strayed
  BY <1>1, <1>4 DEF Settled, AppMoves
<1>5. CASE app[k] # "sent"
  <2>1. app'[k] # "sent" \/ (app[k] = "turn" /\ conv'[k] = conv[k])
    BY <1>1, <1>5 DEF AppMoves
  <2>2. app[k] = "turn" => id < conv[k]
    BY DEF Past
  <2> QED BY <1>2, <2>1, <2>2 DEF Settled
<1>6. CASE app[k] = "sent"
  <2>1. app'[k] # "sent" \/ (app'[k] = "sent" /\ conv'[k] = conv[k])
    BY <1>1, <1>6 DEF AppMoves
  <2>2. CASE id # conv[k]
    BY <2>1, <2>2 DEF Settled
  <2>3. CASE owner = None \/ boundTo # k
    BY <1>6, <2>1, <2>3, OwnerMoves DEF Settled
  <2> QED BY <1>4, <1>6, <2>2, <2>3 DEF Settled
<1> QED BY <1>4, <1>5, <1>6

-----------------------------------------------------------------------------
(***************************************************************************)
(* The pipe: the app's requests, their echoes and their answers.           *)
(***************************************************************************)

(* The echo of this write is still to come.                                *)
EchoComes(k, m) ==
  \/ m \in Range(unechoed[k])
  \/ \E e \in Range(ev[k]) : e.kind = "write" /\ e.of = m

PipeInv == PastInv /\ EchoInv /\ ReportInv

LEMMA PipeParts ==
  ASSUME VBType, PipeInv, NEW k \in Keys
  PROVE  /\ \A m \in Range(inq[k]) : m.from = TheApp =>
              m.id \in Nat /\ Past(k, m.id) /\ (Settled(k, m.id) \/ EchoComes(k, m))
         /\ \A i \in DOMAIN ev[k] : ev[k][i].kind = "report" /\ ev[k][i].of.from = TheApp =>
              /\ ev[k][i].of.id \in Nat /\ Past(k, ev[k][i].of.id)
              /\ ~ev[k][i].early => Settled(k, ev[k][i].of.id) \/ Behind(ev[k], i)
<1>1. /\ inq[k] \in Seq(Msgs) /\ ev[k] \in Seq(Events)
  BY DEF VBType, PipeTypes
<1>2. \A m \in Range(inq[k]) : m.id \in Nat
  <2>1. Range(inq[k]) \subseteq Msgs
    BY <1>1, RangeTyped
  <2> QED BY <2>1 DEF Msgs
<1>3. \A i \in DOMAIN ev[k] : ev[k][i].of.id \in Nat /\ ev[k][i] \in Range(ev[k])
  <2>1. \A i \in DOMAIN ev[k] : ev[k][i] \in Events
    BY <1>1, RangeTyped
  <2>2. \A i \in DOMAIN ev[k] : ev[k][i] \in Range(ev[k])
    BY DEF Range
  <2> QED BY <2>1, <2>2 DEF Msgs, Events
<1>4. \A m \in Range(inq[k]) : m.from = TheApp =>
         Past(k, m.id) /\ (Settled(k, m.id) \/ EchoComes(k, m))
  BY DEF PipeInv, PastInv, EchoInv, EchoComes
<1>5. \A i \in DOMAIN ev[k] : ev[k][i].kind = "report" /\ ev[k][i].of.from = TheApp =>
         /\ Past(k, ev[k][i].of.id)
         /\ ~ev[k][i].early => Settled(k, ev[k][i].of.id) \/ Behind(ev[k], i)
  BY <1>3 DEF PipeInv, PastInv, ReportInv
<1> QED BY <1>2, <1>3, <1>4, <1>5

(* The same, key by key, is what the next state has to have.               *)
PipeAt(k) ==
  /\ \A m \in Range(inq[k]) : m.from = TheApp =>
       Past(k, m.id) /\ (Settled(k, m.id) \/ EchoComes(k, m))
  /\ \A i \in DOMAIN ev[k] : ev[k][i].kind = "report" /\ ev[k][i].of.from = TheApp =>
       /\ Past(k, ev[k][i].of.id)
       /\ ~ev[k][i].early => Settled(k, ev[k][i].of.id) \/ Behind(ev[k], i)

LEMMA PipeWhole == ASSUME \A k \in Keys : PipeAt(k) PROVE PipeInv
<1>1. PastInv
  BY DEF PastInv, PipeAt, Range
<1>2. EchoInv
  BY DEF EchoInv, PipeAt, EchoComes
<1>3. ReportInv
  BY DEF ReportInv, PipeAt
<1> QED BY <1>1, <1>2, <1>3 DEF PipeInv

LEMMA PipeNext == ASSUME \A k \in Keys : PipeAt(k)' PROVE PipeInv'
<1>1. PastInv'
  BY DEF PastInv, PipeAt, Range
<1>2. EchoInv'
  BY DEF EchoInv, PipeAt, EchoComes
<1>3. ReportInv'
  BY DEF ReportInv, PipeAt
<1> QED BY <1>1, <1>2, <1>3 DEF PipeInv

(* A key whose pipe stays, or gets writes that are the computers' or of the *)
(* conversation the app has there.                                         *)
LEMMA PipeAtNext ==
  ASSUME NEW k \in Keys,
         \A m \in Range(inq'[k]) : m.from = TheApp =>
           Past(k, m.id)' /\ (Settled(k, m.id)' \/ EchoComes(k, m)'),
         \A i \in DOMAIN ev'[k] : \A id :
           ev'[k][i].kind = "report" /\ ev'[k][i].of.from = TheApp /\ id = ev'[k][i].of.id =>
             /\ Past(k, id)'
             /\ ~ev'[k][i].early => Settled(k, id)' \/ Behind(ev'[k], i)
  PROVE  PipeAt(k)'
BY DEF PipeAt, Past, Settled, EchoComes, Behind

LEMMA PipeGrows ==
  ASSUME VBType, HoldInv, AskInv, PipeInv, [VBNext]_vbVars, NEW k \in Keys, ev'[k] = ev[k],
         NEW new, Range(inq'[k]) = Range(inq[k]) \cup new,
         Range(unechoed'[k]) = Range(unechoed[k]) \cup new,
         \A m \in new : m.from = TheApp => m.id = conv'[k] /\ app'[k] = "sent"
  PROVE  PipeAt(k)'
<1>1. ASSUME NEW m \in Range(inq'[k]), m.from = TheApp
      PROVE  Past(k, m.id)' /\ (Settled(k, m.id)' \/ EchoComes(k, m)')
  <2>1. CASE m \in new
    <3>1. m.id = conv'[k] /\ app'[k] = "sent" /\ conv'[k] \in Nat
      BY <1>1, <2>1, BooksKept DEF VBType, LaneTypes
    <3>2. Past(k, m.id)'
      BY <3>1 DEF Past
    <3>3. EchoComes(k, m)'
      BY <2>1 DEF EchoComes
    <3> QED BY <3>2, <3>3
  <2>2. CASE m \in Range(inq[k])
    <3>1. m.id \in Nat /\ Past(k, m.id) /\ (Settled(k, m.id) \/ EchoComes(k, m))
      BY <1>1, <2>2, PipeParts
    <3>2. Past(k, m.id)' /\ (Settled(k, m.id) => Settled(k, m.id)')
      BY <3>1, SettledStays
    <3>3. EchoComes(k, m) => EchoComes(k, m)'
      BY DEF EchoComes
    <3> QED BY <3>1, <3>2, <3>3
  <2> QED BY <2>1, <2>2
<1>2. ASSUME NEW i \in DOMAIN ev'[k], ev'[k][i].kind = "report", ev'[k][i].of.from = TheApp,
             NEW id, id = ev'[k][i].of.id
      PROVE  /\ Past(k, id)'
             /\ ~ev'[k][i].early => Settled(k, id)' \/ Behind(ev'[k], i)
  <2>1. /\ id \in Nat /\ Past(k, id)
        /\ ~ev[k][i].early => Settled(k, id) \/ Behind(ev[k], i)
    BY <1>2, PipeParts
  <2>2. Past(k, id)' /\ (Settled(k, id) => Settled(k, id)')
    BY <2>1, SettledStays
  <2> QED BY <2>1, <2>2
<1> QED BY <1>1, <1>2, PipeAtNext

LEMMA PipeSame ==
  ASSUME VBType, HoldInv, AskInv, PipeInv, [VBNext]_vbVars, NEW k \in Keys,
         ev'[k] = ev[k], inq'[k] = inq[k], unechoed'[k] = unechoed[k]
  PROVE  PipeAt(k)'
<1> DEFINE new == {}
<1>1. /\ Range(inq'[k]) = Range(inq[k]) \cup new
      /\ Range(unechoed'[k]) = Range(unechoed[k]) \cup new
      /\ \A m \in new : m.from = TheApp => m.id = conv'[k] /\ app'[k] = "sent"
  OBVIOUS
<1> HIDE DEF new
<1> QED BY <1>1, PipeGrows

(* What was there before a step, and what it then still means.             *)
LEMMA OldMessage ==
  ASSUME VBType, HoldInv, AskInv, PipeInv, [VBNext]_vbVars, NEW k \in Keys,
         NEW m \in Range(inq[k]), m.from = TheApp
  PROVE  Past(k, m.id)' /\ (Settled(k, m.id)' \/ EchoComes(k, m))
<1>1. m.id \in Nat /\ Past(k, m.id) /\ (Settled(k, m.id) \/ EchoComes(k, m))
  BY PipeParts
<1> QED BY <1>1, SettledStays

LEMMA OldReport ==
  ASSUME VBType, HoldInv, AskInv, PipeInv, [VBNext]_vbVars, NEW k \in Keys,
         NEW i \in DOMAIN ev[k], ev[k][i].kind = "report", ev[k][i].of.from = TheApp,
         NEW id, id = ev[k][i].of.id
  PROVE  /\ Past(k, id)'
         /\ ~ev[k][i].early => Settled(k, id)' \/ Behind(ev[k], i)
<1>1. /\ id \in Nat /\ Past(k, id)
      /\ ~ev[k][i].early => Settled(k, id) \/ Behind(ev[k], i)
  BY PipeParts
<1>2. Past(k, id)' /\ (Settled(k, id) => Settled(k, id)')
  BY <1>1, SettledStays
<1> QED BY <1>1, <1>2

(* An event more at the end leaves the others, and what stands before them. *)
LEMMA BehindAppend ==
  ASSUME NEW s \in Seq(Events), NEW e \in Events
  PROVE  /\ DOMAIN Append(s, e) = DOMAIN s \cup {Len(s) + 1}
         /\ \A i \in DOMAIN s : Append(s, e)[i] = s[i] /\ (Behind(s, i) => Behind(Append(s, e), i))
         /\ Append(s, e)[Len(s) + 1] = e
         /\ \A f \in Range(s) : f.kind = "write" /\ f.of = e.of => Behind(Append(s, e), Len(s) + 1)
<1>1. /\ Len(s) \in Nat /\ DOMAIN s = 1 .. Len(s) /\ DOMAIN Append(s, e) = 1 .. Len(s) + 1
      /\ \A i \in 1 .. Len(s) : Append(s, e)[i] = s[i]
      /\ Append(s, e)[Len(s) + 1] = e
  BY RangeAppend
<1> DEFINE t == Append(s, e)
<1> HIDE DEF t
<1>2. ASSUME NEW i \in 1 .. Len(s), Behind(s, i) PROVE Behind(t, i)
  <2>1. PICK j \in 1 .. i - 1 : s[j].kind = "write" /\ s[j].of = s[i].of
    BY <1>2 DEF Behind
  <2>2. j \in 1 .. Len(s)
    BY <1>1
  <2>3. t[j] = s[j] /\ t[i] = s[i]
    BY <1>1, <2>2 DEF t
  <2> QED BY <2>1, <2>3 DEF Behind
<1>3. ASSUME NEW f \in Range(s), f.kind = "write", f.of = e.of PROVE Behind(t, Len(s) + 1)
  <2>1. PICK j \in 1 .. Len(s) : f = s[j]
    BY <1>1 DEF Range
  <2>2. t[j] = s[j] /\ t[Len(s) + 1] = e /\ j \in 1 .. (Len(s) + 1) - 1
    BY <1>1, <2>1 DEF t
  <2> QED BY <1>3, <2>1, <2>2 DEF Behind
<1> QED BY <1>1, <1>2, <1>3 DEF t

LEMMA PipeEchoes ==
  ASSUME VBType, HoldInv, AskInv, PipeInv, NEW k \in Keys, Echoed(k), PipeStep(k)
  PROVE  PipeAt(k)'
<1> DEFINE e == [kind |-> "write", of |-> Head(unechoed[k]), early |-> FALSE]
<1>0. [VBNext]_vbVars
  BY DEF VBNext, Machine
<1>1. /\ unechoed \in [Keys -> Seq(Msgs)] /\ ev \in [Keys -> Seq(Events)] /\ unechoed[k] # << >>
  BY DEF VBType, PipeTypes, Echoed
<1>2. /\ Tail(unechoed[k]) \in Seq(Msgs) /\ Head(unechoed[k]) \in Msgs
      /\ Range(unechoed[k]) = {Head(unechoed[k])} \cup Range(Tail(unechoed[k]))
  BY <1>1, RangeTail
<1>3. e \in Events /\ e.kind = "write" /\ e.of = Head(unechoed[k])
  BY <1>2 DEF Events
<1>4. /\ ev' = [ev EXCEPT ![k] = Append(@, e)]
      /\ unechoed' = [unechoed EXCEPT ![k] = Tail(@)] /\ inq' = inq
  BY DEF Echoed
<1> HIDE DEF e
<1>5. /\ ev'[k] = Append(ev[k], e) /\ unechoed'[k] = Tail(unechoed[k])
      /\ ev[k] \in Seq(Events)
  BY <1>1, <1>4
<1>6. Range(ev'[k]) = Range(ev[k]) \cup {e}
  BY <1>3, <1>5, RangeAppend
<1>7. ASSUME NEW m \in Range(inq'[k]), m.from = TheApp
      PROVE  Past(k, m.id)' /\ (Settled(k, m.id)' \/ EchoComes(k, m)')
  <2>1. m \in Range(inq[k])
    BY <1>4, <1>7
  <2>2. Past(k, m.id)' /\ (Settled(k, m.id)' \/ EchoComes(k, m))
    BY <1>0, <1>7, <2>1, OldMessage
  <2>3. EchoComes(k, m) => EchoComes(k, m)'
    BY <1>2, <1>3, <1>5, <1>6 DEF EchoComes
  <2> QED BY <2>2, <2>3
<1>8. ASSUME NEW i \in DOMAIN ev'[k], ev'[k][i].kind = "report", ev'[k][i].of.from = TheApp,
             NEW id, id = ev'[k][i].of.id
      PROVE  /\ Past(k, id)'
             /\ ~ev'[k][i].early => Settled(k, id)' \/ Behind(ev'[k], i)
  <2>1. /\ i \in DOMAIN ev[k] /\ ev'[k][i] = ev[k][i]
        /\ Behind(ev[k], i) => Behind(ev'[k], i)
    BY <1>3, <1>5, <1>8, BehindAppend
  <2>2. /\ Past(k, id)'
        /\ ~ev[k][i].early => Settled(k, id)' \/ Behind(ev[k], i)
    BY <1>0, <1>8, <2>1, OldReport
  <2> QED BY <2>1, <2>2
<1> QED BY <1>7, <1>8, PipeAtNext

LEMMA PipeAnswers ==
  ASSUME VBType, HoldInv, AskInv, PipeInv, NEW k \in Keys,
         NEW says \in BOOLEAN, KeyAnswers(k, says), PipeStep(k)
  PROVE  PipeAt(k)'
<1> DEFINE h == Head(inq[k])
           e == [kind |-> "report", of |-> h, early |-> Contains(unechoed[k], h)]
<1>0. [VBNext]_vbVars
  BY DEF VBNext, Machine
<1>1. /\ inq \in [Keys -> Seq(Msgs)] /\ ev \in [Keys -> Seq(Events)] /\ inq[k] # << >>
      /\ unechoed[k] \in Seq(Msgs)
  BY DEF VBType, PipeTypes, KeyAnswers
<1>2. h \in Msgs /\ Range(inq[k]) = {h} \cup Range(Tail(inq[k]))
  BY <1>1, RangeTail
<1>3. e \in Events /\ e.kind = "report" /\ e.of = h
  BY <1>2 DEF Events, Contains
<1>4. ~e.early => h \notin Range(unechoed[k])
  <2>1. DOMAIN unechoed[k] = 1 .. Len(unechoed[k])
    BY <1>1
  <2>2. Contains(unechoed[k], h) <=> h \in Range(unechoed[k])
    BY <2>1 DEF Contains, Range
  <2>3. e.early <=> Contains(unechoed[k], h)
    OBVIOUS
  <2> QED BY <2>2, <2>3
<1>5. /\ ev' = IF says THEN [ev EXCEPT ![k] = Append(@, e)] ELSE ev
      /\ inq' = [inq EXCEPT ![k] = Tail(@)] /\ unechoed' = unechoed
  BY DEF KeyAnswers
<1> HIDE DEF h, e
<1>6. /\ ev'[k] = (IF says THEN Append(ev[k], e) ELSE ev[k])
      /\ inq'[k] = Tail(inq[k]) /\ ev[k] \in Seq(Events)
  BY <1>1, <1>5
<1>7. Range(ev[k]) \subseteq Range(ev'[k])
  BY <1>3, <1>6, RangeAppend
<1>8. ASSUME NEW m \in Range(inq'[k]), m.from = TheApp
      PROVE  Past(k, m.id)' /\ (Settled(k, m.id)' \/ EchoComes(k, m)')
  <2>1. m \in Range(inq[k])
    BY <1>2, <1>6, <1>8
  <2>2. Past(k, m.id)' /\ (Settled(k, m.id)' \/ EchoComes(k, m))
    BY <1>0, <1>8, <2>1, OldMessage
  <2>3. EchoComes(k, m) => EchoComes(k, m)'
    BY <1>5, <1>7 DEF EchoComes
  <2> QED BY <2>2, <2>3
<1>9. ASSUME NEW i \in DOMAIN ev'[k], ev'[k][i].kind = "report", ev'[k][i].of.from = TheApp,
             NEW id, id = ev'[k][i].of.id
      PROVE  /\ Past(k, id)'
             /\ ~ev'[k][i].early => Settled(k, id)' \/ Behind(ev'[k], i)
  <2>1. ASSUME i \in DOMAIN ev[k], ev'[k][i] = ev[k][i], Behind(ev[k], i) => Behind(ev'[k], i)
        PROVE  /\ Past(k, id)'
               /\ ~ev'[k][i].early => Settled(k, id)' \/ Behind(ev'[k], i)
    <3>1. /\ Past(k, id)'
          /\ ~ev[k][i].early => Settled(k, id)' \/ Behind(ev[k], i)
      BY <1>0, <1>9, <2>1, OldReport
    <3> QED BY <2>1, <3>1
  <2>2. ASSUME says, i = Len(ev[k]) + 1
        PROVE  /\ Past(k, id)'
               /\ ~ev'[k][i].early => Settled(k, id)' \/ Behind(ev'[k], i)
    <3>1. /\ ev'[k][i] = e
          /\ \A f \in Range(ev[k]) : f.kind = "write" /\ f.of = e.of => Behind(ev'[k], i)
      BY <1>3, <1>6, <2>2, BehindAppend
    <3>2. h \in Range(inq[k]) /\ h.from = TheApp /\ id = h.id
      BY <1>2, <1>3, <1>9, <3>1
    <3>3. Past(k, id)' /\ (Settled(k, id)' \/ EchoComes(k, h))
      <4>1. PICK m \in Range(inq[k]) : m = h
        BY <3>2
      <4>2. Past(k, m.id)' /\ (Settled(k, m.id)' \/ EchoComes(k, m))
        BY <1>0, <3>2, <4>1, OldMessage
      <4>3. id = m.id
        BY <3>2, <4>1
      <4> QED BY <4>1, <4>2, <4>3
    <3>4. ~e.early /\ EchoComes(k, h) => Behind(ev'[k], i)
      BY <1>3, <1>4, <3>1 DEF EchoComes
    <3> QED BY <3>1, <3>3, <3>4
  <2>3. CASE ~says
    BY <1>6, <1>9, <2>1, <2>3
  <2>4. CASE says
    <3>1. i \in DOMAIN ev[k] \/ i = Len(ev[k]) + 1
      BY <1>3, <1>6, <1>9, <2>4, BehindAppend
    <3>2. CASE i \in DOMAIN ev[k]
      BY <1>3, <1>6, <2>1, <2>4, <3>2, BehindAppend
    <3> QED BY <2>2, <2>4, <3>1, <3>2
  <2> QED BY <2>3, <2>4
<1> QED BY <1>8, <1>9, PipeAtNext

(* The echo of the app's write takes the key from the computer, or passes  *)
(* for an echo of one.                                                     *)
LEMMA EchoSettles ==
  ASSUME VBType, NEW k \in Keys, Delivered(k), Head(ev[k]).kind = "write",
         Head(ev[k]).of.from = TheApp, NEW id, id = Head(ev[k]).of.id
  PROVE  Settled(k, id)'
<1>1. boundTo' = boundTo
  BY DEF Delivered
<1>2. CASE boundTo # k
  BY <1>1, <1>2 DEF Settled
<1>3. CASE boundTo = k
  <2>1. Heard(Head(ev[k]))
    BY <1>3 DEF Delivered
  <2>2. owner' = None \/ mistaken' = mistaken \cup {id}
    BY <2>1 DEF Heard
  <2> QED BY <2>2 DEF Settled
<1> QED BY <1>2, <1>3

LEMMA PipeDelivers ==
  ASSUME VBType, HoldInv, AskInv, PipeInv, NEW k \in Keys, Delivered(k)
  PROVE  PipeAt(k)'
<1>0. [VBNext]_vbVars
  BY DEF VBNext, Machine
<1>1. /\ ev \in [Keys -> Seq(Events)] /\ ev[k] # << >> /\ ev' = [ev EXCEPT ![k] = Tail(@)]
      /\ UNCHANGED <<inq, unechoed>>
  BY DEF VBType, PipeTypes, Delivered
<1>2. /\ Range(ev[k]) = {Head(ev[k])} \cup Range(Tail(ev[k]))
      /\ Len(ev[k]) \in Nat \ {0} /\ Head(ev[k]) = ev[k][1]
      /\ Tail(ev[k]) \in Seq(Events) /\ Len(Tail(ev[k])) = Len(ev[k]) - 1
      /\ \A i \in 1 .. Len(ev[k]) - 1 : Tail(ev[k])[i] = ev[k][i + 1]
  BY <1>1, RangeTail
<1>3. ev'[k] = Tail(ev[k]) /\ DOMAIN ev'[k] = 1 .. Len(ev[k]) - 1 /\ DOMAIN ev[k] = 1 .. Len(ev[k])
  <2>1. ev'[k] = Tail(ev[k])
    BY <1>1
  <2>2. DOMAIN Tail(ev[k]) = 1 .. Len(ev[k]) - 1
    BY <1>2
  <2>3. DOMAIN ev[k] = 1 .. Len(ev[k])
    BY <1>1
  <2> QED BY <2>1, <2>2, <2>3
<1>4. ASSUME NEW m \in Range(inq'[k]), m.from = TheApp
      PROVE  Past(k, m.id)' /\ (Settled(k, m.id)' \/ EchoComes(k, m)')
  <2>1. m \in Range(inq[k])
    BY <1>1, <1>4
  <2>2. Past(k, m.id)' /\ (Settled(k, m.id)' \/ EchoComes(k, m))
    BY <1>0, <1>4, <2>1, OldMessage
  <2>3. CASE Head(ev[k]).kind = "write" /\ Head(ev[k]).of = m
    <3>1. Settled(k, m.id)'
      BY <1>4, <2>3, EchoSettles
    <3> QED BY <2>2, <3>1
  <2>4. CASE ~(Head(ev[k]).kind = "write" /\ Head(ev[k]).of = m)
    <3>1. EchoComes(k, m) => EchoComes(k, m)'
      BY <1>1, <1>2, <1>3, <2>4 DEF EchoComes
    <3> QED BY <2>2, <3>1
  <2> QED BY <2>3, <2>4
<1>5. ASSUME NEW i \in DOMAIN ev'[k], ev'[k][i].kind = "report", ev'[k][i].of.from = TheApp,
             NEW id, id = ev'[k][i].of.id
      PROVE  /\ Past(k, id)'
             /\ ~ev'[k][i].early => Settled(k, id)' \/ Behind(ev'[k], i)
  <2>1. i \in 1 .. Len(ev[k]) - 1 /\ i + 1 \in DOMAIN ev[k] /\ ev'[k][i] = ev[k][i + 1]
    BY <1>2, <1>3
  <2>2. /\ Past(k, id)'
        /\ ~ev[k][i + 1].early => Settled(k, id)' \/ Behind(ev[k], i + 1)
    BY <1>0, <1>5, <2>1, OldReport
  <2>3. ASSUME Behind(ev[k], i + 1) PROVE Settled(k, id)' \/ Behind(ev'[k], i)
    <3>1. PICK j \in 1 .. (i + 1) - 1 : ev[k][j].kind = "write" /\ ev[k][j].of = ev[k][i + 1].of
      BY <2>3 DEF Behind
    <3>2. CASE j = 1
      <4>1. /\ Head(ev[k]).kind = "write" /\ Head(ev[k]).of.from = TheApp
            /\ id = Head(ev[k]).of.id
        BY <1>2, <1>5, <2>1, <3>1, <3>2
      <4> QED BY <4>1, EchoSettles
    <3>3. CASE j # 1
      <4>1. j - 1 \in 1 .. i - 1 /\ j - 1 \in 1 .. Len(ev[k]) - 1 /\ (j - 1) + 1 = j
        BY <2>1, <3>1, <3>3
      <4>2. ev'[k][j - 1] = ev[k][j]
        BY <1>2, <1>3, <4>1
      <4>3. ev'[k][j - 1].kind = "write" /\ ev'[k][j - 1].of = ev'[k][i].of
        BY <2>1, <3>1, <4>2
      <4> QED BY <4>1, <4>3 DEF Behind
    <3> QED BY <3>2, <3>3
  <2> QED BY <2>1, <2>2, <2>3
<1> QED BY <1>4, <1>5, PipeAtNext

(* Any other key's pipe stays as it is.                                    *)
LEMMA PipeSteps ==
  ASSUME VBType, HoldInv, AskInv, PipeInv, NEW k \in Keys, PipeStep(k) \/ Delivered(k)
  PROVE  PipeInv'
<1>0. [VBNext]_vbVars
  BY DEF VBNext, Machine
<1>1. PipeAt(k)'
  <2>1. CASE Delivered(k)
    BY <2>1, PipeDelivers
  <2>2. CASE PipeStep(k)
    <3>1. ASSUME KeyWaits(k) PROVE PipeAt(k)'
      BY <1>0, <3>1, PipeSame DEF KeyWaits
    <3> QED BY <2>2, <3>1, PipeEchoes, PipeAnswers DEF PipeStep
  <2> QED BY <2>1, <2>2
<1>2. ASSUME NEW l \in Keys, l # k PROVE PipeAt(l)'
  <2>1. /\ ev \in [Keys -> Seq(Events)] /\ inq \in [Keys -> Seq(Msgs)]
        /\ unechoed \in [Keys -> Seq(Msgs)]
    BY DEF VBType, PipeTypes
  <2>2. ev'[l] = ev[l] /\ inq'[l] = inq[l] /\ unechoed'[l] = unechoed[l]
    <3>1. CASE Delivered(k)
      BY <1>2, <2>1, <3>1 DEF Delivered
    <3>2. CASE Echoed(k)
      BY <1>2, <2>1, <3>2 DEF Echoed
    <3>3. CASE KeyWaits(k)
      BY <3>3 DEF KeyWaits
    <3>4. ASSUME NEW says \in BOOLEAN, KeyAnswers(k, says)
          PROVE  ev'[l] = ev[l] /\ inq'[l] = inq[l] /\ unechoed'[l] = unechoed[l]
      BY <1>2, <2>1, <3>4 DEF KeyAnswers
    <3> QED BY <3>1, <3>2, <3>3, <3>4 DEF PipeStep
  <2> QED BY <1>0, <2>2, PipeSame
<1>3. \A l \in Keys : PipeAt(l)'
  BY <1>1, <1>2
<1> QED BY <1>3, PipeNext

(* A write that is the computers', or the app's in its own turn.           *)
LEMMA PipeWrites ==
  ASSUME VBType, HoldInv, AskInv, PipeInv, [VBNext]_vbVars, NEW ws, Len(ws) \in Nat,
         \A i \in 1 .. Len(ws) : Report(ws[i]) \in Msgs, Written(ws), ev' = ev,
         \A i \in 1 .. Len(ws) : \A k \in Keys : ws[i].from = TheApp /\ ws[i].key = k =>
           ws[i].id = conv'[k] /\ app'[k] = "sent"
  PROVE  PipeInv'
<1>1. ASSUME NEW k \in Keys PROVE PipeAt(k)'
  <2>1. PICK new \in SUBSET ReportsFor(k, ws) :
          /\ Range(inq'[k]) = Range(inq[k]) \cup new
          /\ Range(unechoed'[k]) = Range(unechoed[k]) \cup new
    BY WrittenAdds DEF VBType
  <2>2. ASSUME NEW m \in new, m.from = TheApp PROVE m.id = conv'[k] /\ app'[k] = "sent"
    <3>1. PICK i \in 1 .. Len(ws) : ws[i].key = k /\ m = Report(ws[i])
      BY DEF ReportsFor
    <3>2. m.from = ws[i].from /\ m.id = ws[i].id
      BY <3>1 DEF Report
    <3> QED BY <2>2, <3>1, <3>2
  <2>3. ev'[k] = ev[k]
    OBVIOUS
  <2> QED BY <2>1, <2>2, <2>3, PipeGrows
<1> QED BY <1>1, PipeNext

LEMMA PipeStill ==
  ASSUME VBType, HoldInv, AskInv, PipeInv, [VBNext]_vbVars, UNCHANGED <<ev, inq, unechoed>>
  PROVE  PipeInv'
<1>1. \A k \in Keys : PipeAt(k)'
  BY PipeSame
<1> QED BY <1>1, PipeNext

LEMMA PipeInit == VBInit => PipeInv
<1> SUFFICES ASSUME VBInit PROVE PipeInv
  OBVIOUS
<1>1. \A k \in Keys : inq[k] = << >> /\ ev[k] = << >>
  BY DEF VBInit
<1>2. DOMAIN << >> = {} /\ Range(<< >>) = {}
  BY DEF Range
<1> QED BY <1>1, <1>2, PipeWhole DEF PipeAt

LEMMA PipeKept ==
  VBType /\ HoldInv /\ AskInv /\ PipeInv /\ [VBNext]_vbVars => PipeInv'
<1> SUFFICES ASSUME VBType, HoldInv, AskInv, PipeInv, [VBNext]_vbVars PROVE PipeInv'
  OBVIOUS
<1>1. CASE Person \/ Timers
  <2>1. UNCHANGED <<ev, inq, unechoed>>
    BY <1>1 DEF Person, Timers, Turn, StopBridge, AppAsks, TimerFires, AskAnswered, pipeVars
  <2> QED BY <2>1, PipeStill
<1>2. ASSUME NEW c \in Computers, NEW what \in Contents, OnRequest(c, what) PROVE PipeInv'
  <2>1. UNCHANGED <<ev, inq, unechoed>>
    BY <1>2 DEF OnRequest, pipeVars
  <2> QED BY <2>1, PipeStill
<1>3. ASSUME NEW c \in Computers, NEW what \in Contents, OnRequestHeld(c, what)
      PROVE  PipeInv'
  <2> DEFINE ws == <<[from |-> c, key |-> key, what |-> what, id |-> 0]>>
  <2>1. Written(ws) /\ ev' = ev
    BY <1>3 DEF OnRequestHeld
  <2>2. Len(ws) = 1 /\ Report(ws[1]) \in Msgs /\ ws[1].from = c
    BY DEF Report, Msgs
  <2>3. c # TheApp
    BY NamesAssumption
  <2> HIDE DEF ws
  <2> QED BY <2>1, <2>2, <2>3, PipeWrites
<1>4. ASSUME NEW k \in Keys, LaneTurn(k) PROVE PipeInv'
  <2>1. ev' = ev
    BY <1>4 DEF LaneTurn
  <2>2. CASE Head(lane[k].wait) = "bridge"
    <3>1. Written(waits)
      BY <1>4, <2>2 DEF LaneTurn, forward
    <3>2. /\ Len(waits) \in Nat
          /\ \A i \in 1 .. Len(waits) : waits[i] \in Waiting /\ Report(waits[i]) \in Msgs
      BY WaitsTyped
    <3>3. \A i \in 1 .. Len(waits) : waits[i].from # TheApp
      BY <3>2, NamesAssumption DEF Waiting
    <3> QED BY <2>1, <3>1, <3>2, <3>3, PipeWrites
  <2>3. CASE Head(lane[k].wait) # "bridge"
    <3>1. UNCHANGED <<inq, unechoed>>
      BY <1>4, <2>3 DEF LaneTurn
    <3> QED BY <2>1, <3>1, PipeStill
  <2> QED BY <2>2, <2>3
<1>5. ASSUME NEW k \in Keys, NEW what \in Asked, AppWrites(k, what) PROVE PipeInv'
  <2> DEFINE ws == <<[from |-> TheApp, key |-> k, what |-> what, id |-> conv[k]]>>
  <2>1. /\ Written(ws) /\ ev' = ev /\ conv' = conv /\ app' = [app EXCEPT ![k] = "sent"]
    BY <1>5 DEF AppWrites, countVars
  <2>2. app'[k] = "sent"
    BY <2>1 DEF VBType, LaneTypes
  <2>3. Len(ws) = 1 /\ Report(ws[1]) \in Msgs /\ ws[1].id = conv[k] /\ ws[1].key = k
    BY DEF Report, Msgs, VBType, LaneTypes
  <2> HIDE DEF ws
  <2> QED BY <2>1, <2>2, <2>3, PipeWrites
<1>6. ASSUME NEW k \in Keys, AppLeaves(k) PROVE PipeInv'
  BY <1>6, PipeStill DEF AppLeaves, pipeVars
<1>7. CASE UNCHANGED vbVars
  BY <1>7, PipeStill DEF vbVars, pipeVars
<1>8. CASE Computer
  BY <1>2, <1>3, <1>8 DEF Computer
<1>9. CASE Machine
  BY <1>4, <1>5, <1>6, <1>9, PipeSteps DEF Machine, AppStep
<1> QED BY <1>1, <1>7, <1>8, <1>9 DEF VBNext

(* What is pushed of the app's answers to a computer has a reason.         *)
LEMMA LeakKept ==
  VBType /\ PipeInv /\ LeaksHaveAReason /\ [VBNext]_vbVars => LeaksHaveAReason'
<1> SUFFICES ASSUME VBType, PipeInv, LeaksHaveAReason, [VBNext]_vbVars
             PROVE  LeaksHaveAReason'
  OBVIOUS
<1>1. ASSUME NEW k \in Keys, Delivered(k) PROVE LeaksHaveAReason'
  <2> DEFINE e == Head(ev[k])
  <2>1. CASE boundTo # k \/ e.kind = "write"
    <3>1. leaks' = leaks
      BY <1>1, <2>1 DEF Delivered, Heard
    <3> QED BY <3>1 DEF LeaksHaveAReason
  <2>2. CASE boundTo = k /\ e.kind # "write"
    <3>1. leaks' = IF owner # None /\ Allowed(owner) /\ e.of.from = TheApp
                   THEN leaks \cup {Reasons(k, e)} ELSE leaks
      BY <1>1, <2>2 DEF Delivered, Reported
    <3>2. ev[k] \in Seq(Events) /\ ev[k] # << >>
      BY <1>1 DEF VBType, PipeTypes, Delivered
    <3>3. e = ev[k][1] /\ 1 \in DOMAIN ev[k] /\ e \in Events
      BY <3>2, RangeTail
    <3> HIDE DEF e
    <3>4. e.kind = "report"
      BY <2>2, <3>3 DEF Events
    <3>5. ~Behind(ev[k], 1)
      BY DEF Behind
    <3>6. SUFFICES ASSUME owner # None, e.of.from = TheApp, Reasons(k, e) = {} PROVE FALSE
      BY <3>1 DEF LeaksHaveAReason
    <3>7. ~e.early
      BY <3>6 DEF Reasons
    <3>8. e.of.id \notin mistaken
      BY <3>6 DEF Reasons
    <3>9. app[k] = "sent" /\ e.of.id = conv[k]
      BY <3>6 DEF Reasons
    <3>10. ~strayed
      BY <3>6 DEF Reasons
    <3>11. Settled(k, e.of.id)
      BY <3>3, <3>4, <3>5, <3>6, <3>7, PipeParts
    <3> QED BY <2>2, <3>6, <3>8, <3>9, <3>10, <3>11 DEF Settled
  <2> QED BY <2>1, <2>2
<1>2. ASSUME leaks' = leaks PROVE LeaksHaveAReason'
  BY <1>2 DEF LeaksHaveAReason
<1>3. CASE Person \/ Timers \/ UNCHANGED vbVars
  BY <1>2, <1>3 DEF Person, Timers, Turn, StopBridge, AppAsks, TimerFires, AskAnswered,
                    vbVars, pastVars
<1>4. CASE Computer
  BY <1>2, <1>4 DEF Computer, OnRequest, OnRequestHeld, pastVars
<1>5. ASSUME NEW k \in Keys, LaneTurn(k) \/ AppStep(k) \/ PipeStep(k) PROVE LeaksHaveAReason'
  BY <1>2, <1>5 DEF LaneTurn, AppStep, AppWrites, AppLeaves, PipeStep, pastVars
<1> QED BY <1>1, <1>3, <1>4, <1>5 DEF VBNext, Machine

(* An answer to the app's own request goes to a computer only if it        *)
(* overtook its echo, its echo passed for a computer's, the app had given  *)
(* it up, or a write strayed.                                              *)
THEOREM LeaksAreExplained == VBSpec => []LeaksHaveAReason
<1>1. VBInit => LeaksHaveAReason
  BY DEF VBInit, LeaksHaveAReason
<1> QED BY AskInit, AskKept, PipeInit, PipeKept, LeakKept, BooksAlways, <1>1, PTL DEF VBSpec
=============================================================================
