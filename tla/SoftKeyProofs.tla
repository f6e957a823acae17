--------------------------- MODULE SoftKeyProofs ---------------------------
(* The ways to the soft key: the ring of okemu_press.cpp is the first-in first- *)
(* out queue of PressFifo; counted holds stay apart and a press handed to the   *)
(* loop is served (TouchSense); reports come before the presses that answer     *)
(* them, and a run of digits that was waited for is taken (HalPipe).            *)
EXTENDS TouchSense, HalPipe, SequenceTheorems, FiniteSetTheorems,
        WellFoundedInduction, TLAPS

(* The ring *)

\* Going round: a slot number below Cap is itself, one past the end starts over.
LEMMA Wrap ==
  /\ \A a \in 0..(Cap - 1) : Slot(a) = a
  /\ \A a \in Cap..(2 * Cap - 1) : Slot(a) = a - Cap
  /\ \A a \in Nat : Slot(a) \in 0..(Cap - 1)
<1>1. \A a \in 0..(Cap - 1) : Slot(a) = a
  BY CapAssumption DEF Slot
<1>2. \A a \in Cap..(2 * Cap - 1) : Slot(a) = a - Cap
  BY CapAssumption DEF Slot
<1>3. \A a \in Nat : Slot(a) \in 0..(Cap - 1)
  BY CapAssumption DEF Slot
<1> QED BY <1>1, <1>2, <1>3

\* The k-th slot from h, and from the slot after h.
LEMMA NextSlot ==
  ASSUME NEW h \in 0..(Cap - 1), NEW k \in 0..(Cap - 1)
  PROVE  /\ Slot(h + k) \in 0..(Cap - 1)
         /\ Slot(Slot(h + 1) + k) = Slot(h + (k + 1))
         /\ Slot(h + (k + 1)) = Slot(Slot(h + k) + 1)
<1> DEFINE a == Slot(h + 1)
           b == Slot(h + k)
<1>1. a = IF h + 1 < Cap THEN h + 1 ELSE h + 1 - Cap
  BY CapAssumption, Wrap
<1>2. b = IF h + k < Cap THEN h + k ELSE h + k - Cap
  BY CapAssumption, Wrap
<1>3. h + (k + 1) \in 0..(2 * Cap - 1)
  BY CapAssumption
<1>4. Slot(h + (k + 1)) = IF h + (k + 1) < Cap THEN h + (k + 1) ELSE h + (k + 1) - Cap
  BY <1>3, CapAssumption, Wrap
<1>5. Slot(a + k) = Slot(h + (k + 1))
  <2>1. a \in 0..(Cap - 1) /\ a + k \in 0..(2 * Cap - 1)
    BY <1>1, CapAssumption
  <2>2. Slot(a + k) = IF a + k < Cap THEN a + k ELSE a + k - Cap
    BY <2>1, CapAssumption, Wrap
  <2> HIDE DEF a
  <2> QED BY <1>1, <1>4, <2>1, <2>2, CapAssumption
<1>6. Slot(h + (k + 1)) = Slot(b + 1)
  <2>1. b \in 0..(Cap - 1) /\ b + 1 \in 0..(2 * Cap - 1)
    BY <1>2, CapAssumption
  <2>2. Slot(b + 1) = IF b + 1 < Cap THEN b + 1 ELSE b + 1 - Cap
    BY <2>1, CapAssumption, Wrap
  <2> HIDE DEF b
  <2> QED BY <1>2, <1>4, <2>1, <2>2, CapAssumption
<1>7. b \in 0..(Cap - 1)
  BY CapAssumption, Wrap
<1> QED BY <1>5, <1>6, <1>7

\* A sequence is the function of its elements.
LEMMA SeqIsFunction ==
  ASSUME NEW S, NEW s \in Seq(S), NEW n, Len(s) = n
  PROVE  s = [i \in 1..n |-> s[i]]
<1>1. s \in [1..Len(s) -> S]
  BY LenProperties
<1> QED BY <1>1

\* Slots fewer than Cap apart are different slots.
LEMMA OtherSlot ==
  ASSUME NEW h \in 0..(Cap - 1), NEW j \in 0..(Cap - 1), NEW k \in 0..(Cap - 1), j # k
  PROVE  Slot(h + j) # Slot(h + k)
<1>1. Slot(h + j) = IF h + j < Cap THEN h + j ELSE h + j - Cap
  BY CapAssumption, Wrap
<1>2. Slot(h + k) = IF h + k < Cap THEN h + k ELSE h + k - Cap
  BY CapAssumption, Wrap
<1> QED BY <1>1, <1>2, CapAssumption

-----------------------------------------------------------------------------
LEMMA RingInit == PQInit => RingOK
<1> SUFFICES ASSUME PQInit PROVE RingOK
  OBVIOUS
<1>1. Slot(0 + 0) = 0
  BY CapAssumption, Wrap
<1> QED BY <1>1, CapAssumption, RunsAssumption DEF PQInit, RingOK

LEMMA RingStep == RingOK /\ [PQNext]_pqVars => RingOK'
<1> SUFFICES ASSUME RingOK, [PQNext]_pqVars PROVE RingOK'
  OBVIOUS
<1> USE CapAssumption
<1>1. CASE Call
  BY <1>1, RunsAssumption DEF Call, Queue, RingOK
<1>2. CASE Store
  <2>1. /\ head \in 0..(Cap - 1) /\ count \in 0..(Cap - 1)
        /\ tail = Slot(head + count) /\ tail \in 0..(Cap - 1)
    BY <1>2 DEF Store, RingOK
  <2>2. tail' = Slot(head + (count + 1)) /\ tail' \in 0..(Cap - 1)
    <3>1. Slot(head + (count + 1)) = Slot(Slot(head + count) + 1)
      BY <2>1, NextSlot
    <3>2. tail' = Slot(tail + 1) /\ tail + 1 \in Nat
      BY <1>2, <2>1 DEF Store
    <3>3. Slot(tail + 1) \in 0..(Cap - 1)
      BY <3>2, Wrap
    <3> QED BY <2>1, <3>1, <3>2, <3>3
  <2>3. \A i \in 0..count : q'[Slot(head + i)] \in Press
    <3> SUFFICES ASSUME NEW i \in 0..count PROVE q'[Slot(head + i)] \in Press
      OBVIOUS
    <3>0. i \in 0..(Cap - 1)
      BY <2>1
    <3>1. Slot(head + i) \in 0..(Cap - 1)
      BY <2>1, <3>0, NextSlot
    <3>2. CASE i = count
      BY <1>2, <2>1, <3>1, <3>2 DEF Store, RingOK
    <3>3. CASE i # count
      <4>1. Slot(head + i) # Slot(head + count)
        BY <2>1, <3>0, <3>3, OtherSlot
      <4>2. q'[Slot(head + i)] = q[Slot(head + i)]
        BY <1>2, <2>1, <3>1, <4>1 DEF Store, RingOK
      <4>3. i \in 0..(count - 1)
        BY <2>1, <3>3
      <4> QED BY <4>2, <4>3 DEF RingOK
    <3> QED BY <3>2, <3>3
  <2>4. q' \in [0..(Cap - 1) -> Press \cup {Blank}]
    BY <1>2 DEF Store, RingOK
  <2>5. run' \in Seq([button : Nat, ticks : Ticks])
    BY <1>2 DEF Store, RingOK
  <2> QED BY <1>2, <2>1, <2>2, <2>3, <2>4, <2>5 DEF Store, RingOK
<1>3. CASE Skip \/ Full
  <2>1. run' \in Seq([button : Nat, ticks : Ticks])
    <3>1. CASE Skip
      BY <3>1, HeadTailProperties DEF Skip, RingOK
    <3>2. CASE Full
      BY <3>2 DEF Full
    <3> QED BY <1>3, <3>1, <3>2
  <2>2. UNCHANGED <<q, head, tail, count, loop>>
    BY <1>3 DEF Skip, Full
  <2> QED BY <2>1, <2>2 DEF RingOK
<1>4. CASE Take
  <2>1. count \in 1..Cap /\ count' \in 0..(Cap - 1) /\ count' = count - 1
    BY <1>4 DEF Take, HandOver, RingOK
  <2>2. \A i \in 0..(count - 1) : Slot(head' + i) = Slot(head + (i + 1))
    BY <1>4, <2>1, NextSlot DEF Take, HandOver, RingOK
  <2>3. head' \in 0..(Cap - 1)
    BY <1>4, Wrap DEF Take, HandOver, RingOK
  <2>4. tail' = Slot(head' + count')
    BY <1>4, <2>1, <2>2 DEF Take, HandOver, RingOK
  <2>5. \A i \in 0..(count' - 1) : q'[Slot(head' + i)] \in Press
    <3> SUFFICES ASSUME NEW i \in 0..(count' - 1) PROVE q'[Slot(head' + i)] \in Press
      OBVIOUS
    <3>1. i \in 0..(count - 1) /\ i + 1 \in 0..(count - 1)
      BY <2>1
    <3>2. q' = q /\ Slot(head' + i) = Slot(head + (i + 1))
      BY <1>4, <2>2, <3>1 DEF Take, HandOver
    <3> QED BY <3>1, <3>2 DEF RingOK
  <2>6. q[head] \in Press
    <3>1. head \in 0..(Cap - 1) /\ head + 0 = head
      BY DEF RingOK
    <3>2. Slot(head + 0) = head
      BY <3>1, Wrap
    <3>3. 0 \in 0..(count - 1)
      BY <2>1
    <3> QED BY <3>2, <3>3 DEF RingOK
  <2>7. \E p \in Press : loop' = <<p>>
    BY <1>4, <2>6 DEF Take
  <2>8. /\ q' \in [0..(Cap - 1) -> Press \cup {Blank}]
        /\ tail' \in 0..(Cap - 1)
        /\ run' \in Seq([button : Nat, ticks : Ticks])
    BY <1>4 DEF Take, HandOver, RingOK
  <2>9. count' \in 0..Cap
    BY <2>1
  <2> QED BY <2>3, <2>4, <2>5, <2>7, <2>8, <2>9 DEF RingOK
<1>5. CASE Dispatch
  BY <1>5 DEF Dispatch, queueVars, RingOK
<1>6. CASE UNCHANGED pqVars
  BY <1>6 DEF pqVars, RingOK
<1> QED BY <1>1, <1>2, <1>3, <1>4, <1>5, <1>6 DEF PQNext

\* The ring's indices and count agree and every slot in use holds a press, at
\* every moment of any interleaving of callers and the firmware loop.
THEOREM RingAlwaysOK == PQSpec => []RingOK
<1>1. PQInit => RingOK
  BY RingInit
<1>2. RingOK /\ [PQNext]_pqVars => RingOK'
  BY RingStep
<1> QED BY <1>1, <1>2, PTL DEF PQSpec
-----------------------------------------------------------------------------
\* What waits is a sequence of count presses.
LEMMA WaitingType ==
  ASSUME RingOK
  PROVE  Waiting \in Seq(Press) /\ Len(Waiting) = count /\ count \in 0..Cap
<1>1. count \in 0..Cap /\ count \in Nat
  BY CapAssumption DEF RingOK
<1>2. ASSUME NEW i \in 1..count PROVE q[Slot(head + i - 1)] \in Press
  <2>1. i - 1 \in 0..(count - 1) /\ head + i - 1 = head + (i - 1)
    BY <1>1 DEF RingOK
  <2> QED BY <2>1 DEF RingOK
<1>3. Waiting \in [1..count -> Press]
  BY <1>2 DEF Waiting
<1> QED BY <1>1, <1>3

LEMMA StorePuts ==
  ASSUME RingOK, Store
  PROVE  \E p \in Press : Fifo!Put(p)
<1> DEFINE p == Head(run)
<1>1. /\ p \in Press /\ loop' = loop
      /\ head' = head /\ count' = count + 1
      /\ q' = [q EXCEPT ![tail] = p]
  BY DEF Store
<1>2. /\ head \in 0..(Cap - 1) /\ count \in 0..(Cap - 1)
      /\ tail = Slot(head + count) /\ tail \in 0..(Cap - 1)
      /\ DOMAIN q = 0..(Cap - 1)
  BY CapAssumption DEF Store, RingOK
<1>3. Waiting \in Seq(Press) /\ Len(Waiting) = count
  BY WaitingType
<1> HIDE DEF p
<1>4. ASSUME NEW i \in 1..(count + 1)
      PROVE  q'[Slot(head + i - 1)] = IF i \in 1..count THEN Waiting[i] ELSE p
  <2>1. i - 1 \in 0..(Cap - 1) /\ head + i - 1 = head + (i - 1)
    BY <1>2, CapAssumption
  <2>2. Slot(head + i - 1) \in 0..(Cap - 1)
    BY <1>2, <2>1, NextSlot
  <2>3. CASE i = count + 1
    <3>1. Slot(head + i - 1) = tail
      BY <1>2, <2>1, <2>3
    <3> QED BY <1>1, <1>2, <2>3, <3>1
  <2>4. CASE i # count + 1
    <3>1. i \in 1..count /\ i - 1 # count
      BY <1>2, <2>4
    <3>2. Slot(head + i - 1) # tail
      BY <1>2, <2>1, <3>1, OtherSlot
    <3> QED BY <1>1, <1>2, <2>2, <3>1, <3>2 DEF Waiting
  <2> QED BY <2>3, <2>4
<1>5. Waiting' = [i \in 1..(count + 1) |-> q'[Slot(head + i - 1)]]
  BY <1>1 DEF Waiting
<1>6. /\ Append(Waiting, p) \in Seq(Press) /\ Len(Append(Waiting, p)) = count + 1
      /\ \A i \in 1..count : Append(Waiting, p)[i] = Waiting[i]
      /\ Append(Waiting, p)[count + 1] = p
  BY <1>1, <1>3, AppendProperties
<1>7. Waiting' = Append(Waiting, p)
  <2>1. ASSUME NEW i \in 1..(count + 1) PROVE Waiting'[i] = Append(Waiting, p)[i]
    <3>1. count \in Nat
      BY <1>2, CapAssumption
    <3>2. Waiting'[i] = q'[Slot(head + i - 1)]
      BY <1>5
    <3>3. CASE i \in 1..count
      BY <3>2, <3>3, <1>4, <1>6
    <3>4. CASE i \notin 1..count
      <4>1. i = count + 1
        BY <3>1, <3>4
      <4> QED BY <3>2, <3>4, <4>1, <1>4, <1>6
    <3> QED BY <3>3, <3>4
  <2>2. Append(Waiting, p) = [i \in 1..(count + 1) |-> Append(Waiting, p)[i]]
    BY <1>6, SeqIsFunction
  <2> QED BY <1>5, <2>1, <2>2
<1>8. Len(Waiting) < Cap
  BY <1>2, <1>3, CapAssumption
<1> QED BY <1>1, <1>7, <1>8 DEF Fifo!Put

LEMMA TakeHands ==
  ASSUME RingOK, Take
  PROVE  Fifo!Hand
<1>1. /\ loop = <<>> /\ loop' = <<q[head]>> /\ q' = q
      /\ head' = Slot(head + 1) /\ count' = count - 1
  BY DEF Take, HandOver
<1>2. head \in 0..(Cap - 1) /\ count \in 1..Cap
  BY CapAssumption DEF Take, HandOver, RingOK
<1>3. Waiting \in Seq(Press) /\ Len(Waiting) = count
  BY WaitingType
<1>4. Waiting # <<>> /\ Head(Waiting) = Waiting[1]
  BY <1>2, <1>3
<1>5. Waiting[1] = q[head]
  <2>1. head + 1 - 1 = head /\ 1 \in 1..count
    BY <1>2
  <2>2. Slot(head) = head
    BY <1>2, Wrap
  <2> QED BY <2>1, <2>2 DEF Waiting
<1>6. Tail(Waiting) = [i \in 1..(count - 1) |-> Waiting[i + 1]]
  <2>1. /\ Tail(Waiting) \in Seq(Press) /\ Len(Tail(Waiting)) = count - 1
        /\ \A i \in 1..(count - 1) : Tail(Waiting)[i] = Waiting[i + 1]
    BY <1>3, <1>4, HeadTailProperties
  <2>2. Tail(Waiting) = [i \in 1..(count - 1) |-> Tail(Waiting)[i]]
    BY <2>1, SeqIsFunction
  <2> QED BY <2>1, <2>2
<1>7. ASSUME NEW i \in 1..(count - 1)
      PROVE  q'[Slot(head' + i - 1)] = Waiting[i + 1]
  <2>1. i - 1 \in 0..(Cap - 1) /\ i + 1 \in 1..count /\ (i - 1) + 1 = i
    BY <1>2, CapAssumption
  <2>2. Slot(Slot(head + 1) + (i - 1)) = Slot(head + i)
    BY <1>2, <2>1, NextSlot
  <2>3. Slot(head + 1) \in 0..(Cap - 1)
    BY <1>2, Wrap
  <2>4. Slot(head + 1) + i - 1 = Slot(head + 1) + (i - 1) /\ head + (i + 1) - 1 = head + i
    BY <1>2, <2>1, <2>3
  <2> QED BY <1>1, <2>1, <2>2, <2>4 DEF Waiting
<1>8. Waiting' = [i \in 1..(count - 1) |-> q'[Slot(head' + i - 1)]]
  BY <1>1 DEF Waiting
<1>9. Waiting' = Tail(Waiting)
  BY <1>6, <1>7, <1>8
<1> QED BY <1>1, <1>4, <1>5, <1>9 DEF Fifo!Hand

\* A queued press is never lost, repeated or overtaken: the ring, whatever its
\* size and whatever runs its callers store, behaves as the bounded queue of
\* PressFifo. okemu_press_queue and okemu_press_take implement Put and Hand.
THEOREM RingIsFifo == PQSpec => FifoSpec
<1>1. PQInit => Fifo!Init
  <2> SUFFICES ASSUME PQInit PROVE Fifo!Init
    OBVIOUS
  <2>1. Waiting = [i \in 1..0 |-> q[Slot(head + i - 1)]]
    BY DEF PQInit, Waiting
  <2>2. Waiting = <<>>
    BY <2>1
  <2> QED BY <2>2 DEF PQInit, Fifo!Init
<1>2. RingOK /\ [PQNext]_pqVars => [Fifo!Next]_(Fifo!vars)
  <2> SUFFICES ASSUME RingOK, [PQNext]_pqVars PROVE [Fifo!Next]_(Fifo!vars)
    OBVIOUS
  <2>1. CASE Call \/ Skip \/ Full
    BY <2>1 DEF Call, Queue, Skip, Full, Waiting, Fifo!vars
  <2>2. CASE Store
    BY <2>2, StorePuts DEF Fifo!Next
  <2>3. CASE Take
    BY <2>3, TakeHands DEF Fifo!Next
  <2>4. CASE Dispatch
    <3>1. loop # <<>> /\ loop' = <<>> /\ Waiting' = Waiting
      BY <2>4 DEF Dispatch, queueVars, Waiting
    <3> QED BY <3>1 DEF Fifo!Next, Fifo!Use
  <2>5. CASE UNCHANGED pqVars
    BY <2>5 DEF pqVars, Waiting, Fifo!vars
  <2> QED BY <2>1, <2>2, <2>3, <2>4, <2>5 DEF PQNext
<1> QED BY <1>1, <1>2, RingAlwaysOK, PTL DEF PQSpec, FifoSpec, Fifo!Spec

-----------------------------------------------------------------------------
(* Holds and handed presses, until one may have run into another            *)

\* A press of whichever origin.
Shape == [button : Nat, ticks : Nat]
Untouched == [b \in Pads |-> 0]

QueueType ==
  /\ q \in [0..(Cap - 1) -> Shape]
  /\ head \in 0..(Cap - 1) /\ tail \in 0..(Cap - 1) /\ count \in Nat
  /\ run \in Seq(Shape) /\ loop \in Seq(Shape)

SenseType ==
  /\ ticks \in [Pads -> Nat] /\ seen \subseteq Pads
  /\ stage \in {"read", "sense", "busy", "ended"}
  /\ selected \in Nat /\ key_on \in Nat /\ key_off \in Nat /\ since \in Nat
  /\ injected \in BOOLEAN

HistType ==
  /\ asked \in Seq(Holds)
  /\ handed \in Seq(Shape) /\ sensed \in Seq(Shape) /\ dequeued \in Seq(Shape)

TouchType == QueueType /\ SenseType /\ HistType

\* No round is counted before settleRelease waits for it.
IdleClock == phase # "settling" => since = 0

\* No hold is under way: payload() was given every one, nothing is left of it,
\* and what the loop has is from the queue.
Free ==
  /\ ticks = Untouched /\ seen = {} /\ key_on = 0
  /\ Len(sensed) = Len(asked)
  /\ injected <=> loop # <<>>

\* The last hold is being sensed: its samples are owed or counted, all but the
\* one that ages in the round it was armed in.
Held ==
  /\ ticks[LastAsked.button] > 0
  /\ \A c \in Pads : c # LastAsked.button => ticks[c] = 0
  /\ seen \subseteq {LastAsked.button}
  /\ loop = <<>> /\ Len(sensed) = Len(asked) - 1
  /\ key_on > 0 => selected = LastAsked.button
  /\ \/ key_on = 0 /\ ticks[LastAsked.button] = LastAsked.ticks
     \/ key_on + ticks[LastAsked.button] \in {LastAsked.ticks - 1, LastAsked.ticks}
        /\ (stage = "sense" => LastAsked.button \in seen \cup {LastPad})

\* All its samples are counted; the loop waits for the third idle round, which
\* settleRelease has therefore not seen.
Ending ==
  /\ ticks = Untouched /\ seen = {}
  /\ key_on \in {LastAsked.ticks - 1, LastAsked.ticks} /\ selected = LastAsked.button
  /\ loop = <<>> \/ loop = <<[button |-> LastAsked.button, ticks |-> key_on]>>
  /\ key_off <= 2
  /\ running /\ phase = "settling" => since <= key_off
  /\ Len(sensed) = Len(asked) - 1

\* The app waits for the hold, and nothing is queued beside it.
Waited ==
  /\ asked # <<>>
  /\ count = 0 /\ run = <<>> /\ ~injected
  /\ running => phase # "idle"

InProgress ==
  /\ Waited
  /\ Held \/ Ending
  /\ running /\ phase \in {"released", "settling"} => Ending

\* Every press on its own.
Apart == (Free \/ InProgress) /\ AsAsked /\ InOrder

\* The invariant the next lemmas keep.
TouchInv == TouchType /\ IdleClock /\ (crossed = {} => Apart)

\* No hold, no press.
LEMMA TouchInit == TSInit => TouchInv
<1> SUFFICES ASSUME TSInit PROVE TouchInv
  OBVIOUS
<1> USE DEF TSInit, PQInit
<1>1. TouchType
  <2>1. QueueType
    BY CapAssumption DEF QueueType, Shape, Blank
  <2>2. SenseType
    BY DEF SenseType, Pads
  <2>3. HistType
    BY DEF HistType
  <2> QED BY <2>1, <2>2, <2>3 DEF TouchType
<1>2. Free /\ IdleClock
  BY DEF Free, IdleClock, Untouched
<1>3. AsAsked /\ InOrder
  BY DEF AsAsked, InOrder
<1> QED BY <1>1, <1>2, <1>3 DEF TouchInv, Apart

-----------------------------------------------------------------------------
\* Appending is joining with a sequence of one.
LEMMA OneMore ==
  ASSUME NEW S, NEW s \in Seq(S), NEW e \in S
  PROVE  Append(s, e) = s \o <<e>>
OBVIOUS

\* A hold is long enough to be a press, though it reads one sample less.
LEMMA LastHoldType ==
  ASSUME asked \in Seq(Holds), asked # <<>>
  PROVE  /\ LastAsked \in Holds /\ LastAsked.button \in Pads /\ LastAsked.ticks \in Nat
         /\ LastAsked.ticks > Threshold + 1 /\ Threshold \in Nat
         /\ Len(asked) \in DOMAIN asked
BY HoldsAssumption DEF LastAsked, Pads

\* What a round computes has the types of the firmware's statics.
LEMMA RoundType ==
  ASSUME TouchType
  PROVE  /\ OffAfter \in Nat /\ OnAfter \in Nat /\ SelectedAfter \in Nat
         /\ Aged \in [Pads -> Nat] /\ PressAfter \in Seq(Shape) /\ Holding \in Seq(Shape)
         /\ Lesser(since + 1, RELEASE_ROUNDS) \in Nat /\ q[head] \in Shape
<1> USE DEF TouchType
<1>1. OffAfter \in Nat /\ OnAfter \in Nat
  BY DEF OffAfter, OnAfter, Lesser, SenseType
<1>2. Lesser(since + 1, RELEASE_ROUNDS) \in Nat
  BY RoundsAssumption DEF Lesser, SenseType
<1>3. Aged \in [Pads -> Nat]
  BY DEF Aged, SenseType
<1>4. q[head] \in Shape
  BY DEF QueueType
<1>5. Touched \subseteq Pads
  <2>1. LastPad \in Pads /\ seen \subseteq Pads
    BY DEF SenseType, LastPad, Pads
  <2> QED BY <2>1 DEF Touched
<1>6. SelectedAfter \in Nat
  <2>1. CASE Touched = {}
    BY <2>1 DEF SelectedAfter, SenseType
  <2>2. CASE Touched # {}
    <3>1. \E b \in Touched : \A c \in Touched : b <= c
      <4>1. CASE 1 \in Touched
        BY <4>1, <1>5 DEF Pads
      <4>2. CASE 1 \notin Touched /\ 2 \in Touched
        BY <4>2, <1>5 DEF Pads
      <4>3. CASE 1 \notin Touched /\ 2 \notin Touched /\ 3 \in Touched
        BY <4>3, <1>5 DEF Pads
      <4>4. CASE 1 \notin Touched /\ 2 \notin Touched /\ 3 \notin Touched /\ 4 \in Touched
        BY <4>4, <1>5 DEF Pads
      <4>5. CASE Touched \subseteq {5, 6}
        <5>1. CASE 5 \in Touched
          BY <4>5, <5>1
        <5>2. CASE 5 \notin Touched
          <6>1. Touched = {6}
            BY <4>5, <5>2, <2>2
          <6> QED BY <6>1
        <5> QED BY <5>1, <5>2
      <4> QED BY <4>1, <4>2, <4>3, <4>4, <4>5, <1>5 DEF Pads
    <3>2. SelectedAfter \in Touched
      BY <3>1, <2>2 DEF SelectedAfter
    <3> QED BY <3>2, <1>5 DEF Pads
  <2> QED BY <2>1, <2>2
<1>7. PressAfter \in Seq(Shape)
  <2>1. [button |-> selected, ticks |-> key_on] \in Shape
    BY DEF SenseType, Shape
  <2>2. loop \in Seq(Shape) /\ <<[button |-> selected, ticks |-> key_on]>> \in Seq(Shape)
    BY <2>1 DEF QueueType
  <2> QED BY <2>2 DEF PressAfter
<1>8. Holding \in Seq(Shape)
  BY <1>4, <1>7 DEF Holding
<1> QED BY <1>1, <1>2, <1>3, <1>4, <1>6, <1>7, <1>8

\* A slot is one of the ring's.
LEMMA SlotInRing == \A a \in Nat : Slot(a) \in 0..(Cap - 1)
BY CapAssumption DEF Slot

\* No step leaves the types.
LEMMA TypeStep == TouchType /\ [TSNext]_tsVars => TouchType'
<1> SUFFICES ASSUME TouchType, [TSNext]_tsVars PROVE TouchType'
  OBVIOUS
<1> USE DEF TouchType, senseVars, appVars, histVars, pqVars, queueVars
<1>1. ASSUME NEW h \in Holds, Arm(h) PROVE TouchType'
  <2>1. h.button \in Pads /\ h.ticks \in Nat
    BY HoldsAssumption DEF Pads
  <2>2. SenseType'
    BY <1>1, <2>1 DEF Arm, SenseType
  <2>3. QueueType'
    BY <1>1 DEF Arm, QueueType
  <2>4. HistType'
    BY <1>1 DEF Arm, HistType
  <2> QED BY <2>2, <2>3, <2>4
<1>2. CASE HoldOver \/ HoldFails \/ SettleBegins \/ Settled \/ SettleGivesUp \/ Stop
  <2>1. UNCHANGED <<pqVars, senseVars, asked, handed, sensed, dequeued>>
    BY <1>2 DEF HoldOver, HoldFails, SettleBegins, Settled, SettleGivesUp, Stop, HoldReturns
  <2>2. since' = since \/ since' = 0
    BY <1>2 DEF HoldOver, HoldFails, SettleBegins, Settled, SettleGivesUp, Stop, HoldReturns
  <2>3. SenseType'
    BY <2>1, <2>2 DEF SenseType
  <2> QED BY <2>1, <2>3 DEF QueueType, HistType
<1>3. ASSUME NEW r \in Runs, QueueRun(r) PROVE TouchType'
  <2>1. r \in Seq(Shape)
    <3>1. r \in Seq([button : Nat, ticks : Ticks])
      BY RunsAssumption
    <3>2. [button : Nat, ticks : Ticks] \subseteq Shape
      BY RunsAssumption DEF Shape
    <3>3. Len(r) \in Nat /\ DOMAIN r = 1..Len(r) /\ \A i \in 1..Len(r) : r[i] \in Shape
      <4> DEFINE Asked == [button : Nat, ticks : Ticks]
      <4>1. r \in Seq(Asked) /\ Asked \subseteq Shape
        BY <3>1, <3>2
      <4> HIDE DEF Asked
      <4> QED BY ONLY <4>1
    <3>4. r = [i \in 1..Len(r) |-> r[i]]
      BY <3>1
    <3>5. r \in [1..Len(r) -> Shape]
      BY <3>3, <3>4
    <3> QED BY <3>3, <3>5
  <2>2. QueueType'
    BY <1>3, <2>1 DEF QueueRun, Queue, QueueType
  <2> QED BY <1>3, <2>2 DEF QueueRun, SenseType, HistType
<1>4. CASE QueueStep
  <2>1. UNCHANGED <<senseVars, appVars, histVars>>
    BY <1>4 DEF QueueStep
  <2>2. QueueType'
    <3>1. run # <<>> => Head(run) \in Shape /\ Tail(run) \in Seq(Shape)
      BY DEF QueueType
    <3>2. CASE Store
      <4>1. tail + 1 \in Nat /\ q' = [q EXCEPT ![tail] = Head(run)] /\ tail' = Slot(tail + 1)
        BY <3>2, CapAssumption DEF Store, QueueType
      <4>2. tail' \in 0..(Cap - 1)
        BY <4>1, SlotInRing
      <4>3. q' \in [0..(Cap - 1) -> Shape]
        BY <3>1, <3>2, <4>1 DEF Store, QueueType
      <4>4. run' \in Seq(Shape) /\ count' \in Nat /\ UNCHANGED <<head, loop>>
        BY <3>1, <3>2 DEF Store, QueueType
      <4> QED BY <4>2, <4>3, <4>4 DEF QueueType
    <3>3. CASE Skip \/ Full
      <4>1. run # <<>> /\ run' \in {Tail(run), <<>>} /\ UNCHANGED <<q, head, tail, count, loop>>
        BY <3>3 DEF Skip, Full
      <4>2. <<>> \in Seq(Shape)
        OBVIOUS
      <4>3. run' \in Seq(Shape)
        BY <3>1, <4>1, <4>2
      <4> QED BY <4>1, <4>3 DEF QueueType
    <3> QED BY <1>4, <3>2, <3>3 DEF QueueStep
  <2> QED BY <2>1, <2>2 DEF SenseType, HistType
<1>5. CASE ReadPads \/ ServeRequest \/ BackToLoop \/ Unwinds
  <2>1. UNCHANGED <<pqVars, ticks, selected, key_on, key_off, injected, since, histVars>>
    BY <1>5 DEF ReadPads, ServeRequest, BackToLoop, Unwinds, Goes
  <2>2. seen' \subseteq Pads /\ stage' \in {"read", "sense", "busy", "ended"}
    BY <1>5 DEF ReadPads, ServeRequest, BackToLoop, Unwinds, Goes, SenseType
  <2> QED BY <2>1, <2>2 DEF SenseType, HistType, QueueType
<1>6. CASE Sense
  <2>1. UNCHANGED queueVars \/ HandOver
    BY <1>6 DEF Sense, TakeInRound
  <2>0. /\ OffAfter \in Nat /\ OnAfter \in Nat /\ SelectedAfter \in Nat
        /\ Aged \in [Pads -> Nat] /\ PressAfter \in Seq(Shape) /\ Holding \in Seq(Shape)
        /\ Lesser(since + 1, RELEASE_ROUNDS) \in Nat /\ q[head] \in Shape
    BY RoundType
  <2>2. handed' \in Seq(Shape)
    <3>1. handed' = handed \/ handed' = Append(handed, q[head])
      BY <1>6 DEF Sense, TakeInRound
    <3>2. handed \in Seq(Shape)
      BY DEF HistType
    <3>3. Append(handed, q[head]) \in Seq(Shape)
      BY <3>2, <2>0
    <3> QED BY <3>1, <3>2, <3>3
  <2>3. loop' \in Seq(Shape)
    <3>1. loop' = <<>> \/ loop' = Holding
      BY <1>6 DEF Sense, Serve, Wait
    <3>2. <<>> \in Seq(Shape)
      OBVIOUS
    <3> QED BY <3>1, <3>2, <2>0
  <2>4. QueueType'
    <3>1. CASE UNCHANGED queueVars
      BY <3>1, <2>3 DEF QueueType
    <3>2. CASE HandOver
      <4>1. head + 1 \in Nat /\ head' = Slot(head + 1) /\ count' \in Nat
        BY <3>2, CapAssumption DEF HandOver, QueueType
      <4>2. head' \in 0..(Cap - 1)
        BY <4>1, SlotInRing
      <4> QED BY <3>2, <4>1, <4>2, <2>3 DEF HandOver, QueueType
    <3> QED BY <2>1, <3>1, <3>2
  <2>5. sensed' \in Seq(Shape) /\ dequeued' \in Seq(Shape)
    <3>1. sensed' \in {sensed, sensed \o Holding} /\ dequeued' \in {dequeued, dequeued \o Holding}
      BY <1>6 DEF Sense, Serve, Wait
    <3>2. sensed \in Seq(Shape) /\ dequeued \in Seq(Shape)
      BY DEF HistType
    <3>3. sensed \o Holding \in Seq(Shape) /\ dequeued \o Holding \in Seq(Shape)
      BY <3>2, <2>0
    <3> QED BY <3>1, <3>2, <3>3
  <2>6. key_on' \in Nat /\ injected' \in BOOLEAN /\ stage' \in {"read", "sense", "busy", "ended"}
    <3>1. key_on' = 0 \/ key_on' = OnAfter
      BY <1>6 DEF Sense, Serve, Wait
    <3>2. injected' = FALSE \/ injected' = (FromQueue /\ Holding # <<>>)
      BY <1>6 DEF Sense, Serve, Wait
    <3>3. stage' \in {"read", "sense", "busy", "ended"}
      BY <1>6 DEF Sense, Serve, Wait
    <3>4. (FromQueue /\ Holding # <<>>) \in BOOLEAN /\ FALSE \in BOOLEAN
      OBVIOUS
    <3>5. injected' \in BOOLEAN
      BY <3>2, <3>4
    <3> QED BY <3>1, <3>3, <3>5, <2>0
  <2>7. ticks' \in [Pads -> Nat] /\ key_off' \in Nat /\ since' \in Nat /\ selected' \in Nat
    BY <1>6, <2>0 DEF Sense, Shape, SenseType
  <2>8. asked' = asked /\ seen' = {}
    BY <1>6 DEF Sense
  <2> QED BY <2>2, <2>4, <2>5, <2>6, <2>7, <2>8 DEF SenseType, HistType
<1>7. CASE UNCHANGED tsVars
  BY <1>7 DEF tsVars, QueueType, SenseType, HistType
<1> QED BY <1>1, <1>2, <1>3, <1>4, <1>5, <1>6, <1>7 DEF TSNext, App, Firmware

-----------------------------------------------------------------------------
\* A round with no hold under way: what the loop gets comes from the queue.
LEMMA RoundOfTheQueue ==
  ASSUME TouchType, Free, InOrder, Sense
  PROVE  Free' /\ InOrder' /\ UNCHANGED <<asked, sensed>>
<1>1. /\ ticks = Untouched /\ seen = {} /\ key_on = 0 /\ Len(sensed) = Len(asked)
      /\ loop # <<>> => injected
      /\ injected => loop # <<>>
      /\ handed = dequeued \o (IF injected THEN loop ELSE <<>>)
  BY DEF Free, InOrder
<1>2. Touched = {} /\ Aged = Untouched
  <2>1. ticks[LastPad] = 0
    BY <1>1 DEF Untouched, LastPad, Pads
  <2>2. Touched = {}
    BY <1>1, <2>1 DEF Touched
  <2> QED BY <1>1, <2>2 DEF Aged, Untouched
<1>3. PressAfter = loop /\ OnAfter = 0
  BY <1>1, <1>2, HoldsAssumption DEF PressAfter, OnAfter
<1>4. /\ handed \in Seq(Shape) /\ dequeued \in Seq(Shape) /\ loop \in Seq(Shape)
      /\ q[head] \in Shape
  BY RoundType DEF TouchType, HistType, QueueType
<1>5. /\ Handing => Holding = <<q[head]>> /\ loop = <<>> /\ FromQueue
      /\ ~Handing => Holding = loop /\ (FromQueue <=> injected)
  BY <1>1, <1>3 DEF Handing, Holding, FromQueue, InjectedAfter
<1>6. /\ Handing => handed' = Append(handed, q[head])
      /\ ~Handing => handed' = handed
  BY DEF Sense, TakeInRound
<1>7. handed' = dequeued \o Holding
  <2>1. CASE Handing
    <3>1. ~injected /\ handed = dequeued
      BY <2>1, <1>1, <1>4, <1>5
    <3>2. handed' = Append(dequeued, q[head]) /\ Holding = <<q[head]>>
      BY <3>1, <2>1, <1>5, <1>6
    <3>3. Append(dequeued, q[head]) = dequeued \o <<q[head]>>
      BY <1>4, OneMore
    <3> QED BY <3>2, <3>3
  <2>2. CASE ~Handing
    <3>1. CASE injected
      BY <3>1, <2>2, <1>1, <1>5, <1>6
    <3>2. CASE ~injected
      BY <3>2, <2>2, <1>1, <1>5, <1>6
    <3> QED BY <3>1, <3>2
  <2> QED BY <2>1, <2>2
<1>8. Holding # <<>> => FromQueue
  BY <1>1, <1>5
<1>9. /\ ticks' = Untouched /\ seen' = {} /\ asked' = asked
  BY <1>1, <1>2 DEF Sense
<1>10. CASE Serve
  <2>1. /\ dequeued' = dequeued \o Holding /\ sensed' = sensed
        /\ loop' = <<>> /\ injected' = FALSE /\ key_on' = 0
    BY <1>8, <1>10 DEF Serve
  <2>2. handed' = dequeued' \o <<>>
    <3>1. <<q[head]>> \in Seq(Shape)
      BY <1>4
    <3>2. Holding \in Seq(Shape)
      BY <3>1, <1>4, <1>5
    <3>3. dequeued \o Holding \in Seq(Shape)
      BY <3>2, <1>4
    <3> QED BY <3>3, <2>1, <1>7
  <2> QED BY <1>1, <1>9, <2>1, <2>2 DEF Free, InOrder, Untouched
<1>11. CASE Wait
  <2>1. /\ loop' = Holding /\ injected' = (FromQueue /\ Holding # <<>>) /\ key_on' = 0
        /\ UNCHANGED <<sensed, dequeued>>
    BY <1>3, <1>11 DEF Wait
  <2>2. injected' <=> Holding # <<>>
    BY <2>1, <1>8
  <2>3. handed' = dequeued' \o (IF injected' THEN loop' ELSE <<>>)
    BY <2>1, <2>2, <1>7
  <2> QED BY <1>1, <1>9, <2>1, <2>2, <2>3 DEF Free, InOrder, Untouched
<1> QED BY <1>10, <1>11 DEF Sense

-----------------------------------------------------------------------------
\* A round with a hold under way: only what is sensed counts.
LEMMA RoundOfAHold ==
  ASSUME Waited, Sense
  PROVE  /\ stage = "sense" /\ ticks' = Aged /\ seen' = {} /\ key_off' = OffAfter
         /\ selected' = SelectedAfter
         /\ since' = (IF phase = "settling" THEN Lesser(since + 1, RELEASE_ROUNDS) ELSE since)
         /\ UNCHANGED <<phase, asked, running, count, run, handed, dequeued>>
         /\ ~injected'
         /\ IF PressAfter # <<>> /\ OffAfter > 2
            THEN /\ sensed' = sensed \o PressAfter /\ loop' = <<>> /\ key_on' = 0
            ELSE /\ sensed' = sensed /\ loop' = PressAfter /\ key_on' = OnAfter
                 /\ stage' = "read"
<1>1. count = 0 /\ run = <<>> /\ ~injected
  BY DEF Waited
<1>2. ~Handing /\ Holding = PressAfter /\ ~FromQueue
  BY <1>1 DEF Handing, Holding, FromQueue, InjectedAfter
<1>3. UNCHANGED <<count, run, handed>>
  BY <1>2 DEF Sense, TakeInRound, queueVars
<1>4. /\ stage = "sense" /\ ticks' = Aged /\ seen' = {} /\ key_off' = OffAfter
      /\ selected' = SelectedAfter
      /\ since' = (IF phase = "settling" THEN Lesser(since + 1, RELEASE_ROUNDS) ELSE since)
      /\ UNCHANGED <<phase, asked, running>>
  BY <1>2 DEF Sense
<1>5. CASE Serve
  BY <1>2, <1>3, <1>4, <1>5 DEF Serve
<1>6. CASE Wait
  BY <1>2, <1>3, <1>4, <1>6 DEF Wait
<1> QED BY <1>5, <1>6 DEF Sense

\* A round with the hold armed counts a sample, or was read before it was.
LEMMA HeldRound ==
  ASSUME TouchType, Waited, Sense, Held, ~(running /\ phase = "settling")
  PROVE  (Held \/ Ending)' /\ sensed' = sensed
<1> DEFINE h == LastAsked
           b == LastAsked.button
<1>1. /\ h \in Holds /\ b \in Pads /\ h.ticks \in Nat /\ h.ticks > Threshold + 1
      /\ Threshold \in Nat
  BY LastHoldType DEF Waited, TouchType, HistType
<1>2. /\ stage = "sense" /\ ticks' = Aged /\ seen' = {} /\ key_off' = OffAfter
      /\ selected' = SelectedAfter
      /\ UNCHANGED <<phase, asked, running>>
      /\ IF PressAfter # <<>> /\ OffAfter > 2
         THEN /\ sensed' = sensed \o PressAfter /\ loop' = <<>> /\ key_on' = 0
         ELSE /\ sensed' = sensed /\ loop' = PressAfter /\ key_on' = OnAfter
              /\ stage' = "read"
  BY RoundOfAHold
<1>3. LastAsked' = LastAsked
  BY <1>2 DEF LastAsked
<1>4. /\ ticks \in [Pads -> Nat] /\ key_on \in Nat
  BY DEF TouchType, SenseType
<1>5. /\ ticks[b] > 0 /\ \A c \in Pads : c # b => ticks[c] = 0
      /\ seen \subseteq {b} /\ loop = <<>> /\ Len(sensed) = Len(asked) - 1
      /\ key_on > 0 => selected = b
      /\ \/ key_on = 0 /\ ticks[b] = h.ticks
         \/ key_on + ticks[b] \in {h.ticks - 1, h.ticks} /\ b \in seen \cup {LastPad}
  BY <1>2 DEF Held
<1> HIDE DEF h, b
<1>6. /\ Aged[b] = ticks[b] - 1 /\ \A c \in Pads : c # b => Aged[c] = 0
      /\ Aged \in [Pads -> Nat]
  BY <1>1, <1>4, <1>5 DEF Aged
<1>7. ~(PressAfter # <<>> /\ OffAfter > 2) /\ PressAfter = <<>>
  <2>1. CASE Touched # {}
    BY <2>1 DEF PressAfter
  <2>2. CASE Touched = {}
    <3>1. b \notin seen \cup {LastPad}
      BY <1>5, <2>2 DEF Touched
    <3>2. key_on = 0
      BY <3>1, <1>5
    <3>3. ~(key_on > Threshold)
      BY <3>2, <1>1
    <3> QED BY <3>3, <2>2, <1>5 DEF PressAfter
  <2> QED BY <2>1, <2>2
<1>8. sensed' = sensed /\ loop' = <<>> /\ key_on' = OnAfter /\ stage' = "read"
  BY <1>2, <1>7
<1>9. CASE Touched = {}
  <2>1. b \notin seen \cup {LastPad}
    BY <1>5, <1>9 DEF Touched
  <2>2. key_on' = 0 /\ ticks[b] = h.ticks
    BY <2>1, <1>5, <1>8, <1>9 DEF OnAfter
  <2>3. ticks'[b] = h.ticks - 1 /\ ticks'[b] > 0
    BY <2>2, <1>1, <1>2, <1>6
  <2>4. Held'
    BY <2>2, <2>3, <1>1, <1>2, <1>3, <1>5, <1>6, <1>8 DEF Held, h, b
  <2> QED BY <2>4, <1>8
<1>10. CASE Touched # {}
  <2>1. Touched = {b}
    <3>1. {c \in {LastPad} : ticks[c] > 0} \subseteq {b}
      BY <1>5 DEF LastPad, Pads
    <3> QED BY <3>1, <1>5, <1>10 DEF Touched
  <2>2. key_on' = key_on + 1 /\ key_off' = 0
    BY <1>10, <1>8, <1>2 DEF OnAfter, OffAfter
  <2>3. selected' = b
    <3>1. \A c \in {b} : (\A d \in {b} : c <= d) <=> c = b
      BY <1>1 DEF Pads
    <3>2. (CHOOSE c \in {b} : \A d \in {b} : c <= d) = b
      BY <1>1 DEF Pads
    <3> QED BY <3>2, <2>1, <1>2 DEF SelectedAfter
  <2>4. key_on' + ticks'[b] \in {h.ticks - 1, h.ticks}
    <3>1. key_on + ticks[b] \in {h.ticks - 1, h.ticks}
      BY <1>1, <1>4, <1>5
    <3>2. ticks[b] \in Nat /\ ticks'[b] = ticks[b] - 1
      BY <1>1, <1>2, <1>4, <1>6
    <3>3. key_on' + ticks'[b] = key_on + ticks[b]
      BY <3>2, <2>2, <1>4
    <3> QED BY <3>1, <3>3
  <2>5. CASE ticks[b] > 1
    <3>1. ticks'[b] > 0
      BY <2>5, <1>1, <1>2, <1>4, <1>6
    <3> QED BY <3>1, <2>3, <2>4, <1>2, <1>3, <1>5, <1>6, <1>8 DEF Held, h, b
  <2>6. CASE ticks[b] = 1
    <3>1. ticks'[b] = 0
      BY <2>6, <1>1, <1>2, <1>4, <1>6
    <3>2. ticks' = Untouched
      BY <3>1, <1>2, <1>6 DEF Untouched
    <3>3. key_on' \in {h.ticks - 1, h.ticks}
      BY <3>1, <2>2, <2>4, <1>1, <1>4
    <3>5. /\ ticks' = [c \in Pads |-> 0] /\ seen' = {} /\ loop' = <<>>
          /\ key_off' <= 2 /\ Len(sensed') = Len(asked') - 1
          /\ ~(running' /\ phase' = "settling")
      BY <3>2, <2>2, <1>2, <1>5, <1>8 DEF Untouched
    <3>6. /\ key_on' \in {LastAsked'.ticks - 1, LastAsked'.ticks}
          /\ selected' = LastAsked'.button
      BY <3>3, <2>3, <1>3 DEF h, b
    <3>4. Ending'
      BY <3>5, <3>6 DEF Ending, Untouched
    <3> QED BY <3>4, <1>8
  <2> QED BY <2>5, <2>6, <1>1, <1>4, <1>5
<1> QED BY <1>9, <1>10

\* Two idle rounds, and payload() is given the hold in the third.
LEMMA EndingRound ==
  ASSUME TouchType, Waited, Sense, Ending
  PROVE  \/ Ending' /\ sensed' = sensed
         \/ /\ Free'
            /\ sensed' = Append(sensed, [button |-> LastAsked.button, ticks |-> key_on])
<1> DEFINE h == LastAsked
           b == LastAsked.button
           p == <<[button |-> b, ticks |-> key_on]>>
<1>1. /\ h \in Holds /\ b \in Pads /\ h.ticks \in Nat /\ h.ticks > Threshold + 1
      /\ Threshold \in Nat
  BY LastHoldType DEF Waited, TouchType, HistType
<1>2. /\ stage = "sense" /\ ticks' = Aged /\ seen' = {} /\ key_off' = OffAfter
      /\ selected' = SelectedAfter
      /\ since' = (IF phase = "settling" THEN Lesser(since + 1, RELEASE_ROUNDS) ELSE since)
      /\ UNCHANGED <<phase, asked, running>>
      /\ IF PressAfter # <<>> /\ OffAfter > 2
         THEN /\ sensed' = sensed \o PressAfter /\ loop' = <<>> /\ key_on' = 0
         ELSE /\ sensed' = sensed /\ loop' = PressAfter /\ key_on' = OnAfter
              /\ stage' = "read"
  BY RoundOfAHold
<1>3. LastAsked' = LastAsked
  BY <1>2 DEF LastAsked
<1>4. /\ key_on \in Nat /\ key_off \in Nat /\ since \in Nat /\ sensed \in Seq(Shape)
      /\ asked \in Seq(Holds)
  BY DEF TouchType, SenseType, HistType
<1>5. /\ ticks = Untouched /\ seen = {}
      /\ key_on \in {h.ticks - 1, h.ticks} /\ selected = b
      /\ key_off <= 2
      /\ running /\ phase = "settling" => since <= key_off
      /\ Len(sensed) = Len(asked) - 1
  BY DEF Ending
<1> HIDE DEF h, b
<1>6. Touched = {} /\ Aged = Untouched
  <2>1. ticks[LastPad] = 0
    BY <1>5 DEF Untouched, LastPad, Pads
  <2>2. Touched = {}
    BY <1>5, <2>1 DEF Touched
  <2> QED BY <1>5, <2>2 DEF Aged, Untouched
<1>7. PressAfter = p /\ OnAfter = key_on /\ SelectedAfter = b
  <2>1. key_on > Threshold
    BY <1>1, <1>4, <1>5
  <2> QED BY <2>1, <1>5, <1>6 DEF PressAfter, OnAfter, SelectedAfter
<1>8. OffAfter = key_off + 1
  BY <1>4, <1>5, <1>6 DEF OffAfter, Lesser
<1>9. CASE key_off = 2
  <2>1. PressAfter # <<>> /\ OffAfter > 2
    BY <1>7, <1>8, <1>9
  <2>2. sensed' = sensed \o p /\ loop' = <<>> /\ key_on' = 0
    BY <1>2, <1>7, <2>1
  <2>3. [button |-> b, ticks |-> key_on] \in Shape
    BY <1>1, <1>4 DEF Shape, Pads
  <2>4. sensed \o p = Append(sensed, [button |-> b, ticks |-> key_on])
    BY <2>3, <1>4
  <2> HIDE DEF p
  <2>5. Len(sensed') = Len(sensed) + 1
    BY <2>2, <2>3, <2>4, <1>4
  <2>6. Len(sensed') = Len(asked')
    BY <2>5, <1>2, <1>4, <1>5
  <2>7. Free'
    BY <2>2, <2>6, <1>2, <1>6, RoundOfAHold DEF Free, Untouched
  <2> QED BY <2>7, <2>2, <2>4 DEF b
<1>10. CASE key_off # 2
  <2>1. ~(OffAfter > 2) /\ key_off' <= 2
    BY <1>2, <1>4, <1>5, <1>8, <1>10
  <2>2. sensed' = sensed /\ loop' = p /\ key_on' = key_on /\ stage' = "read" /\ selected' = b
    BY <1>2, <1>7, <2>1
  <2>3. since' <= since + 1 /\ key_off' = key_off + 1
    BY <1>2, <1>4, <1>8, RoundsAssumption DEF Lesser
  <2>4. running' /\ phase' = "settling" => since' <= key_off'
    <3>1. since' \in Nat
      BY <1>2, <1>4, RoundType
    <3> QED BY <3>1, <2>3, <1>2, <1>4, <1>5
  <2>5. loop' = <<[button |-> LastAsked'.button, ticks |-> key_on']>>
    BY <2>2, <1>3 DEF b
  <2>6. ticks' = Untouched
    BY <1>2, <1>6
  <2>7. Ending'
    BY <2>1, <2>2, <2>4, <2>5, <2>6, <1>2, <1>3, <1>5 DEF Ending, h, b, Untouched
  <2> QED BY <2>7, <2>2
<1> QED BY <1>9, <1>10

\* One more press, the last hold's: the presses are still those asked for.
LEMMA OneMoreAsked ==
  ASSUME TouchType, asked # <<>>, AsAsked, asked' = asked, Len(sensed) = Len(asked) - 1,
         key_on \in {LastAsked.ticks - 1, LastAsked.ticks},
         sensed' = Append(sensed, [button |-> LastAsked.button, ticks |-> key_on])
  PROVE  AsAsked'
<1> DEFINE n == Len(asked)
           p == [button |-> LastAsked.button, ticks |-> key_on]
<1>1. /\ asked \in Seq(Holds) /\ sensed \in Seq(Shape) /\ key_on \in Nat
      /\ LastAsked.button \in Pads
  BY LastHoldType DEF TouchType, HistType, SenseType
<1>2. Len(sensed) = n - 1 /\ key_on \in {asked[n].ticks - 1, asked[n].ticks}
  BY DEF LastAsked
<1>3. p \in Shape /\ p.button = asked[n].button /\ p.ticks = key_on
  BY <1>1 DEF Shape, Pads, LastAsked
<1>4. sensed' = Append(sensed, p)
  OBVIOUS
<1> HIDE DEF n, p
<1>5. Len(sensed') = n /\ DOMAIN sensed' = 1..n /\ n \in Nat
  BY <1>1, <1>2, <1>3, <1>4 DEF n
<1>6. ASSUME NEW i \in 1..n
      PROVE  /\ sensed'[i].button = asked[i].button
             /\ sensed'[i].ticks \in {asked[i].ticks - 1, asked[i].ticks}
  <2>1. CASE i = n
    <3>1. sensed'[i] = p
      BY <2>1, <1>1, <1>2, <1>3, <1>4, <1>5
    <3> QED BY <3>1, <2>1, <1>2, <1>3
  <2>2. CASE i # n
    <3>1. sensed'[i] = sensed[i] /\ i \in DOMAIN sensed
      BY <2>2, <1>1, <1>2, <1>3, <1>4, <1>5
    <3> QED BY <3>1 DEF AsAsked
  <2> QED BY <2>1, <2>2
<1> QED BY <1>5, <1>6 DEF AsAsked, n

\* Every round keeps the presses apart.
LEMMA SenseStep ==
  ASSUME TouchType, Apart, Sense
  PROVE  Apart'
<1>1. CASE Free
  <2>1. Free' /\ InOrder' /\ UNCHANGED <<asked, sensed>>
    BY <1>1, RoundOfTheQueue DEF Apart
  <2> QED BY <2>1 DEF Apart, AsAsked
<1>2. CASE InProgress
  <2>0. Waited /\ (Held \/ Ending)
        /\ (running /\ phase \in {"released", "settling"} => Ending)
    BY <1>2 DEF InProgress
  <2>1. /\ UNCHANGED <<phase, asked, running, count, run, handed, dequeued>>
        /\ ~injected /\ ~injected'
    BY <2>0, RoundOfAHold DEF Waited
  <2>2. Waited' /\ InOrder'
    BY <2>0, <2>1 DEF Waited, InOrder, Apart
  <2>3. ASSUME Ending' PROVE InProgress'
    BY <2>2, <2>3 DEF InProgress
  <2>4. CASE Ending
    <3>1. CASE Ending' /\ sensed' = sensed
      BY <3>1, <2>1, <2>2, <2>3 DEF Apart, AsAsked
    <3>2. CASE /\ Free'
               /\ sensed' = Append(sensed, [button |-> LastAsked.button, ticks |-> key_on])
      <4>1. asked # <<>> /\ AsAsked
        BY <2>0 DEF Apart, Waited
      <4>2. /\ Len(sensed) = Len(asked) - 1
            /\ key_on \in {LastAsked.ticks - 1, LastAsked.ticks}
        BY <2>4 DEF Ending
      <4>3. AsAsked'
        BY <4>1, <4>2, <3>2, <2>1, OneMoreAsked
      <4> QED BY <4>3, <3>2, <2>2 DEF Apart
    <3> QED BY <2>0, <2>4, EndingRound, <3>1, <3>2
  <2>5. CASE Held /\ ~Ending
    <3>1. ~(running /\ phase \in {"released", "settling"})
      BY <2>0, <2>5
    <3>2. (Held \/ Ending)' /\ sensed' = sensed
      BY <3>1, <2>0, <2>5, HeldRound
    <3>3. InProgress'
      BY <3>1, <3>2, <2>1, <2>2 DEF InProgress
    <3> QED BY <3>2, <3>3, <2>1, <2>2 DEF Apart, AsAsked
  <2> QED BY <2>0, <2>4, <2>5
<1> QED BY <1>1, <1>2 DEF Apart

\* holdTicks arms the next hold: the loop is through with the one before, and
\* with what the queue handed it.
LEMMA ArmStep ==
  ASSUME TouchType, Apart, NEW h \in Holds, Arm(h), crossed' = {}
  PROVE  Apart'
<1>1. /\ running /\ phase = "idle" /\ run = <<>>
      /\ ticks' = [ticks EXCEPT ![h.button] = h.ticks]
      /\ phase' = "armed" /\ asked' = Append(asked, h)
      /\ UNCHANGED <<count, run, loop, seen, stage, selected, key_on, injected,
                     running, handed, sensed, dequeued>>
  BY DEF Arm, Unlocked, pqVars
<1>2. count = 0 /\ ~injected
  BY DEF Arm, Crosses
<1>3. /\ asked \in Seq(Holds) /\ ticks \in [Pads -> Nat] /\ sensed \in Seq(Shape)
  BY DEF TouchType, HistType, SenseType
<1>4. h.button \in Pads /\ h.ticks \in Nat /\ h.ticks > 0
  BY HoldsAssumption DEF Pads
<1>5. /\ asked' \in Seq(Holds) /\ Len(asked') = Len(asked) + 1 /\ asked' # <<>>
      /\ asked'[Len(asked')] = h /\ \A i \in DOMAIN asked : asked'[i] = asked[i]
  BY <1>1, <1>3
<1>6. LastAsked' = h
  BY <1>5 DEF LastAsked
<1>7. /\ ticks = Untouched /\ seen = {} /\ key_on = 0 /\ loop = <<>>
      /\ Len(sensed) = Len(asked)
  BY <1>1, <1>2 DEF Apart, InProgress, Waited, Free
<1>8. Held'
  <2>1. ticks'[h.button] = h.ticks /\ \A c \in Pads : c # h.button => ticks'[c] = 0
    BY <1>1, <1>3, <1>4, <1>7 DEF Untouched
  <2>2. Len(sensed') = Len(asked') - 1
    BY <1>1, <1>3, <1>5, <1>7
  <2> QED BY <2>1, <2>2, <1>1, <1>4, <1>6, <1>7 DEF Held
<1>9. AsAsked'
  <2>1. Len(sensed) <= Len(asked')
    BY <1>3, <1>5, <1>7
  <2>2. ASSUME NEW i \in DOMAIN sensed PROVE asked'[i] = asked[i]
    BY <1>3, <1>5, <1>7
  <2> QED BY <2>1, <2>2, <1>1 DEF Apart, AsAsked
<1>10. InOrder'
  BY <1>1 DEF Apart, InOrder
<1>11. InProgress'
  BY <1>1, <1>2, <1>5, <1>8 DEF InProgress, Waited
<1> QED BY <1>9, <1>10, <1>11 DEF Apart

\* What the hold has come to does not depend on where the app is with it, but
\* for the rounds settleRelease has counted.
LEMMA SameHold ==
  ASSUME UNCHANGED <<ticks, seen, stage, selected, key_on, key_off, loop, asked, sensed>>
  PROVE  /\ Held' <=> Held
         /\ Ending /\ (running' /\ phase' = "settling" => since' <= key_off) => Ending'
<1>1. LastAsked' = LastAsked
  BY DEF LastAsked
<1> QED BY <1>1 DEF Held, Ending, Untouched

\* The app waits for a hold: settleRelease returns no earlier than payload(),
\* unless it gives up.
LEMMA AppStep ==
  ASSUME TouchType, IdleClock, Apart, crossed' = {},
         HoldOver \/ HoldFails \/ SettleBegins \/ Settled \/ SettleGivesUp \/ Stop
  PROVE  Apart'
<1>1. UNCHANGED <<pqVars, senseVars, asked, handed, sensed, dequeued>>
  BY DEF HoldOver, HoldFails, SettleBegins, Settled, SettleGivesUp, Stop, HoldReturns, histVars
<1> USE DEF pqVars, senseVars, appVars, queueVars
<1>2. AsAsked' /\ InOrder'
  BY <1>1 DEF Apart, AsAsked, InOrder
<1>3. CASE Free
  <2>1. Free'
    BY <1>1, <1>3 DEF Free, Untouched
  <2> QED BY <2>1, <1>2 DEF Apart
<1>4. CASE InProgress
  <2>1. /\ Held' <=> Held
        /\ Ending /\ (running' /\ phase' = "settling" => since' <= key_off) => Ending'
    BY <1>1, SameHold
  <2>2. /\ Waited /\ (Held \/ Ending)
        /\ running /\ phase \in {"released", "settling"} => Ending
    BY <1>4 DEF InProgress
  <2>3. /\ LastAsked.button \in Pads /\ key_on \in Nat /\ key_off \in Nat /\ since \in Nat
    BY <2>2, LastHoldType DEF Waited, TouchType, HistType, SenseType
  <2>4. (running' => phase' # "idle") => Waited'
    BY <1>1, <2>2 DEF Waited
  <2>6. ASSUME HoldOver PROVE InProgress'
    <3>1. phase = "armed" /\ phase' = "released" /\ running' = running
          /\ (ticks[LastAsked.button] = 0 \/ ~running)
      BY <2>6 DEF HoldOver
    <3>2. running => ~Held
      BY <3>1, <2>3 DEF Held
    <3> QED BY <3>1, <3>2, <2>1, <2>2, <2>4 DEF InProgress
  <2>7. ~HoldFails
    BY DEF HoldFails, Crosses
  <2>8. ASSUME SettleBegins PROVE InProgress'
    <3>1. phase = "released" /\ phase' = "settling" /\ since' = 0 /\ running' = running
      BY <2>8 DEF SettleBegins, IdleClock
    <3>2. Ending => Ending'
      BY <3>1, <2>1, <2>3
    <3> QED BY <3>1, <3>2, <2>1, <2>2, <2>4 DEF InProgress
  <2>9. ASSUME Settled PROVE InProgress'
    <3>1. /\ phase = "settling" /\ since >= RELEASE_ROUNDS /\ phase' = "idle"
          /\ running' = running
      BY <2>9 DEF Settled, HoldReturns
    <3>2. ~running
      BY <3>1, <2>2, <2>3, RoundsAssumption DEF Ending
    <3> QED BY <3>1, <3>2, <2>1, <2>2, <2>4 DEF InProgress
  <2>10. ~SettleGivesUp
    <3>1. Len(sensed) < Len(asked)
      <4>1. Len(sensed) = Len(asked) - 1
        BY <2>2 DEF Held, Ending
      <4>2. Len(sensed) \in Nat /\ Len(asked) \in Nat
        BY DEF TouchType, HistType
      <4> QED BY <4>1, <4>2
    <3> QED BY <3>1 DEF SettleGivesUp, Crosses
  <2>11. ASSUME Stop PROVE InProgress'
    <3>1. ~running'
      BY <2>11 DEF Stop
    <3> QED BY <3>1, <2>1, <2>2, <2>4 DEF InProgress
  <2>12. InProgress'
    BY <2>6, <2>7, <2>8, <2>9, <2>10, <2>11
  <2> QED BY <2>12, <1>2 DEF Apart
<1> QED BY <1>3, <1>4 DEF Apart

\* A caller's run is stored: no hold is under way.
LEMMA QueueStepKeeps ==
  ASSUME Apart, crossed' = {}, QueueStep \/ \E r \in Runs : QueueRun(r)
  PROVE  Apart'
<1>1. /\ UNCHANGED <<senseVars, asked, handed, sensed, dequeued, loop>>
      /\ Free
  <2>1. CASE QueueStep
    <3>1. run # <<>>
      BY <2>1 DEF QueueStep, Store, Skip, Full
    <3>2. Free
      BY <3>1 DEF Apart, InProgress, Waited
    <3> QED BY <3>2, <2>1 DEF QueueStep, Store, Skip, Full, histVars
  <2>2. CASE \E r \in Runs : QueueRun(r)
    <3>1. running /\ phase = "idle"
      BY <2>2 DEF QueueRun, Crosses
    <3>2. Free
      BY <3>1 DEF Apart, InProgress, Waited
    <3> QED BY <3>2, <2>2 DEF QueueRun, Queue
  <2> QED BY <2>1, <2>2
<1> QED BY <1>1 DEF Apart, Free, AsAsked, InOrder, Untouched, senseVars

\* The first half of a round, and what the thread does outside the rounds.
LEMMA LoopStep ==
  ASSUME TouchType, Apart, ReadPads \/ ServeRequest \/ BackToLoop \/ Unwinds
  PROVE  Apart'
<1>1. UNCHANGED <<pqVars, ticks, selected, key_on, key_off, injected, phase, since,
                  asked, handed, sensed, dequeued, running>>
  BY DEF ReadPads, ServeRequest, BackToLoop, Unwinds, Goes, appVars, histVars
<1> USE DEF pqVars, queueVars
<1>2. ticks = Untouched /\ seen = {} => seen' = {}
  BY DEF ReadPads, ServeRequest, BackToLoop, Unwinds, Goes, Untouched
<1>3. AsAsked' /\ InOrder'
  BY <1>1 DEF Apart, AsAsked, InOrder
<1>4. CASE Free
  <2>1. Free'
    BY <1>1, <1>2, <1>4 DEF Free, Untouched
  <2> QED BY <2>1, <1>3 DEF Apart
<1>5. CASE InProgress
  <2>1. Waited /\ Waited' /\ (Held \/ Ending)
        /\ (running /\ phase \in {"released", "settling"} => Ending)
    BY <1>1, <1>5 DEF InProgress, Waited
  <2>2. LastAsked' = LastAsked /\ LastAsked.button \in Pads
    BY <1>1, <2>1, LastHoldType DEF LastAsked, TouchType, HistType, Waited
  <2>3. Ending => Ending'
    BY <1>1, <1>2, <2>2 DEF Ending, Untouched
  <2>4. Held => Held'
    <3> SUFFICES ASSUME Held PROVE Held'
      OBVIOUS
    <3>1. seen' \subseteq {LastAsked.button}
      BY <2>2 DEF ReadPads, ServeRequest, BackToLoop, Unwinds, Goes, Held
    <3>2. stage' = "sense" => LastAsked.button \in seen' \cup {LastPad}
      BY <2>2 DEF ReadPads, ServeRequest, BackToLoop, Unwinds, Goes, Held
    <3> QED BY <3>1, <3>2, <1>1, <2>2 DEF Held
  <2>5. InProgress'
    BY <2>1, <2>3, <2>4, <1>1 DEF InProgress
  <2> QED BY <2>5, <1>3 DEF Apart
<1> QED BY <1>4, <1>5 DEF Apart

\* The rounds settleRelease counts are counted while it waits.
LEMMA ClockStep == IdleClock /\ [TSNext]_tsVars => IdleClock'
<1> SUFFICES ASSUME IdleClock, [TSNext]_tsVars PROVE IdleClock'
  OBVIOUS
<1> USE DEF IdleClock, appVars
<1>1. CASE \E h \in Holds : Arm(h)
  BY <1>1 DEF Arm
<1>2. CASE HoldOver \/ HoldFails \/ SettleBegins \/ Settled \/ SettleGivesUp \/ Stop
  BY <1>2 DEF HoldOver, HoldFails, SettleBegins, Settled, SettleGivesUp, Stop, HoldReturns
<1>3. CASE QueueStep \/ \E r \in Runs : QueueRun(r)
  BY <1>3 DEF QueueStep, QueueRun
<1>4. CASE ReadPads \/ ServeRequest \/ BackToLoop \/ Unwinds
  BY <1>4 DEF ReadPads, ServeRequest, BackToLoop, Unwinds, Goes
<1>5. CASE Sense
  BY <1>5 DEF Sense
<1>6. CASE UNCHANGED tsVars
  BY <1>6 DEF tsVars
<1> QED BY <1>1, <1>2, <1>3, <1>4, <1>5, <1>6 DEF TSNext, App, Firmware

\* What may have run together is remembered.
LEMMA CrossedStays == [TSNext]_tsVars /\ crossed' = {} => crossed = {}
<1> SUFFICES ASSUME [TSNext]_tsVars, crossed' = {} PROVE crossed = {}
  OBVIOUS
<1> USE DEF Crosses, histVars
<1>1. CASE \E h \in Holds : Arm(h)
  BY <1>1 DEF Arm
<1>2. CASE HoldOver \/ HoldFails \/ SettleBegins \/ Settled \/ SettleGivesUp \/ Stop
  BY <1>2 DEF HoldOver, HoldFails, SettleBegins, Settled, SettleGivesUp, Stop
<1>3. CASE QueueStep \/ \E r \in Runs : QueueRun(r)
  BY <1>3 DEF QueueStep, QueueRun
<1>4. CASE ReadPads \/ ServeRequest \/ BackToLoop \/ Unwinds
  BY <1>4 DEF ReadPads, ServeRequest, BackToLoop, Unwinds, Goes
<1>5. CASE Sense
  BY <1>5 DEF Sense
<1>6. CASE UNCHANGED tsVars
  BY <1>6 DEF tsVars
<1> QED BY <1>1, <1>2, <1>3, <1>4, <1>5, <1>6 DEF TSNext, App, Firmware

\* The inductive step.
LEMMA TouchStep == TouchInv /\ [TSNext]_tsVars => TouchInv'
<1> SUFFICES ASSUME TouchInv, [TSNext]_tsVars, crossed' = {} PROVE Apart'
  BY TypeStep, ClockStep DEF TouchInv
<1>1. TouchType /\ IdleClock /\ Apart
  BY CrossedStays DEF TouchInv
<1>2. CASE \E h \in Holds : Arm(h)
  BY <1>1, <1>2, ArmStep
<1>3. CASE HoldOver \/ HoldFails \/ SettleBegins \/ Settled \/ SettleGivesUp \/ Stop
  BY <1>1, <1>3, AppStep
<1>4. CASE QueueStep \/ \E r \in Runs : QueueRun(r)
  BY <1>1, <1>4, QueueStepKeeps
<1>5. CASE ReadPads \/ ServeRequest \/ BackToLoop \/ Unwinds
  BY <1>1, <1>5, LoopStep
<1>6. CASE Sense
  BY <1>1, <1>6, SenseStep
<1>7. CASE UNCHANGED tsVars
  BY <1>1, <1>7 DEF tsVars, senseVars, appVars, histVars, pqVars, queueVars, Apart, Free,
     InProgress, Waited, Held, Ending, LastAsked, AsAsked, InOrder, Untouched
<1> QED BY <1>2, <1>3, <1>4, <1>5, <1>6, <1>7 DEF TSNext, App, Firmware

\* However the app's polls, queued runs and hosts' requests fall into the rounds
\* of touch_sense_loop, the i-th press payload() is given from the pads is the
\* i-th hold, on its own button and at most one sample short, until holdTicks
\* fails, settleRelease gives up on an unserved press, or a hold and a queued
\* press are under way at once.
THEOREM HoldsDoStayApart == TSSpec => []HoldsStayApart
<1>1. TouchInv => HoldsStayApart
  BY DEF TouchInv, Apart, HoldsStayApart
<1> QED BY <1>1, TouchInit, TouchStep, PTL DEF TSSpec

\* What okemu_press_take handed the loop is given to payload(), in that order,
\* or is what the loop still holds: between holds and after them, until the same
\* three cases.
THEOREM HandedAreServed == TSSpec => []HandedIsServed
<1>1. TouchInv => HandedIsServed
  BY DEF TouchInv, Apart, HandedIsServed
<1> QED BY <1>1, TouchInit, TouchStep, PTL DEF TSSpec

-----------------------------------------------------------------------------
(* The pipe *)

(* Sequences a report or a call leaves.                                    *)
Back(i, k) == IF k < i THEN k ELSE k + 1

LEMMA RemovedAt ==
  ASSUME NEW S, NEW s \in Seq(S), NEW i \in DOMAIN s
  PROVE  /\ RemoveAt(s, i) \in Seq(S)
         /\ DOMAIN RemoveAt(s, i) = 1 .. Len(s) - 1
         /\ \A k \in DOMAIN RemoveAt(s, i) :
              /\ Back(i, k) \in DOMAIN s /\ Back(i, k) # i /\ RemoveAt(s, i)[k] = s[Back(i, k)]
         /\ \A j \in DOMAIN s : j # i => \E k \in DOMAIN RemoveAt(s, i) : Back(i, k) = j
<1> DEFINE a == SubSeq(s, 1, i - 1)
           b == SubSeq(s, i + 1, Len(s))
           r == a \o b
<1>1. Len(s) \in Nat /\ i \in 1 .. Len(s) /\ DOMAIN s = 1 .. Len(s)
  OBVIOUS
<1>2. a \in Seq(S) /\ Len(a) = i - 1 /\ \A k \in 1 .. i - 1 : a[k] = s[k]
  BY <1>1
<1>3. b \in Seq(S) /\ Len(b) = Len(s) - i /\ \A k \in 1 .. Len(s) - i : b[k] = s[k + i]
  BY <1>1
<1>4. RemoveAt(s, i) = r
  BY DEF RemoveAt
<1> HIDE DEF a, b
<1>5. /\ r \in Seq(S) /\ DOMAIN r = 1 .. Len(s) - 1
      /\ \A k \in 1 .. Len(s) - 1 : r[k] = IF k <= i - 1 THEN a[k] ELSE b[k - (i - 1)]
  <2>1. Len(a) + Len(b) = Len(s) - 1
    BY <1>1, <1>2, <1>3
  <2>2. /\ r \in Seq(S) /\ DOMAIN r = 1 .. Len(a) + Len(b)
        /\ \A k \in 1 .. Len(a) + Len(b) : r[k] = IF k <= Len(a) THEN a[k] ELSE b[k - Len(a)]
    <3>1. a \in Seq(S) /\ b \in Seq(S)
      BY <1>2, <1>3
    <3> HIDE DEF a, b
    <3>2. Len(a \o b) = Len(a) + Len(b) /\ DOMAIN (a \o b) = 1 .. Len(a \o b)
      BY <3>1
    <3> QED BY <3>1, <3>2, ConcatProperties
  <2>3. Len(a) = i - 1
    BY <1>2
  <2> QED BY <2>1, <2>2, <2>3, Zenon
<1> HIDE DEF r
<1>6. ASSUME NEW k \in 1 .. Len(s) - 1
      PROVE  Back(i, k) \in DOMAIN s /\ Back(i, k) # i /\ r[k] = s[Back(i, k)]
  <2>1. CASE k < i
    <3>1. k \in 1 .. i - 1 /\ k <= i - 1 /\ k \in DOMAIN s
      BY <1>1, <2>1
    <3> QED BY <1>1, <1>2, <1>5, <2>1, <3>1 DEF Back
  <2>2. CASE ~(k < i)
    <3>1. k - (i - 1) \in 1 .. Len(s) - i /\ (k - (i - 1)) + i = k + 1
      BY <1>1, <2>2
    <3>2. ~(k <= i - 1) /\ k + 1 \in DOMAIN s /\ k + 1 # i
      BY <1>1, <2>2
    <3>3. b[k - (i - 1)] = s[k + 1]
      BY <1>3, <3>1
    <3> QED BY <1>5, <2>2, <3>2, <3>3 DEF Back
  <2> QED BY <2>1, <2>2
<1>7. ASSUME NEW j \in DOMAIN s, j # i PROVE \E k \in 1 .. Len(s) - 1 : Back(i, k) = j
  <2>1. CASE j < i
    BY <1>1, <1>7, <2>1 DEF Back
  <2>2. CASE ~(j < i)
    <3>1. j - 1 \in 1 .. Len(s) - 1 /\ Back(i, j - 1) = j
      BY <1>1, <1>7, <2>2 DEF Back
    <3> QED BY <3>1
  <2> QED BY <2>1, <2>2
<1> QED BY <1>4, <1>5, <1>6, <1>7

LEMMA BackApart ==
  ASSUME NEW i \in Nat, NEW k \in Nat, NEW l \in Nat, k # l
  PROVE  Back(i, k) # Back(i, l)
BY DEF Back

-----------------------------------------------------------------------------
Calls == [caller : Callers \cup {"nobody"}, kind : {"fido", "vendor", "presses", "stop"}, id : Nat]
Reports == [caller : Callers \cup {"nobody"}, kind : {"fido", "vendor"}, id : Nat]

PipeType ==
  /\ calls \in Seq(Calls) /\ hid_in \in Seq(Reports)
  /\ vendor_pushed \in Nat /\ vendor_taken \in Nat /\ ticket \in Nat
  /\ called \in Nat /\ inTime \subseteq 1 .. called

(* Who is where.  A call and a report have numbers of their own; only the  *)
(* vendor write the executor waits with is a call and a report at once.    *)
Numbered ==
  /\ \A i \in DOMAIN calls : calls[i].kind # "stop" => calls[i].id \in 1 .. called
  /\ \A i, j \in DOMAIN calls : calls[i].kind # "stop" /\ calls[j].kind # "stop" /\ i # j => calls[i].id # calls[j].id
  /\ \A i \in DOMAIN hid_in : hid_in[i].id \in 1 .. called
  /\ \A i, j \in DOMAIN hid_in : i # j => hid_in[i].id # hid_in[j].id
NotYetInTime ==
  /\ \A i \in DOMAIN calls : calls[i].kind # "stop" => calls[i].id \notin inTime
  /\ \A i \in DOMAIN hid_in : hid_in[i].id \notin inTime
WrittenOnce ==
  \A i \in DOMAIN calls : \A j \in DOMAIN hid_in :
    calls[i].kind # "stop" /\ calls[i].id = hid_in[j].id => i = 1 /\ ticket # 0 /\ hid_in[j].kind = "vendor"

(* The two counters: what was pushed and not taken is in the queue.        *)
VendorIds == {hid_in[i].id : i \in {j \in DOMAIN hid_in : hid_in[j].kind = "vendor"}}
Counted ==
  /\ IsFiniteSet(VendorIds) /\ Cardinality(VendorIds) + vendor_taken = vendor_pushed
  /\ ticket # 0 => ticket = vendor_pushed /\ calls # <<>> /\ Head(calls).kind = "vendor"

PipeInv == PipeType /\ Numbered /\ NotYetInTime /\ WrittenOnce /\ Counted /\ ReportsComeFirst

LEMMA PipeInit == HPInit => PipeInv
<1> SUFFICES ASSUME HPInit PROVE PipeInv
  OBVIOUS
<1>1. /\ calls = <<>> /\ hid_in = <<>> /\ ticket = 0 /\ vendor_pushed = 0 /\ vendor_taken = 0
      /\ called = 0 /\ inTime = {} /\ overtaken = FALSE
  BY DEF HPInit
<1>2. VendorIds = {}
  BY <1>1 DEF VendorIds
<1>3. IsFiniteSet(VendorIds) /\ Cardinality(VendorIds) = 0
  BY <1>2, FS_EmptySet
<1> QED BY <1>1, <1>3 DEF PipeInv, PipeType, Numbered, NotYetInTime, WrittenOnce, Counted, ReportsComeFirst

(* The head of the executor's queue.                                       *)
LEMMA FirstCall ==
  ASSUME PipeType, calls # <<>>
  PROVE  /\ 1 \in DOMAIN calls /\ Head(calls) = calls[1] /\ calls[1] \in Calls
         /\ Tail(calls) \in Seq(Calls)
         /\ \A i \in DOMAIN Tail(calls) : i + 1 \in DOMAIN calls /\ i + 1 # 1 /\ i \in Nat /\ Tail(calls)[i] = calls[i + 1]
<1>1. calls \in Seq(Calls) /\ Len(calls) \in Nat /\ Len(calls) > 0 /\ DOMAIN calls = 1 .. Len(calls)
  BY DEF PipeType
<1>2. Tail(calls) \in Seq(Calls) /\ Len(Tail(calls)) = Len(calls) - 1 /\ DOMAIN Tail(calls) = 1 .. Len(Tail(calls))
  BY <1>1
<1>3. ASSUME NEW i \in DOMAIN Tail(calls)
      PROVE  i + 1 \in DOMAIN calls /\ i + 1 # 1 /\ i \in Nat /\ Tail(calls)[i] = calls[i + 1]
  BY <1>1, <1>2
<1> QED BY <1>1, <1>2, <1>3

(* A call is answered, or the key stopped; the report queues as they are,  *)
(* or with a report of the call's own that nobody waits for.               *)
LEMMA CallLeaves ==
  ASSUME PipeInv, calls # <<>>, calls' = Tail(calls), ticket' = 0,
         UNCHANGED <<hid_in, vendor_pushed, vendor_taken, called, overtaken>>,
         \/ inTime' = inTime
         \/ /\ inTime' = inTime \cup {Head(calls).id} /\ Head(calls).kind # "stop"
            /\ \A j \in DOMAIN hid_in : hid_in[j].id # Head(calls).id
  PROVE  PipeInv'
<1>0. PipeType /\ Numbered /\ NotYetInTime /\ WrittenOnce /\ Counted /\ ReportsComeFirst
  BY DEF PipeInv
<1>1. /\ 1 \in DOMAIN calls /\ Head(calls) = calls[1] /\ calls[1] \in Calls
      /\ calls' \in Seq(Calls)
      /\ \A i \in DOMAIN calls' : i + 1 \in DOMAIN calls /\ i + 1 # 1 /\ i \in Nat /\ calls'[i] = calls[i + 1]
  BY <1>0, FirstCall
<1>2. PipeType'
  <2>1. Head(calls).kind # "stop" => Head(calls).id \in 1 .. called
    BY <1>0, <1>1 DEF Numbered
  <2>2. inTime' \subseteq 1 .. called'
    BY <2>1, <1>0 DEF PipeType
  <2> QED BY <2>2, <1>0, <1>1 DEF PipeType
<1>3. Numbered'
  <2>1. \A i, j \in DOMAIN calls' : i # j => i + 1 # j + 1
    BY <1>1
  <2> QED BY <1>0, <1>1, <2>1 DEF Numbered
<1>4. NotYetInTime'
  BY <1>0, <1>1 DEF NotYetInTime, Numbered
<1>5. WrittenOnce'
  BY <1>0, <1>1 DEF WrittenOnce
<1>6. Counted' /\ ReportsComeFirst'
  BY <1>0 DEF Counted, VendorIds, ReportsComeFirst
<1> QED BY <1>2, <1>3, <1>4, <1>5, <1>6 DEF PipeInv

(* A call joins the executor's queue.                                      *)
LEMMA CallJoins ==
  ASSUME PipeInv, NEW call \in Calls, calls' = Append(calls, call),
         UNCHANGED <<hid_in, vendor_pushed, vendor_taken, ticket, inTime, overtaken>>,
         \/ call.kind = "stop" /\ called' = called
         \/ call.id = called + 1 /\ called' = called + 1
  PROVE  PipeInv'
<1> DEFINE n == Len(calls) + 1
<1>0. PipeType /\ Numbered /\ NotYetInTime /\ WrittenOnce /\ Counted /\ ReportsComeFirst
  BY DEF PipeInv
<1>1. /\ calls \in Seq(Calls) /\ calls' \in Seq(Calls) /\ DOMAIN calls' = 1 .. n /\ DOMAIN calls = 1 .. Len(calls)
      /\ calls'[n] = call /\ \A i \in DOMAIN calls : calls'[i] = calls[i] /\ i # n /\ i \in DOMAIN calls'
      /\ Len(calls) \in Nat
  BY <1>0 DEF PipeType
<1>2. \A i \in DOMAIN calls' : i \in DOMAIN calls \/ i = n
  BY <1>1
<1> HIDE DEF n
<1>3. called \in Nat /\ called' \in Nat /\ \A k \in 1 .. called : k \in 1 .. called' /\ k # called + 1
  BY <1>0 DEF PipeType
<1>4. call.kind # "stop" => call.id \in 1 .. called' /\ call.id \notin 1 .. called
  BY <1>3
<1>5. PipeType'
  BY <1>0, <1>1, <1>3 DEF PipeType
<1>6. Numbered'
  <2>1. \A i \in DOMAIN calls' : calls'[i].kind # "stop" => calls'[i].id \in 1 .. called'
    BY <1>0, <1>1, <1>2, <1>3, <1>4 DEF Numbered
  <2>2. \A i, j \in DOMAIN calls' : calls'[i].kind # "stop" /\ calls'[j].kind # "stop" /\ i # j =>
          calls'[i].id # calls'[j].id
    BY <1>0, <1>1, <1>2, <1>4 DEF Numbered
  <2> QED BY <1>0, <1>3, <2>1, <2>2 DEF Numbered
<1>7. NotYetInTime'
  BY <1>0, <1>1, <1>2, <1>4 DEF NotYetInTime, PipeType
<1>8. WrittenOnce'
  BY <1>0, <1>1, <1>2, <1>4 DEF WrittenOnce, Numbered
<1>9. Counted' /\ ReportsComeFirst'
  <2>1. ticket # 0 => calls' # <<>> /\ Head(calls') = Head(calls)
    BY <1>0, <1>1 DEF Counted
  <2> QED BY <1>0, <2>1 DEF Counted, VendorIds, ReportsComeFirst
<1> QED BY <1>5, <1>6, <1>7, <1>8, <1>9 DEF PipeInv

(* The call at the head hands its report over; a FIDO report's call is     *)
(* answered with that, a vendor report's waits for its ticket.             *)
LEMMA Delivered ==
  ASSUME PipeInv, ticket = 0, calls # <<>>, Head(calls).kind \in {"fido", "vendor"},
         hid_in' = Append(hid_in, Head(calls)),
         UNCHANGED <<vendor_taken, called, inTime, overtaken>>,
         \/ Head(calls).kind = "fido" /\ calls' = Tail(calls) /\ UNCHANGED <<vendor_pushed, ticket>>
         \/ /\ Head(calls).kind = "vendor" /\ calls' = calls
            /\ vendor_pushed' = vendor_pushed + 1 /\ ticket' = vendor_pushed'
  PROVE  PipeInv'
<1> DEFINE n == Len(hid_in) + 1
           rep == Head(calls)
<1>0. PipeType /\ Numbered /\ NotYetInTime /\ WrittenOnce /\ Counted /\ ReportsComeFirst
  BY DEF PipeInv
<1>1. /\ 1 \in DOMAIN calls /\ rep = calls[1] /\ rep \in Calls
      /\ Tail(calls) \in Seq(Calls)
      /\ \A i \in DOMAIN Tail(calls) : i + 1 \in DOMAIN calls /\ i + 1 # 1 /\ i \in Nat /\ Tail(calls)[i] = calls[i + 1]
  BY <1>0, FirstCall
<1>2. rep \in Reports /\ rep.kind # "stop" /\ rep.id \in 1 .. called /\ rep.id \notin inTime
  BY <1>0, <1>1 DEF Calls, Reports, Numbered, NotYetInTime
<1>3. \A j \in DOMAIN hid_in : hid_in[j].id # rep.id
  BY <1>0, <1>1, <1>2 DEF WrittenOnce
<1> HIDE DEF rep
<1>4. hid_in' = Append(hid_in, rep)
  BY DEF rep
<1>5. /\ hid_in \in Seq(Reports) /\ hid_in' \in Seq(Reports) /\ DOMAIN hid_in' = 1 .. n /\ DOMAIN hid_in = 1 .. Len(hid_in)
      /\ hid_in'[n] = rep /\ n \in DOMAIN hid_in'
      /\ \A i \in DOMAIN hid_in : hid_in'[i] = hid_in[i] /\ i # n /\ i \in DOMAIN hid_in'
  BY <1>0, <1>2, <1>4 DEF PipeType
<1>6. \A i \in DOMAIN hid_in' : i \in DOMAIN hid_in \/ i = n
  BY <1>5
<1> HIDE DEF n
<1>7. PipeType'
  <2>1. calls' \in Seq(Calls)
    BY <1>0, <1>1 DEF PipeType
  <2>2. vendor_pushed' \in Nat /\ ticket' \in Nat
    BY <1>0 DEF PipeType
  <2> QED BY <1>0, <1>5, <2>1, <2>2 DEF PipeType
<1>8. \A i \in DOMAIN calls' : \E j \in DOMAIN calls : calls'[i] = calls[j] /\ (calls' = calls => i = j) /\ (calls' # calls => j = i + 1)
  BY <1>1
<1>9. Numbered'
  <2>1. \A i \in DOMAIN calls' : calls'[i].kind # "stop" => calls'[i].id \in 1 .. called
    BY <1>0, <1>8 DEF Numbered
  <2>2. \A i, j \in DOMAIN calls' : calls'[i].kind # "stop" /\ calls'[j].kind # "stop" /\ i # j =>
          calls'[i].id # calls'[j].id
    <3>1. CASE calls' = calls
      BY <1>0, <3>1 DEF Numbered
    <3>2. CASE calls' = Tail(calls)
      <4>1. \A i, j \in DOMAIN calls' : i # j => i + 1 # j + 1
        BY <1>1, <3>2
      <4> QED BY <1>0, <1>1, <3>2, <4>1 DEF Numbered
    <3> QED BY <3>1, <3>2
  <2>3. \A i \in DOMAIN hid_in' : hid_in'[i].id \in 1 .. called
    BY <1>0, <1>2, <1>5, <1>6 DEF Numbered
  <2>4. \A i, j \in DOMAIN hid_in' : i # j => hid_in'[i].id # hid_in'[j].id
    BY <1>0, <1>3, <1>5, <1>6 DEF Numbered
  <2> QED BY <2>1, <2>2, <2>3, <2>4 DEF Numbered
<1>10. NotYetInTime'
  BY <1>0, <1>2, <1>5, <1>6, <1>8 DEF NotYetInTime
<1>11. VendorIds' = IF rep.kind = "vendor" THEN VendorIds \cup {rep.id} ELSE VendorIds
  <2>1. \A x : x \in VendorIds' => x \in VendorIds \/ (rep.kind = "vendor" /\ x = rep.id)
    BY <1>5, <1>6 DEF VendorIds
  <2>2. \A x : x \in VendorIds \/ (rep.kind = "vendor" /\ x = rep.id) => x \in VendorIds'
    BY <1>5 DEF VendorIds
  <2> QED BY <2>1, <2>2
<1>12. rep.id \notin VendorIds
  BY <1>3 DEF VendorIds
<1>13. CASE rep.kind = "fido"
  <2>1. calls' = Tail(calls) /\ UNCHANGED <<vendor_pushed, ticket>>
    BY <1>13 DEF rep
  <2>2. Counted'
    BY <1>0, <1>11, <1>13, <2>1 DEF Counted
  <2>3. WrittenOnce'
    <3> SUFFICES ASSUME NEW i \in DOMAIN calls', NEW j \in DOMAIN hid_in', calls'[i].kind # "stop"
                 PROVE  calls'[i].id # hid_in'[j].id
      BY DEF WrittenOnce
    <3>1. i + 1 \in DOMAIN calls /\ i + 1 # 1 /\ calls'[i] = calls[i + 1]
      BY <1>1, <2>1
    <3>2. CASE j = n
      BY <1>0, <1>1, <1>2, <1>5, <3>1, <3>2 DEF Numbered
    <3>3. CASE j \in DOMAIN hid_in
      BY <1>0, <1>5, <3>1, <3>3 DEF WrittenOnce
    <3> QED BY <1>6, <3>2, <3>3
  <2> QED BY <1>0, <1>7, <1>9, <1>10, <2>2, <2>3 DEF PipeInv, ReportsComeFirst
<1>14. CASE rep.kind = "vendor"
  <2>1. calls' = calls /\ vendor_pushed' = vendor_pushed + 1 /\ ticket' = vendor_pushed + 1
    BY <1>14 DEF rep
  <2>2. Counted'
    <3>1. VendorIds' = VendorIds \cup {rep.id}
      BY <1>11, <1>14
    <3>2. IsFiniteSet(VendorIds') /\ Cardinality(VendorIds') = Cardinality(VendorIds) + 1
      BY <1>0, <1>12, <3>1, FS_AddElement DEF Counted
    <3>3. Cardinality(VendorIds) \in Nat
      BY <1>0, FS_CardinalityType DEF Counted
    <3> QED BY <1>0, <1>14, <2>1, <3>2, <3>3 DEF Counted, PipeType, rep
  <2>3. WrittenOnce'
    <3> SUFFICES ASSUME NEW i \in DOMAIN calls, NEW j \in DOMAIN hid_in', calls[i].kind # "stop",
                        calls[i].id = hid_in'[j].id
                 PROVE  i = 1 /\ ticket' # 0 /\ hid_in'[j].kind = "vendor"
      BY <2>1 DEF WrittenOnce
    <3>1. ticket' # 0
      BY <1>0, <2>1 DEF PipeType
    <3>2. CASE j = n
      BY <1>0, <1>1, <1>2, <1>5, <1>14, <3>1, <3>2 DEF Numbered
    <3>3. CASE j \in DOMAIN hid_in
      BY <1>0, <1>5, <3>3 DEF WrittenOnce
    <3> QED BY <1>6, <3>2, <3>3
  <2> QED BY <1>0, <1>7, <1>9, <1>10, <2>2, <2>3 DEF PipeInv, ReportsComeFirst
<1> QED BY <1>13, <1>14 DEF rep

(* Which report the key takes.                                             *)
LEMMA RecvType ==
  ASSUME PipeType, hid_in # <<>>
  PROVE  Recv \in DOMAIN hid_in
<1> DEFINE I == {i \in 1 .. Len(hid_in) : hid_in[i].kind = "fido"}
           Less == {p \in Nat \X Nat : p[1] < p[2]}
<1>0. Len(hid_in) \in Nat /\ DOMAIN hid_in = 1 .. Len(hid_in) /\ Len(hid_in) > 0 /\ I \in SUBSET Nat
  BY DEF PipeType
<1>1. FirstFido = IF I # {} THEN Min(I) ELSE 0
  BY DEF FirstFido, SelectInSeq
<1>2. ASSUME I # {} PROVE Min(I) \in I
  <2> HIDE DEF I
  <2>1. IsWellFoundedOn(Less, Nat)
    BY NatLessThanWellFounded DEF OpToRel
  <2>2. PICK x \in I : \A y \in I : ~(<<y, x>> \in Less)
    BY <1>0, <1>2, <2>1, WFMin
  <2>3. \A y \in I : x <= y
    <3> TAKE y \in I
    <3>1. <<y, x>> \in Nat \X Nat /\ <<y, x>>[1] = y /\ <<y, x>>[2] = x
      BY <1>0
    <3>2. ~(y < x)
      BY <2>2, <3>1
    <3> QED BY <1>0, <3>2
  <2> QED BY <2>3 DEF Min
<1>3. CASE I = {}
  <2>1. FirstFido = 0
    BY <1>1, <1>3
  <2> QED BY <2>1, <1>0 DEF Recv
<1>4. CASE I # {}
  <2>1. FirstFido = Min(I) /\ Min(I) \in I
    BY <1>1, <1>2, <1>4
  <2>2. \A i \in I : i # 0 /\ i \in DOMAIN hid_in
    BY <1>0
  <2> HIDE DEF I
  <2>3. FirstFido # 0 /\ FirstFido \in DOMAIN hid_in
    BY <2>1, <2>2
  <2> QED BY <2>3 DEF Recv
<1> QED BY <1>3, <1>4

LEMMA TakeReportStep ==
  ASSUME PipeInv, TakeReport
  PROVE  PipeInv'
<1> DEFINE r == hid_in[Recv]
<1>0. PipeType /\ Numbered /\ NotYetInTime /\ WrittenOnce /\ Counted /\ ReportsComeFirst
  BY DEF PipeInv
<1>1. /\ hid_in # <<>> /\ hid_in' = RemoveAt(hid_in, Recv)
      /\ vendor_taken' = vendor_taken + IF r.kind = "vendor" THEN 1 ELSE 0
      /\ UNCHANGED <<calls, vendor_pushed, ticket, called, inTime, overtaken>>
  BY DEF TakeReport, TakenAfter, saidVars
<1>2. PICK m \in DOMAIN hid_in : m = Recv
  BY <1>0, <1>1, RecvType
<1>3. /\ hid_in' \in Seq(Reports)
      /\ \A k \in DOMAIN hid_in' : Back(m, k) \in DOMAIN hid_in /\ Back(m, k) # m /\ hid_in'[k] = hid_in[Back(m, k)]
      /\ \A j \in DOMAIN hid_in : j # m => \E k \in DOMAIN hid_in' : Back(m, k) = j
  <2>1. hid_in \in Seq(Reports) /\ hid_in' = RemoveAt(hid_in, m)
    BY <1>0, <1>1, <1>2 DEF PipeType
  <2> DEFINE left == RemoveAt(hid_in, m)
  <2>2. /\ left \in Seq(Reports)
        /\ \A k \in DOMAIN left : Back(m, k) \in DOMAIN hid_in /\ Back(m, k) # m /\ left[k] = hid_in[Back(m, k)]
        /\ \A j \in DOMAIN hid_in : j # m => \E k \in DOMAIN left : Back(m, k) = j
    BY <2>1, RemovedAt
  <2> HIDE DEF left
  <2>3. hid_in' = left
    BY <2>1 DEF left
  <2> QED BY <2>2, <2>3
<1>4. \A k, l \in DOMAIN hid_in' : k # l => Back(m, k) # Back(m, l)
  <2>1. m \in Nat /\ DOMAIN hid_in' \subseteq Nat
    BY <1>0, <1>3 DEF PipeType
  <2> QED BY <2>1, BackApart
<1>5. r = hid_in[m] /\ r \in Reports
  BY <1>0, <1>2 DEF PipeType
<1> HIDE DEF r
<1>6. PipeType'
  BY <1>0, <1>1, <1>3 DEF PipeType
<1>7. Numbered' /\ NotYetInTime' /\ WrittenOnce'
  BY <1>0, <1>1, <1>3, <1>4 DEF Numbered, NotYetInTime, WrittenOnce
<1>8. Counted'
  <2>1. \A x : x \in VendorIds' <=> x \in VendorIds /\ x # r.id
    <3>1. ASSUME NEW x, x \in VendorIds' PROVE x \in VendorIds /\ x # r.id
      <4> PICK k \in DOMAIN hid_in' : hid_in'[k].kind = "vendor" /\ hid_in'[k].id = x
        BY <3>1 DEF VendorIds
      <4>1. Back(m, k) \in DOMAIN hid_in /\ Back(m, k) # m /\ hid_in'[k] = hid_in[Back(m, k)]
        BY <1>3
      <4> QED BY <1>0, <1>5, <4>1 DEF Numbered, VendorIds
    <3>2. ASSUME NEW x, x \in VendorIds, x # r.id PROVE x \in VendorIds'
      <4> PICK j \in DOMAIN hid_in : hid_in[j].kind = "vendor" /\ hid_in[j].id = x
        BY <3>2 DEF VendorIds
      <4>1. PICK k \in DOMAIN hid_in' : Back(m, k) = j
        BY <1>3, <1>5, <3>2
      <4> QED BY <1>3, <4>1 DEF VendorIds
    <3> QED BY <3>1, <3>2
  <2>2. VendorIds' = VendorIds \ {r.id}
    BY <2>1
  <2>3. r.id \in VendorIds <=> r.kind = "vendor"
    BY <1>0, <1>5 DEF VendorIds, Numbered
  <2>4. /\ IsFiniteSet(VendorIds')
        /\ Cardinality(VendorIds') = IF r.id \in VendorIds THEN Cardinality(VendorIds) - 1 ELSE Cardinality(VendorIds)
    BY <1>0, <2>2, FS_RemoveElement DEF Counted
  <2>5. Cardinality(VendorIds) \in Nat
    BY <1>0, FS_CardinalityType DEF Counted
  <2> QED BY <1>0, <1>1, <2>3, <2>4, <2>5 DEF Counted, PipeType
<1> QED BY <1>0, <1>1, <1>6, <1>7, <1>8 DEF PipeInv, ReportsComeFirst

LEMMA FlushInStep ==
  ASSUME PipeInv, FlushIn
  PROVE  PipeInv'
<1>1. /\ hid_in' = <<>> /\ vendor_taken' = vendor_pushed
      /\ UNCHANGED <<calls, vendor_pushed, ticket, called, inTime, overtaken>>
  BY DEF FlushIn, saidVars
<1>2. VendorIds' = {}
  BY <1>1 DEF VendorIds
<1>3. IsFiniteSet(VendorIds') /\ Cardinality(VendorIds') = 0
  BY <1>2, FS_EmptySet
<1> QED BY <1>1, <1>3 DEF PipeInv, PipeType, Numbered, NotYetInTime, WrittenOnce, Counted, ReportsComeFirst

LEMMA PipeStep == PipeInv /\ [HPNext]_hpVars => PipeInv'
<1> SUFFICES ASSUME PipeInv, [HPNext]_hpVars PROVE PipeInv'
  OBVIOUS
<1>0. PipeType /\ NotYetInTime /\ WrittenOnce /\ Counted
  BY DEF PipeInv
<1>1. ASSUME NEW c \in Callers, Asks(c) PROVE PipeInv'
  <2> PICK kind \in {"fido", "vendor", "presses"} :
        calls' = Append(calls, [caller |-> c, kind |-> kind, id |-> called'])
    BY <1>1 DEF Asks
  <2> DEFINE call == [caller |-> c, kind |-> kind, id |-> called']
  <2>1. call \in Calls /\ call.id = called + 1 /\ called' = called + 1
    BY <1>0, <1>1 DEF Asks, Calls, PipeType
  <2> QED BY <1>1, <2>1, CallJoins DEF Asks, hidVars, saidVars
<1>2. CASE AsksToStop
  <2> DEFINE call == [caller |-> "nobody", kind |-> "stop", id |-> 0]
  <2>1. call \in Calls /\ call.kind = "stop" /\ calls' = Append(calls, call)
    BY <1>2 DEF AsksToStop, Calls
  <2> QED BY <1>2, <2>1, CallJoins DEF AsksToStop, hidVars, saidVars
<1>3. CASE Refused \/ nativeStop \/ QueuePresses
  <2>1. /\ calls # <<>> /\ calls' = Tail(calls) /\ ticket' = 0
        /\ UNCHANGED <<hid_in, vendor_pushed, vendor_taken, called, overtaken, inTime>>
    BY <1>3 DEF Refused, nativeStop, QueuePresses, Makes, Answered, hidVars, saidVars
  <2> QED BY <2>1, CallLeaves
<1>4. CASE GiveUpWaiting
  <2>1. /\ calls # <<>> /\ calls' = Tail(calls) /\ ticket' = 0
        /\ UNCHANGED <<hid_in, vendor_pushed, vendor_taken, called, overtaken, inTime>>
    BY <1>0, <1>4 DEF GiveUpWaiting, VendorLate, Answered, hidVars, saidVars, Counted
  <2> QED BY <2>1, CallLeaves
<1>5. CASE VendorTaken
  <2>1. /\ calls # <<>> /\ Head(calls).kind = "vendor" /\ ticket = vendor_pushed /\ vendor_taken >= ticket
        /\ calls' = Tail(calls) /\ ticket' = 0 /\ inTime' = inTime \cup {Head(calls).id}
        /\ UNCHANGED <<hid_in, vendor_pushed, vendor_taken, called, overtaken>>
    BY <1>0, <1>5 DEF VendorTaken, Answered, hidVars, Counted
  <2>2. VendorIds = {}
    <3>1. Cardinality(VendorIds) \in Nat /\ IsFiniteSet(VendorIds)
      BY <1>0, FS_CardinalityType DEF Counted
    <3>2. Cardinality(VendorIds) = 0
      BY <1>0, <2>1, <3>1 DEF Counted, PipeType
    <3> QED BY <3>1, <3>2, FS_EmptySet
  <2>3. \A j \in DOMAIN hid_in : hid_in[j].id # Head(calls).id
    <3>1. 1 \in DOMAIN calls /\ Head(calls) = calls[1]
      BY <1>0, <2>1, FirstCall
    <3>2. \A j \in DOMAIN hid_in : hid_in[j].kind # "vendor"
      BY <2>2 DEF VendorIds
    <3> QED BY <1>0, <2>1, <3>1, <3>2 DEF WrittenOnce
  <2> QED BY <2>1, <2>3, CallLeaves
<1>6. CASE DeliverFido
  <2>1. /\ ticket = 0 /\ calls # <<>> /\ Head(calls).kind = "fido" /\ hid_in' = Append(hid_in, Head(calls))
        /\ calls' = Tail(calls) /\ UNCHANGED <<vendor_pushed, vendor_taken, ticket, called, inTime, overtaken>>
    BY <1>6 DEF DeliverFido, Makes, Answered, saidVars
  <2> QED BY <2>1, Delivered
<1>7. CASE DeliverVendor
  <2>1. /\ ticket = 0 /\ calls # <<>> /\ Head(calls).kind = "vendor" /\ hid_in' = Append(hid_in, Head(calls))
        /\ calls' = calls /\ vendor_pushed' = vendor_pushed + 1 /\ ticket' = vendor_pushed'
        /\ UNCHANGED <<vendor_taken, called, inTime, overtaken>>
    BY <1>7 DEF DeliverVendor, Makes, saidVars
  <2> QED BY <2>1, Delivered
<1>8. CASE TakeReport
  BY <1>8, TakeReportStep
<1>9. CASE FlushIn
  BY <1>9, FlushInStep
<1>10. CASE TakePress
  <2>1. /\ overtaken' = (overtaken \/ Behind(Head(digits)))
        /\ UNCHANGED <<calls, hid_in, vendor_pushed, vendor_taken, ticket, called, inTime>>
    BY <1>10 DEF TakePress
  <2>2. ~Behind(Head(digits))
    BY <1>0 DEF Behind, NotYetInTime
  <2>3. ReportsComeFirst'
    BY <2>1, <2>2 DEF PipeInv, ReportsComeFirst
  <2>4. PipeType' /\ Numbered' /\ NotYetInTime' /\ WrittenOnce' /\ Counted'
    BY <2>1 DEF PipeInv, PipeType, Numbered, NotYetInTime, WrittenOnce, Counted, VendorIds
  <2> QED BY <2>3, <2>4 DEF PipeInv
<1>11. CASE CpuRestart \/ (\E c \in Callers : Polls(c)) \/ UNCHANGED hpVars
  <2>1. UNCHANGED <<calls, hid_in, vendor_pushed, vendor_taken, ticket, called, inTime, overtaken>>
    BY <1>11 DEF CpuRestart, Polls, Drained, DrainGivesUp, hpVars, hidVars, saidVars
  <2> QED BY <2>1 DEF PipeInv, PipeType, Numbered, NotYetInTime, WrittenOnce, Counted, VendorIds, ReportsComeFirst
<1> QED BY <1>1, <1>2, <1>3, <1>4, <1>5, <1>6, <1>7, <1>8, <1>9, <1>10, <1>11
        DEF HPNext, Executes, FirmwareRuns

\* A vendor write returns when the key has taken its report (hid_taken_cv
\* of ok_hal.cpp): the presses that answer it are never taken before it.
THEOREM ReportsDoComeFirst == HPSpec => []ReportsComeFirst
<1>1. PipeInv => ReportsComeFirst
  BY DEF PipeInv
<1> QED BY <1>1, PipeInit, PipeStep, PTL DEF HPSpec

\* pressesDrained (OkEmu.ts): who is told that the presses are in has none
\* left at a key that runs.
THEOREM DrainedAreTaken == HPSpec => []DrainedIsTaken
<1>1. HPInit => DrainedIsTaken
  BY DEF HPInit, DrainedIsTaken
<1>2. ASSUME DrainedIsTaken, [HPNext]_hpVars PROVE DrainedIsTaken'
  <2>1. ASSUME NEW c \in Callers, Drained(c) PROVE DrainedIsTaken'
    <3>1. g_running => Len(digits) = 0
      BY <2>1 DEF Drained, pressPending
    <3>2. ~(g_running /\ Contains(digits, c))
      BY <3>1 DEF Contains
    <3> QED BY <1>2, <2>1, <3>2 DEF Drained, DrainedIsTaken
  <2>2. ASSUME NEW c \in Callers, DrainGivesUp(c) PROVE toldWrong' = toldWrong
    BY <2>2 DEF DrainGivesUp, Told
  <2>3. CASE \/ Executes \/ FirmwareRuns \/ AsksToStop \/ (\E c \in Callers : Asks(c)) \/ UNCHANGED hpVars
    BY <1>2, <2>3 DEF Executes, FirmwareRuns, AsksToStop, Asks, hpVars, saidVars, DrainedIsTaken, Refused, DeliverFido,
          DeliverVendor, VendorTaken, GiveUpWaiting, QueuePresses, nativeStop, TakeReport, TakePress, FlushIn, CpuRestart
  <2> QED BY <1>2, <2>1, <2>2, <2>3 DEF HPNext, Polls, DrainedIsTaken
<1> QED BY <1>1, <1>2, PTL DEF HPSpec
=============================================================================
