--------------------------- MODULE EdgeStoreProofs ---------------------------
(***************************************************************************)
(* The phone's copy of the chain, for any bounds.  Six inductive           *)
(* invariants: types and how far a copy reaches; what memory, store and    *)
(* lastSeen have to do with each other; what a verdict says of a copy;     *)
(* which signature stands behind it; whose records are whose; and what a   *)
(* key that only grows leaves nobody to be alarmed about.                  *)
(***************************************************************************)
EXTENDS EdgeStore, TLAPS, NaturalsInduction, WellFoundedInduction

Hist == Seq({First, Second})
Tags == Nat \cup {Nil}
Verdicts == {"verified", "gap", "tampered", "unsigned"}
Checking == {"head", "read", "key", "check", "ring", "again"}
Places == Checking \cup {"idle", "look", "write", "record"}
Jobs(e) ==
  [links : Copies(e), seen : Hist, base : Texts(e), forgot : BOOLEAN, head : Hist, from : Nat,
   vhead : Hist, cp : Hist \cup {Nil}, again : BOOLEAN, verdict : Verdicts \cup {"none"},
   added : Copies(e), tag : Tags]
Results(e) == [head : Hist, links : Copies(e), verdict : Verdicts, tag : Tags]
Asks(e) == [kind : {"sync", "keep"}, added : Copies(e), tag : Tags]
Answers == [verdict : Verdicts, ok : BOOLEAN, head : Hist \cup {Nil}]
Marks == [cp : Hist \cup {Nil}, part : Hist]

ESType ==
  /\ log \in Hist /\ Len(log) <= Longest + grown /\ oldest \in Nat \ {0} /\ era \in {First, Second}
  /\ grown \in 0..MaxLinks /\ events \in 0..MaxEvents /\ edits \in Nat
  /\ stored \in Texts(events)
  /\ inMemory \in Texts(events) \cup {Nil} /\ storedText \in Texts(events) \cup {Nil}
  /\ verifiedNow \in Results(events) \cup {Nil} /\ answer \in Answers \cup {Nil}
  /\ asked \in Seq(Asks(events))
  /\ at \in [Who -> Places] /\ job \in [Who -> Jobs(events)]
  /\ firstHead \in Hist /\ lastHead \in Hist /\ signed \subseteq Marks
  /\ {unread, crossed, alarm} \subseteq BOOLEAN

\* A job that runs is the first of the queue.
Busy == at["sync"] # "idle" => asked # <<>>

-----------------------------------------------------------------------------
(* Memory, store and lastSeen, as long as no copy was read across a save *)

MemoryIsStored ==
  inMemory # Nil =>
    inMemory = IF at["sync"] = "write" THEN Text(job["sync"]) ELSE storedText
BaseIsStored ==
  at["sync"] \in Checking \cup {"look"} /\ ~job["sync"].forgot =>
    inMemory # Nil /\ storedText = job["sync"].base
SeenIsFirst ==
  /\ stored.seen = firstHead
  /\ inMemory # Nil /\ at["sync"] # "write" => inMemory.seen = firstHead
  /\ at["sync"] \in Checking => job["sync"].seen = firstHead
  /\ at["sync"] \in {"look", "write"} =>
       job["sync"].seen = IF job["sync"].verdict \in Good THEN job["sync"].head ELSE firstHead
NeverCrossed == MemoryIsStored /\ BaseIsStored /\ SeenIsFirst /\ ~unread /\ "full" \notin slipped
MemoryInv == crossed \/ NeverCrossed

-----------------------------------------------------------------------------
(* What a verdict says of a copy *)

Matches(links, h, out) == \A n \in DOMAIN links \ out : n <= Len(h) /\ links[n] = h[n]
AllMatch(links, h) == Matches(links, h, {})
Keys(links) == \A n \in DOMAIN links : links[n] \in {First, Second}

AskedKeys(s) == \A i \in DOMAIN s : Keys(s[i].added)

OfferLinks ==
  LET w == job["offer"] IN
  \A n \in DOMAIN w.added : n \in DOMAIN w.links /\ w.links[n] = w.added[n]
ResultMatches ==
  verifiedNow # Nil =>
    LET v == verifiedNow IN
    /\ v.verdict = "verified" => AllMatch(v.links, v.head)
    /\ v.verdict = "gap" => Matches(v.links, v.head, Islands(v.links, v.head, {}))
KeysOnly ==
  edits = 0 =>
    /\ Keys(stored.links) /\ (inMemory # Nil => Keys(inMemory.links))
    /\ Keys(job["sync"].links) /\ AskedKeys(asked)
CheckInv == OfferLinks /\ ResultMatches /\ KeysOnly /\ "copy" \notin slipped

-----------------------------------------------------------------------------
(* The key's histories, and the signature behind a verdict *)

AllFirst(h) == \A i \in 1..Len(h) : h[i] = First
PastOf(h, l, e) == AllFirst(h) \/ (e = Second /\ Extends(l, h))
IsPast(h) == PastOf(h, log, era)
LogInv ==
  /\ era = First => AllFirst(log)
  /\ \A i, j \in 1..Len(log) : i < j /\ log[i] = Second => log[j] = Second
  /\ \A p \in Who : IsPast(job[p].head) /\ IsPast(job[p].vhead)
AgainInv ==
  LET w == job["sync"] IN
  /\ IF w.again THEN AllMatch(w.links, w.head) ELSE w.vhead = w.head
  /\ at["sync"] = "again" => w.again
  /\ at["sync"] \in {"head", "read"} => ~w.again
SignedBy(S, h, links) == h = <<>> \/ \E s \in S : Extends(SubSeq(h, 1, LastSeq(links)), s.part)
SignedFor(h, links) == SignedBy(signed, h, links)
SignedInv ==
  /\ verifiedNow # Nil /\ verifiedNow.verdict = "verified" => SignedFor(verifiedNow.head, verifiedNow.links)
  /\ at["sync"] \in Checking => job["sync"].verdict = "none"
  /\ job["sync"].verdict \in Good => job["sync"].seen = job["sync"].head
  /\ job["sync"].verdict = "verified" =>
       /\ AllMatch(job["sync"].links, job["sync"].vhead)
       /\ SignedFor(job["sync"].vhead, job["sync"].links)
HeadInv == LogInv /\ AgainInv /\ SignedInv /\ OkIsSigned

-----------------------------------------------------------------------------
(* A key that only grows, and a copy nothing else edits *)

Used(t) == job["sync"].tag = t \/ \E i \in DOMAIN asked : asked[i].tag = t
OfferTags == {Nil} \cup 1..events
TagInv ==
  /\ job["sync"].tag \in {Nil, 0} \cup 1..events /\ job["offer"].tag \in OfferTags
  /\ at["sync"] \in Checking => job["sync"].tag \in {Nil, 0}
  /\ \A i \in DOMAIN asked : asked[i].tag \in OfferTags
  /\ at["offer"] # "idle" /\ job["offer"].tag # Nil => ~Used(job["offer"].tag)

Inside(links, n) == \A m \in DOMAIN links : m <= n /\ links[m] = First
Fitting(w, n) == Inside(w.links, n) /\ Len(w.seen) <= n /\ AllFirst(w.seen)
PointFits(cp) == cp = Nil \/ AllFirst(cp)
\* A check before and after it has read the head.
CheckFits(p) ==
  LET w == job[p] IN
  /\ at[p] = "head" => Fitting(w, Len(log))
  /\ at[p] \in Checking \ {"head"} => Fitting(w, Len(w.vhead)) /\ Len(w.head) <= Len(w.vhead)

StoreFits == Fitting(stored, Len(log)) /\ (inMemory # Nil => Fitting(inMemory, Len(log)))
AskedFits == \A i \in DOMAIN asked : Inside(asked[i].added, Len(log))
HeadsFit == \A p \in Who : Len(job[p].head) <= Len(log) /\ Len(job[p].vhead) <= Len(log)
PointsFit == (\A p \in Who : PointFits(job[p].cp)) /\ \A s \in signed : PointFits(s.cp)
SyncFits == Fitting(job["sync"], Len(log)) /\ CheckFits("sync") /\ job["sync"].verdict # "tampered"
OfferFits == job["offer"].tag = Nil => CheckFits("offer")
ResultFits ==
  verifiedNow # Nil /\ verifiedNow.verdict = "tampered" =>
    verifiedNow.tag \in 1..events /\ ~Used(verifiedNow.tag)
Grows ==
  /\ StoreFits /\ AskedFits /\ HeadsFit /\ PointsFit /\ SyncFits /\ OfferFits /\ ResultFits /\ ~alarm
GrowInv == edits = 0 /\ era = First => Grows

-----------------------------------------------------------------------------
(* Copies *)

LEMMA LongestType == Longest \in Nat /\ \A n \in Before : n <= Longest
<1>1. PICK n \in Before : \A m \in Before : m <= n
  BY BoundsAssumption
<1> QED
  BY <1>1, BoundsAssumption DEF Longest

LEMMA ReachType ==
  ASSUME NEW e \in Nat PROVE Reach(e) \in Nat /\ Reach(e + 1) = Reach(e) + 2 /\ Longest + MaxLinks <= Reach(e)
BY LongestType, BoundsAssumption DEF Reach

LEMMA CopyDef ==
  ASSUME NEW e, NEW c
  PROVE  c \in Copies(e) <=> /\ c = [n \in DOMAIN c |-> c[n]] /\ DOMAIN c \subseteq 1..Reach(e)
                             /\ \A n \in DOMAIN c : c[n] \in First..Stray
<1>1. ASSUME c \in Copies(e) PROVE \E S \in SUBSET (1..Reach(e)) : c \in [S -> First..Stray]
  BY <1>1 DEF Copies
<1>2. ASSUME NEW S \in SUBSET (1..Reach(e)), c \in [S -> First..Stray] PROVE c \in Copies(e)
  BY <1>2 DEF Copies
<1>3. ASSUME c = [n \in DOMAIN c |-> c[n]], \A n \in DOMAIN c : c[n] \in First..Stray
      PROVE  c \in [DOMAIN c -> First..Stray]
  BY <1>3
<1> QED
  BY <1>1, <1>2, <1>3

LEMMA CopiesGrow ==
  ASSUME NEW e \in Nat, NEW f \in Nat, e <= f
  PROVE  Copies(e) \subseteq Copies(f) /\ Texts(e) \subseteq Texts(f)
<1>1. Reach(e) <= Reach(f) /\ Reach(e) \in Nat /\ Reach(f) \in Nat
  BY LongestType, BoundsAssumption DEF Reach
<1>2. 1..Reach(e) \subseteq 1..Reach(f)
  BY <1>1
<1>3. Copies(e) \subseteq Copies(f)
  BY <1>2, CopyDef
<1> QED
  BY <1>3 DEF Texts

LEMMA TypesGrow ==
  ASSUME NEW e \in Nat, NEW f \in Nat, e <= f
  PROVE  /\ Jobs(e) \subseteq Jobs(f) /\ Results(e) \subseteq Results(f)
         /\ Asks(e) \subseteq Asks(f) /\ Seq(Asks(e)) \subseteq Seq(Asks(f))
<1>1. Copies(e) \subseteq Copies(f) /\ Texts(e) \subseteq Texts(f)
  BY CopiesGrow
<1>2. Jobs(e) \subseteq Jobs(f)
  BY <1>1 DEF Jobs
<1>3. Results(e) \subseteq Results(f)
  BY <1>1 DEF Results
<1>4. Asks(e) \subseteq Asks(f)
  BY <1>1 DEF Asks
<1>5. Seq(Asks(e)) \subseteq Seq(Asks(f))
  BY <1>4
<1> QED
  BY <1>2, <1>3, <1>4, <1>5

LEMMA EmptyCopy == ASSUME NEW e PROVE <<>> \in Copies(e) /\ DOMAIN <<>> = {}
BY CopyDef, DOMAIN <<>> = {}, <<>> = [n \in {} |-> <<>>[n]]

LEMMA OnlyCopy ==
  ASSUME NEW e, NEW c \in Copies(e), NEW S
  PROVE  /\ Only(c, S) \in Copies(e) /\ DOMAIN Only(c, S) = DOMAIN c \cap S
         /\ \A n \in DOMAIN c \cap S : Only(c, S)[n] = c[n]
<1> DEFINE d == Only(c, S)
<1>1. DOMAIN d = DOMAIN c \cap S /\ (\A n \in DOMAIN c \cap S : d[n] = c[n]) /\ d = [n \in DOMAIN d |-> d[n]]
  BY DEF Only
<1>2. DOMAIN c \subseteq 1..Reach(e) /\ \A n \in DOMAIN c : c[n] \in First..Stray
  BY CopyDef
<1> HIDE DEF d
<1>3. d \in Copies(e)
  BY <1>1, <1>2, CopyDef
<1> QED
  BY <1>1, <1>3 DEF d

LEMMA MergeCopy ==
  ASSUME NEW e, NEW c \in Copies(e), NEW x \in Copies(e)
  PROVE  /\ Merge(c, x) \in Copies(e) /\ DOMAIN Merge(c, x) = DOMAIN c \cup DOMAIN x
         /\ \A n \in DOMAIN c : Merge(c, x)[n] = c[n]
         /\ \A n \in DOMAIN x \ DOMAIN c : Merge(c, x)[n] = x[n]
<1> DEFINE d == Merge(c, x)
<1>1. /\ DOMAIN d = DOMAIN c \cup DOMAIN x /\ d = [n \in DOMAIN d |-> d[n]]
      /\ \A n \in DOMAIN c : d[n] = c[n]
      /\ \A n \in DOMAIN x \ DOMAIN c : d[n] = x[n]
  BY DEF Merge
<1>2. /\ DOMAIN c \subseteq 1..Reach(e) /\ \A n \in DOMAIN c : c[n] \in First..Stray
      /\ DOMAIN x \subseteq 1..Reach(e) /\ \A n \in DOMAIN x : x[n] \in First..Stray
  BY CopyDef
<1> HIDE DEF d
<1>3. d \in Copies(e)
  BY <1>1, <1>2, CopyDef
<1> QED
  BY <1>1, <1>3 DEF d

\* A bounded set of numbers has a greatest.
LEMMA GreatestOf ==
  ASSUME NEW b \in Nat, NEW S \in SUBSET (0..b), S # {}
  PROVE  \E n \in S : \A m \in S : m <= n
<1> DEFINE Above == {k \in Nat : \A m \in S : m <= k}
           Less == {x \in Nat \X Nat : x[1] < x[2]}
<1>0. Above \subseteq Nat /\ b \in Above /\ S \subseteq Nat
  OBVIOUS
<1>1. IsWellFoundedOn(Less, Nat)
  BY NatLessThanWellFounded DEF OpToRel
<1>2. PICK k \in Above : \A j \in Above : ~(<<j, k>> \in Less)
  BY <1>0, <1>1, WFMin
<1>3. \A j \in Above : k <= j
  <2> TAKE j \in Above
  <2>1. <<j, k>> \in Nat \X Nat /\ <<j, k>>[1] = j /\ <<j, k>>[2] = k
    BY <1>0
  <2>2. ~(j < k)
    BY <1>2, <2>1
  <2> QED BY <1>0, <2>2
<1>4. k \in Nat /\ \A m \in S : m <= k
  BY <1>2
<1>5. k \in S
  <2> SUFFICES ASSUME k \notin S PROVE FALSE
    OBVIOUS
  <2>1. PICK m \in S : TRUE
    OBVIOUS
  <2>2. m <= k /\ m # k /\ m \in Nat
    BY <1>4, <1>0
  <2>3. k - 1 \in Nat
    BY <2>2, <1>4
  <2>4. \A x \in S : x <= k - 1
    BY <1>0, <1>4
  <2>5. k - 1 \in Above
    BY <2>3, <2>4
  <2> QED
    BY <2>3, <2>5, <1>3, <1>4
<1> QED
  BY <1>4, <1>5

LEMMA LastSeqFacts ==
  ASSUME NEW e \in Nat, NEW c \in Copies(e)
  PROVE  /\ LastSeq(c) \in 0..Reach(e) /\ \A n \in DOMAIN c : n \in 1..LastSeq(c)
         /\ IF DOMAIN c = {} THEN LastSeq(c) = 0 ELSE LastSeq(c) \in DOMAIN c
<1>1. DOMAIN c \subseteq 1..Reach(e) /\ Reach(e) \in Nat
  BY CopyDef, ReachType
<1>2. CASE DOMAIN c = {}
  BY <1>1, <1>2 DEF LastSeq
<1>3. CASE DOMAIN c # {}
  <2>1. DOMAIN c \in SUBSET (0..Reach(e))
    BY <1>1
  <2>2. \E n \in DOMAIN c : \A m \in DOMAIN c : m <= n
    BY <2>1, <1>1, <1>3, GreatestOf
  <2>3. LastSeq(c) \in DOMAIN c /\ \A m \in DOMAIN c : m <= LastSeq(c)
    BY <2>2, <1>3 DEF LastSeq
  <2> QED
    BY <2>3, <1>1, <1>3
<1> QED
  BY <1>2, <1>3

-----------------------------------------------------------------------------
(* What the library's verdict says *)

LEMMA AssessFacts ==
  ASSUME NEW links, NEW h, NEW held, NEW seen, NEW cp, NEW v, v = Assess(links, h, held, seen, cp)
  PROVE  /\ v \in {"verified", "gap", "tampered"}
         /\ v # "tampered" =>
              /\ ~(LastSeq(links) > Len(h)) /\ Extends(h, seen)
              /\ \A n \in DOMAIN links \ Islands(links, h, held) : links[n] = h[n]
         /\ v = "verified" => Missing(links, h, held) = {}
<1> DEFINE bad == \/ LastSeq(links) > Len(h)
                  \/ \E n \in DOMAIN links \ Islands(links, h, held) : links[n] # h[n]
                  \/ ~Extends(h, seen)
                  \/ cp # Nil /\ ~Extends(h, cp)
<1>1. v = IF bad THEN "tampered" ELSE IF Missing(links, h, held) = {} THEN "verified" ELSE "gap"
  BY DEF Assess
<1>2. CASE bad
  BY <1>1, <1>2
<1>3. CASE ~bad
  <2>1. v = IF Missing(links, h, held) = {} THEN "verified" ELSE "gap"
    BY <1>1, <1>3
  <2>2. /\ ~(LastSeq(links) > Len(h)) /\ Extends(h, seen)
        /\ \A n \in DOMAIN links \ Islands(links, h, held) : links[n] = h[n]
    BY <1>3
  <2> QED
    BY <2>1, <2>2
<1> QED
  BY <1>2, <1>3

\* What the ring holds only takes islands away.
LEMMA IslandsGrow ==
  ASSUME NEW links, NEW h, NEW held
  PROVE  /\ Islands(links, h, held) \subseteq Islands(links, h, {})
         /\ Missing(links, h, held) = {} => Islands(links, h, held) = {}
BY DEF Islands, Missing

LEMMA EvaluateFacts ==
  ASSUME NEW e \in Nat, NEW w \in Jobs(e), NEW held, NEW v, v = evaluate(w, held)
  PROVE  /\ v \in Verdicts
         /\ v # "tampered" =>
              /\ LastSeq(w.links) <= Len(w.vhead) /\ Extends(w.vhead, w.seen)
              /\ Matches(w.links, w.vhead, Islands(w.links, w.vhead, held))
              /\ Matches(w.links, w.vhead, Islands(w.links, w.vhead, {}))
         /\ v \in {"verified", "unsigned"} => AllMatch(w.links, w.vhead)
         /\ v = "verified" => hybridOk(w) \/ w.vhead = <<>>
<1> DEFINE a == Assess(w.links, w.vhead, held, w.seen, IF hybridOk(w) THEN w.cp ELSE Nil)
           out == Islands(w.links, w.vhead, held)
<1>1. /\ a \in {"verified", "gap", "tampered"}
      /\ a # "tampered" =>
           /\ ~(LastSeq(w.links) > Len(w.vhead)) /\ Extends(w.vhead, w.seen)
           /\ \A n \in DOMAIN w.links \ out : w.links[n] = w.vhead[n]
      /\ a = "verified" => Missing(w.links, w.vhead, held) = {}
  BY AssessFacts
<1>2. v = IF a = "verified" /\ ~hybridOk(w) /\ w.vhead # <<>> THEN "unsigned" ELSE a
  BY DEF evaluate
<1>3. \A n \in DOMAIN w.links : n \in 1..LastSeq(w.links)
  BY LastSeqFacts DEF Jobs
<1>4. LastSeq(w.links) \in Nat /\ Len(w.vhead) \in Nat
  BY LastSeqFacts, ReachType DEF Jobs, Hist
<1> HIDE DEF a
<1>5. a # "tampered" => Matches(w.links, w.vhead, out)
  BY <1>1, <1>3, <1>4 DEF Matches
<1>6. a # "tampered" => Matches(w.links, w.vhead, Islands(w.links, w.vhead, {}))
  BY <1>5, IslandsGrow DEF Matches
<1>7. a = "verified" => AllMatch(w.links, w.vhead)
  BY <1>1, <1>5, IslandsGrow DEF Matches, AllMatch
<1>8. a # "tampered" => LastSeq(w.links) <= Len(w.vhead) /\ Extends(w.vhead, w.seen)
  BY <1>1, <1>4
<1> HIDE DEF out
<1> QED
  BY <1>1, <1>2, <1>5, <1>6, <1>7, <1>8 DEF Verdicts, out

-----------------------------------------------------------------------------
(* Types *)

LEMMA IdleType == ASSUME NEW e \in Nat PROVE Idle \in Jobs(e) /\ Empty0 \in Texts(e)
<1>1. <<>> \in Copies(e) /\ <<>> \in Hist
  BY EmptyCopy DEF Hist
<1>2. Empty0 \in Texts(e)
  BY <1>1 DEF Empty0, Texts, Hist
<1> QED
  BY <1>1, <1>2 DEF Idle, Jobs, Tags

\* What an event adds to the reach keeps every type.
LEMMA Lift ==
  ASSUME ESType, NEW e \in events..MaxEvents
  PROVE  /\ e \in 0..MaxEvents
         /\ stored \in Texts(e) /\ inMemory \in Texts(e) \cup {Nil}
         /\ storedText \in Texts(e) \cup {Nil} /\ verifiedNow \in Results(e) \cup {Nil}
         /\ asked \in Seq(Asks(e)) /\ job \in [Who -> Jobs(e)]
<1>1. e \in Nat /\ events \in Nat /\ events <= e /\ e \in 0..MaxEvents
  BY BoundsAssumption DEF ESType
<1>2. /\ Texts(events) \subseteq Texts(e) /\ Jobs(events) \subseteq Jobs(e)
      /\ Results(events) \subseteq Results(e) /\ Seq(Asks(events)) \subseteq Seq(Asks(e))
  BY <1>1, CopiesGrow, TypesGrow
<1> QED
  BY <1>1, <1>2 DEF ESType

LEMMA GoType ==
  ASSUME ESType, NEW e \in events..MaxEvents, NEW p \in Who, NEW a \in Places, NEW w \in Jobs(e), Go(p, a, w)
  PROVE  /\ at' \in [Who -> Places] /\ job' \in [Who -> Jobs(e)]
         /\ at'[p] = a /\ job'[p] = w
         /\ \A q \in Who : q # p => at'[q] = at[q] /\ job'[q] = job[q]
BY Lift DEF Go, ESType

LEMMA LoadedType ==
  ASSUME ESType
  PROVE  /\ Loaded \in Texts(events) /\ Loaded.links \in Copies(events) /\ Loaded.seen \in Hist
         /\ loadMirror => inMemory' = Loaded /\ storedText' \in Texts(events) \cup {Nil}
<1>1. Loaded \in Texts(events)
  BY DEF Loaded, ESType
<1>2. Loaded.links \in Copies(events) /\ Loaded.seen \in Hist
  BY <1>1 DEF Texts, Hist
<1> QED
  BY <1>1, <1>2 DEF loadMirror, ESType

LEMMA LogFacts ==
  ASSUME ESType
  PROVE  /\ Len(log) \in Nat /\ Len(log) <= Reach(events) /\ Reach(events) \in Nat
         /\ DOMAIN log = 1..Len(log) /\ \A n \in 1..Len(log) : log[n] \in {First, Second}
<1>1. Len(log) \in Nat /\ DOMAIN log = 1..Len(log) /\ \A n \in 1..Len(log) : log[n] \in {First, Second}
  BY DEF ESType, Hist
<1>2. Len(log) <= Longest + MaxLinks
  BY <1>1, LongestType, BoundsAssumption DEF ESType
<1>3. Reach(events) \in Nat /\ Longest + MaxLinks <= Reach(events)
  BY ReachType DEF ESType
<1> QED
  BY <1>1, <1>2, <1>3, LongestType, BoundsAssumption

LEMMA KeyLinksType == ASSUME ESType, KeyLinks PROVE ESType'
<1>1. log' \in Hist /\ Len(log') = Len(log) + 1 /\ Len(log) \in Nat
  BY DEF ESType, KeyLinks, Hist
<1>2. Len(log') <= Longest + grown' /\ grown' \in 0..MaxLinks
  BY <1>1, LongestType, BoundsAssumption DEF ESType, KeyLinks
<1>3. oldest' \in Nat \ {0}
  BY <1>1, BoundsAssumption DEF ESType, KeyLinks, FirstHeld
<1> QED
  BY <1>1, <1>2, <1>3
  DEF ESType, KeyLinks, storeVars, memoVars, pastVars

LEMMA KeyRestartsType == ASSUME ESType, KeyRestarts PROVE ESType'
<1>1. events' \in events..MaxEvents
  BY BoundsAssumption DEF ESType, KeyRestarts, Event
<1>2. oldest' \in Nat \ {0}
  BY DEF ESType, KeyRestarts, Hist
<1> QED
  BY <1>1, <1>2, Lift
  DEF ESType, KeyRestarts, storeVars, memoVars, pastVars

LEMMA KeyPutBackType == ASSUME ESType, KeyPutBack PROVE ESType'
<1>1. PICK n \in 0..(Len(log) - 1) : log' = SubSeq(log, 1, n) /\ oldest' = IF n = 0 THEN 1 ELSE n
  BY DEF KeyPutBack
<1>2. log' \in Hist /\ Len(log') = n /\ n <= Len(log) /\ Len(log) \in Nat /\ n \in Nat
  BY <1>1 DEF ESType, Hist
<1>3. Len(log') <= Longest + grown
  BY <1>2, LongestType DEF ESType
<1> QED
  BY <1>1, <1>2, <1>3
  DEF ESType, KeyPutBack, storeVars, memoVars, pastVars, countVars

LEMMA EditLinks ==
  ASSUME ESType, Edit
  PROVE  /\ events' \in events..MaxEvents /\ stored'.links \in Copies(events')
         /\ stored' = [links |-> stored'.links, seen |-> stored.seen]
<1>1. events' = events + 1 /\ events' \in events..MaxEvents /\ events \in Nat
  BY BoundsAssumption DEF ESType, Edit, Event
<1> DEFINE c == stored.links
<1>2. stored = [links |-> c, seen |-> stored.seen] /\ c \in Copies(events') /\ c \in Copies(events)
  BY <1>1, Lift DEF Texts, ESType
<1> HIDE DEF c
<1>3. ASSUME NEW n \in DOMAIN c, stored' = [stored EXCEPT !.links[n] = Edited]
      PROVE  stored'.links \in Copies(events') /\ stored' = [links |-> stored'.links, seen |-> stored.seen]
  <2>1. stored' = [links |-> [c EXCEPT ![n] = Edited], seen |-> stored.seen]
    BY <1>2, <1>3
  <2>2. c = [k \in DOMAIN c |-> c[k]] /\ DOMAIN c \subseteq 1..Reach(events') /\ \A k \in DOMAIN c : c[k] \in First..Stray
    BY <1>2, CopyDef
  <2> DEFINE d == [c EXCEPT ![n] = Edited]
  <2>3. DOMAIN d = DOMAIN c /\ d = [k \in DOMAIN d |-> d[k]] /\ \A k \in DOMAIN d : d[k] \in First..Stray
    BY <2>2 DEF First, Stray, Edited
  <2> HIDE DEF d
  <2>4. d \in Copies(events')
    BY <2>2, <2>3, CopyDef
  <2> QED
    BY <2>1, <2>4 DEF d
<1>4. ASSUME NEW n \in DOMAIN c, stored' = [stored EXCEPT !.links = Only(c, DOMAIN c \ {n})]
      PROVE  stored'.links \in Copies(events') /\ stored' = [links |-> stored'.links, seen |-> stored.seen]
  BY <1>2, <1>4, OnlyCopy
<1>5. ASSUME NEW n \in {LastSeq(c) + 1, LastSeq(c) + 2},
             stored' = [stored EXCEPT !.links = Merge(c, [m \in {n} |-> Stray])]
      PROVE  stored'.links \in Copies(events') /\ stored' = [links |-> stored'.links, seen |-> stored.seen]
  <2>1. LastSeq(c) \in 0..Reach(events) /\ Reach(events') = Reach(events) + 2 /\ Reach(events) \in Nat
    BY <1>1, <1>2, LastSeqFacts, ReachType
  <2>2. {n} \subseteq 1..Reach(events')
    BY <2>1, <1>5
  <2>3. [m \in {n} |-> Stray] \in Copies(events')
    BY <2>2, CopyDef, DOMAIN [m \in {n} |-> Stray] = {n} DEF First, Stray
  <2>4. Merge(c, [m \in {n} |-> Stray]) \in Copies(events')
    BY <2>3, <1>2, MergeCopy
  <2> QED
    BY <2>4, <1>2, <1>5
<1> QED
  BY <1>1, <1>2, <1>3, <1>4, <1>5 DEF Edit, c

LEMMA EditType == ASSUME ESType, Edit PROVE ESType'
<1>1. /\ events' \in events..MaxEvents /\ stored'.links \in Copies(events')
      /\ stored' = [links |-> stored'.links, seen |-> stored.seen]
  BY EditLinks
<1>2. stored' \in Texts(events')
  BY <1>1, Lift DEF Texts
<1> QED
  BY <1>1, <1>2, Lift
  DEF ESType, Edit, keyVars, memoVars

LEMMA RestartsType == ASSUME ESType, Restarts PROVE ESType'
<1>1. events' \in events..MaxEvents /\ events' \in Nat
  BY BoundsAssumption DEF ESType, Restarts, Event
<1>2. Idle \in Jobs(events')
  BY <1>1, IdleType
<1>3. at' \in [Who -> Places] /\ job' \in [Who -> Jobs(events')] /\ asked' \in Seq(Asks(events'))
  BY <1>2 DEF Restarts, Places
<1> QED
  BY <1>1, <1>3, Lift DEF ESType, Restarts, keyVars

LEMMA AskType ==
  ASSUME ESType, NEW e \in events..MaxEvents, Ask([kind |-> "sync", added |-> <<>>, tag |-> Nil])
  PROVE  asked' \in Seq(Asks(e)) /\ asked' = Append(asked, [kind |-> "sync", added |-> <<>>, tag |-> Nil])
<1>1. asked \in Seq(Asks(e)) /\ <<>> \in Copies(e)
  BY Lift, EmptyCopy
<1>2. [kind |-> "sync", added |-> <<>>, tag |-> Nil] \in Asks(e)
  BY <1>1 DEF Asks, Tags
<1> QED
  BY <1>1, <1>2 DEF Ask

LEMMA syncType == ASSUME ESType, sync PROVE ESType'
<1>1. events \in events..MaxEvents
  BY BoundsAssumption DEF ESType
<1>2. asked' \in Seq(Asks(events))
  BY <1>1, AskType DEF sync
<1> QED
  BY <1>2 DEF ESType, sync, keyVars, storeVars, memoVars, pastVars

LEMMA SyncButtonType == ASSUME ESType, SyncButton PROVE ESType'
<1>1. events' \in events..MaxEvents
  BY BoundsAssumption DEF ESType, SyncButton, Event
<1>2. asked' \in Seq(Asks(events'))
  BY <1>1, AskType DEF SyncButton
<1>3. job["sync"] \in Jobs(events') /\ job \in [Who -> Jobs(events')]
  BY <1>1, Lift DEF Who
<1>4. [job["sync"] EXCEPT !.forgot = at["sync"] # "idle"] \in Jobs(events')
  BY <1>3 DEF Jobs
<1>5. job' \in [Who -> Jobs(events')]
  BY <1>3, <1>4 DEF SyncButton
<1> QED
  BY <1>1, <1>2, <1>5, Lift DEF ESType, SyncButton, keyVars, pastVars

LEMMA AskedType ==
  ASSUME ESType, asked # <<>>
  PROVE  /\ Head(asked) \in Asks(events) /\ Tail(asked) \in Seq(Asks(events))
         /\ Head(asked).added \in Copies(events) /\ Head(asked).tag \in Tags
<1>1. Head(asked) \in Asks(events) /\ Tail(asked) \in Seq(Asks(events))
  BY DEF ESType
<1> QED
  BY <1>1 DEF Asks

LEMMA SyncLoadsType == ASSUME ESType, SyncLoads PROVE ESType'
<1> DEFINE j == Head(asked)
           w == [Idle EXCEPT !.links = Loaded.links, !.seen = Loaded.seen, !.base = Loaded]
           k == [w EXCEPT !.links = Merge(@, j.added), !.tag = j.tag]
<1>1. j \in Asks(events) /\ Tail(asked) \in Seq(Asks(events)) /\ j.added \in Copies(events) /\ j.tag \in Tags
  BY AskedType DEF SyncLoads
<1>2. /\ Loaded \in Texts(events) /\ Loaded.links \in Copies(events) /\ Loaded.seen \in Hist
      /\ inMemory' = Loaded /\ storedText' \in Texts(events) \cup {Nil} /\ stored' = stored
  BY LoadedType DEF SyncLoads, loadMirror
<1>3. w \in Jobs(events) /\ w.links = Loaded.links
  <2>1. Idle \in Jobs(events)
    BY IdleType DEF ESType
  <2> QED
    BY <1>2, <2>1 DEF Jobs
<1>4. Merge(w.links, j.added) \in Copies(events)
  BY <1>1, <1>2, <1>3, MergeCopy
<1>5. k \in Jobs(events)
  BY <1>1, <1>3, <1>4 DEF Jobs
<1>6. events \in events..MaxEvents /\ Idle \in Jobs(events) /\ "sync" \in Who /\ {"head", "look", "idle"} \subseteq Places
  BY IdleType, BoundsAssumption DEF ESType, Who, Places, Checking
<1>7. \/ Go("sync", "head", w) /\ asked' = asked
      \/ Go("sync", "look", k) /\ asked' = asked
      \/ Go("sync", "idle", Idle) /\ asked' = Tail(asked)
  BY DEF SyncLoads, Done
<1> HIDE DEF w, k, j
<1>8. at' \in [Who -> Places] /\ job' \in [Who -> Jobs(events)] /\ asked' \in Seq(Asks(events))
  <2>1. CASE Go("sync", "head", w) /\ asked' = asked
    BY <2>1, <1>3, <1>6, GoType DEF ESType
  <2>2. CASE Go("sync", "look", k) /\ asked' = asked
    BY <2>2, <1>5, <1>6, GoType DEF ESType
  <2>3. CASE Go("sync", "idle", Idle) /\ asked' = Tail(asked)
    BY <2>3, <1>1, <1>6, GoType
  <2> QED
    BY <1>7, <2>1, <2>2, <2>3
<1> QED
  BY <1>2, <1>8 DEF ESType, SyncLoads, keyVars, memoVars, countVars, pastVars

LEMMA OfferType ==
  ASSUME ESType, NEW e \in Nat, e = events + 1, NEW x \in Offers
  PROVE  x \in Copies(e) /\ (x = <<>> \/ \E n \in Nat : DOMAIN x = {n} /\ x # <<>>)
<1>1. /\ Len(log) \in Nat /\ Len(log) + 1 <= Reach(e) /\ Reach(e) \in Nat
      /\ DOMAIN log = 1..Len(log) /\ \A n \in 1..Len(log) : log[n] \in First..Stray
  <2>1. Reach(e) = Reach(events) + 2 /\ Reach(e) \in Nat
    BY ReachType DEF ESType
  <2>2. {First, Second} \subseteq First..Stray
    BY DEF First, Second, Stray
  <2> QED
    BY <2>1, <2>2, LogFacts
<1>2. CASE x = <<>>
  BY <1>2, EmptyCopy
<1>3. ASSUME NEW n \in 1..Len(log), x = [m \in {n} |-> log[n]] PROVE x \in Copies(e) /\ DOMAIN x = {n}
  <2>1. DOMAIN x = {n} /\ x = [m \in DOMAIN x |-> x[m]] /\ \A m \in DOMAIN x : x[m] = log[n]
    BY <1>3
  <2>2. {n} \subseteq 1..Reach(e) /\ log[n] \in First..Stray
    BY <1>1
  <2> QED
    BY <2>1, <2>2, CopyDef
<1>4. ASSUME NEW n \in 1..(Len(log) + 1), x \in [{n} -> {Edited} \cup (0..(era - 1))]
      PROVE  x \in Copies(e) /\ DOMAIN x = {n}
  <2>1. {Edited} \cup (0..(era - 1)) \subseteq First..Stray
    BY DEF ESType, First, Second, Stray, Edited
  <2>2. DOMAIN x = {n} /\ x = [m \in DOMAIN x |-> x[m]] /\ \A m \in DOMAIN x : x[m] \in First..Stray
    BY <1>4, <2>1
  <2>3. {n} \subseteq 1..Reach(e)
    BY <1>1
  <2> QED
    BY <2>2, <2>3, CopyDef
<1>5. ASSUME NEW n \in Nat, DOMAIN x = {n} PROVE x # <<>>
  BY <1>5, EmptyCopy
<1>6. 1..Len(log) \subseteq Nat /\ 1..(Len(log) + 1) \subseteq Nat
  BY <1>1
<1>7. CASE x \in {[m \in {n} |-> log[n]] : n \in DOMAIN log}
  <2>1. PICK n \in DOMAIN log : x = [m \in {n} |-> log[n]]
    BY <1>7
  <2> QED
    BY <2>1, <1>1, <1>3, <1>5, <1>6
<1>8. CASE x \in UNION {[{n} -> {Edited} \cup (0..(era - 1))] : n \in 1..(Len(log) + 1)}
  <2>1. PICK n \in 1..(Len(log) + 1) : x \in [{n} -> {Edited} \cup (0..(era - 1))]
    BY <1>8
  <2> QED
    BY <2>1, <1>4, <1>5, <1>6
<1> QED
  BY <1>2, <1>7, <1>8 DEF Offers

LEMMA mergeOfferedType == ASSUME ESType, mergeOffered PROVE ESType'
<1>1. events' = events + 1 /\ events' \in events..MaxEvents /\ events' \in Nat
  BY BoundsAssumption DEF ESType, mergeOffered, Event
<1>2. PICK x \in Offers :
        Go("offer", "head", [Idle EXCEPT !.links = Merge(Loaded.links, x),
               !.seen = Loaded.seen, !.added = x,
               !.tag = IF x = <<>> THEN Nil ELSE events + 1])
  BY DEF mergeOffered
<1> DEFINE t == IF x = <<>> THEN Nil ELSE events + 1
           c == Merge(Loaded.links, x)
           w == [Idle EXCEPT !.links = c, !.seen = Loaded.seen, !.added = x, !.tag = t]
<1>3. x \in Copies(events')
  BY <1>1, OfferType
<1>4. /\ Loaded \in Texts(events) /\ Loaded.links \in Copies(events) /\ Loaded.seen \in Hist
      /\ inMemory' = Loaded /\ storedText' \in Texts(events) \cup {Nil} /\ stored' = stored
  BY LoadedType DEF mergeOffered, loadMirror
<1>5. Loaded.links \in Copies(events') /\ Loaded \in Texts(events') /\ storedText' \in Texts(events') \cup {Nil}
  BY <1>1, <1>4, CopiesGrow DEF ESType
<1>6. c \in Copies(events') /\ t \in Tags
  BY <1>1, <1>3, <1>5, MergeCopy DEF Tags, ESType
<1>7. w \in Jobs(events')
  <2> HIDE DEF c, t
  <2>1. Idle \in Jobs(events')
    BY <1>1, IdleType
  <2> QED
    BY <2>1, <1>3, <1>4, <1>6 DEF Jobs
<1>8. Go("offer", "head", w)
  BY <1>2
<1> HIDE DEF w
<1>9. at' \in [Who -> Places] /\ job' \in [Who -> Jobs(events')]
  BY <1>1, <1>7, <1>8, GoType DEF Who, Places, Checking
<1> QED
  BY <1>1, <1>4, <1>5, <1>9, Lift DEF ESType, mergeOffered, keyVars, memoVars

LEMMA StraysType ==
  ASSUME NEW e \in Nat, NEW c \in Copies(e), NEW seen, NEW k
  PROVE  /\ setAsideStrays(c, seen, k) \in Copies(e)
         /\ DOMAIN setAsideStrays(c, seen, k) \subseteq DOMAIN c
         /\ \A n \in DOMAIN setAsideStrays(c, seen, k) : setAsideStrays(c, seen, k)[n] = c[n]
<1> DEFINE stray(n) == n > k /\ n > Len(seen) /\ ~Welds(c, n)
           S == {n \in DOMAIN c : \E m \in DOMAIN c : m >= n /\ ~stray(m)}
<1>1. setAsideStrays(c, seen, k) = Only(c, S)
  BY DEF setAsideStrays
<1> HIDE DEF S
<1>2. /\ Only(c, S) \in Copies(e) /\ DOMAIN Only(c, S) = DOMAIN c \cap S
      /\ \A n \in DOMAIN c \cap S : Only(c, S)[n] = c[n]
  BY OnlyCopy
<1> QED
  BY <1>1, <1>2

LEMMA ReadHeadType == ASSUME ESType, NEW p \in Who, ReadHead(p) PROVE ESType'
<1> DEFINE w == [job[p] EXCEPT !.head = log, !.vhead = log]
           kept == setAsideStrays(w.links, w.seen, Len(log))
           f == IF LastSeq(kept) + 1 > oldest THEN LastSeq(kept) + 1 ELSE oldest
           r == [w EXCEPT !.links = kept, !.from = f]
<1>1. job[p] \in Jobs(events) /\ log \in Hist /\ events \in Nat /\ events \in events..MaxEvents /\ oldest \in Nat
  BY BoundsAssumption DEF ESType
<1>2. w \in Jobs(events) /\ w.links \in Copies(events)
  BY <1>1 DEF Jobs
<1>3. (p = "sync" /\ Go(p, "read", r)) \/ Go(p, "key", w)
  BY DEF ReadHead
<1> HIDE DEF w
<1>4. kept \in Copies(events)
  BY <1>1, <1>2, StraysType
<1> HIDE DEF kept
<1>5. LastSeq(kept) \in Nat
  BY <1>1, <1>4, LastSeqFacts, ReachType
<1>6. f \in Nat
  BY <1>5, <1>1
<1> HIDE DEF f
<1>7. r \in Jobs(events)
  BY <1>2, <1>4, <1>6 DEF Jobs
<1> HIDE DEF r
<1>8. at' \in [Who -> Places] /\ job' \in [Who -> Jobs(events)]
  <2>1. CASE p = "sync" /\ Go(p, "read", r)
    BY <2>1, <1>1, <1>7, GoType DEF Places, Checking
  <2>2. CASE Go(p, "key", w)
    BY <2>2, <1>1, <1>2, GoType DEF Places, Checking
  <2> QED
    BY <1>3, <2>1, <2>2
<1> QED
  BY <1>8 DEF ESType, ReadHead, keyVars, storeVars, memoVars, countVars, pastVars

LEMMA MergeLog ==
  ASSUME NEW e, NEW c \in Copies(e), NEW S \in SUBSET (1..Reach(e)), \A n \in S : log[n] \in First..Stray
  PROVE  LET d == Merge(c, [n \in S |-> log[n]]) IN
         /\ d \in Copies(e) /\ DOMAIN d = DOMAIN c \cup S
         /\ \A n \in DOMAIN c : d[n] = c[n]
         /\ \A n \in S \ DOMAIN c : d[n] = log[n]
<1> DEFINE x == [n \in S |-> log[n]]
<1>1. DOMAIN x = S /\ x = [n \in DOMAIN x |-> x[n]] /\ \A n \in S : x[n] = log[n]
  OBVIOUS
<1> HIDE DEF x
<1>2. x \in Copies(e)
  BY <1>1, CopyDef
<1>3. Merge(c, x) \in Copies(e)
  BY <1>2, MergeCopy
<1>4. DOMAIN Merge(c, x) = DOMAIN c \cup DOMAIN x
  BY DEF Merge
<1>5. /\ \A n \in DOMAIN c : Merge(c, x)[n] = c[n]
      /\ \A n \in DOMAIN x \ DOMAIN c : Merge(c, x)[n] = x[n]
  BY DEF Merge
<1> QED
  BY <1>1, <1>3, <1>4, <1>5 DEF x

\* A batch: what is taken, and the job after it.
\* What one batch did: the copy c is the job's with links of the key's log behind it.
BatchRead(c, f, t, a) ==
  /\ Go("sync", a, [job["sync"] EXCEPT !.links = c, !.from = f, !.tag = t])
  /\ DOMAIN job["sync"].links \subseteq DOMAIN c
  /\ \A n \in DOMAIN job["sync"].links : c[n] = job["sync"].links[n]
  /\ \A n \in DOMAIN c \ DOMAIN job["sync"].links :
       /\ n \in 1..Len(log) /\ n <= Len(job["sync"].head) /\ c[n] = log[n]
       /\ n > LastSeq(job["sync"].links)

LEMMA BatchFacts ==
  ASSUME ESType, ReadBatch
  PROVE  \E c \in Copies(events), f \in Nat, t \in {job["sync"].tag, 0}, a \in {"read", "key"} : BatchRead(c, f, t, a)
<1> DEFINE w == job["sync"]
           first == IF w.from > oldest THEN w.from ELSE oldest
           last == IF w.from + READ_BATCH - 1 < Len(log) THEN w.from + READ_BATCH - 1 ELSE Len(log)
           got == first..last
           taken == Taken(w, got)
           new == [n \in taken |-> log[n]]
           c == Merge(w.links, new)
           t == IF taken = {} THEN w.tag ELSE 0
<1>1. /\ w \in Jobs(events) /\ w.links \in Copies(events) /\ w.from \in Nat /\ w.head \in Hist /\ w.tag \in Tags
      /\ events \in Nat /\ oldest \in Nat \ {0}
  BY DEF ESType, Who, Jobs
<1>2. /\ Len(log) \in Nat /\ Len(log) <= Reach(events) /\ Reach(events) \in Nat
      /\ \A n \in 1..Len(log) : log[n] \in First..Stray
  BY LogFacts DEF First, Second, Stray
<1>3. CASE Go("sync", "key", w)
  <2>1. w = [w EXCEPT !.links = w.links, !.from = w.from, !.tag = w.tag]
    BY <1>1 DEF Jobs
  <2>2. BatchRead(w.links, w.from, w.tag, "key")
    BY <1>3, <2>1 DEF BatchRead
  <2>3. w.links \in Copies(events) /\ w.from \in Nat /\ w.tag \in {job["sync"].tag, 0} /\ "key" \in {"read", "key"}
    BY <1>1
  <2> QED
    BY <2>2, <2>3
<1>4. CASE got # {} /\ Go("sync", IF taken = got /\ last < Len(w.head) THEN "read" ELSE "key",
                          [w EXCEPT !.links = c, !.from = last + 1, !.tag = t])
  <2>1. last \in Int /\ last <= Len(log) /\ first >= 1 /\ first \in Nat
    BY <1>1, <1>2, BoundsAssumption
  <2>2. last + 1 \in Nat
    BY <2>1, <1>4
  <2>3. taken \subseteq got /\ \A n \in taken : n <= Len(w.head) /\ n > LastSeq(w.links)
    <3> HIDE DEF got, w
    <3>1. \A n \in got : n \in Int
      BY DEF got
    <3> QED
      BY <3>1 DEF Taken
  <2>4. got \subseteq 1..Len(log)
    BY <2>1, <1>2
  <2>5. taken \subseteq 1..Reach(events) /\ \A n \in taken : log[n] \in First..Stray
    BY <2>3, <2>4, <1>2
  <2> HIDE DEF taken, w
  <2>6. w.links \in Copies(events) /\ taken \in SUBSET (1..Reach(events))
    BY <1>1, <2>5
  <2>8. /\ c \in Copies(events) /\ DOMAIN c = DOMAIN w.links \cup taken
        /\ \A n \in DOMAIN w.links : c[n] = w.links[n]
        /\ \A n \in taken \ DOMAIN w.links : c[n] = log[n]
    BY <2>5, <2>6, MergeLog
  <2>9. t \in {w.tag, 0}
    OBVIOUS
  <2> DEFINE a == IF taken = got /\ last < Len(w.head) THEN "read" ELSE "key"
  <2>10. a \in {"read", "key"} /\ Go("sync", a, [w EXCEPT !.links = c, !.from = last + 1, !.tag = t])
    BY <1>4
  <2>11. \A n \in DOMAIN c \ DOMAIN w.links :
           n \in 1..Len(log) /\ n <= Len(w.head) /\ c[n] = log[n] /\ n > LastSeq(w.links)
    BY <2>3, <2>4, <2>8
  <2> DEFINE f == last + 1
  <2>12. f \in Nat /\ Go("sync", a, [w EXCEPT !.links = c, !.from = f, !.tag = t])
    BY <2>2, <2>10
  <2>13. /\ DOMAIN w.links \subseteq DOMAIN c
         /\ \A n \in DOMAIN w.links : c[n] = w.links[n]
    BY <2>8
  <2> HIDE DEF c, t, a, f
  <2>14. /\ c \in Copies(events) /\ f \in Nat /\ t \in {w.tag, 0} /\ a \in {"read", "key"}
         /\ Go("sync", a, [w EXCEPT !.links = c, !.from = f, !.tag = t])
    BY <2>8, <2>9, <2>10, <2>12
  <2>15. BatchRead(c, f, t, a)
    BY <2>11, <2>13, <2>14 DEF w, BatchRead
  <2>16. c \in Copies(events) /\ f \in Nat /\ t \in {job["sync"].tag, 0} /\ a \in {"read", "key"}
    BY <2>14 DEF w
  <2> QED
    BY <2>15, <2>16
<1>5. Go("sync", "key", w) \/ (got # {} /\ Go("sync", IF taken = got /\ last < Len(w.head) THEN "read" ELSE "key",
                          [w EXCEPT !.links = c, !.from = last + 1, !.tag = t]))
  BY DEF ReadBatch
<1> QED
  BY <1>3, <1>4, <1>5

LEMMA ReadBatchType == ASSUME ESType, ReadBatch PROVE ESType'
<1>1. PICK c \in Copies(events), f \in Nat, t \in {job["sync"].tag, 0}, a \in {"read", "key"} :
        Go("sync", a, [job["sync"] EXCEPT !.links = c, !.from = f, !.tag = t])
  BY BatchFacts DEF BatchRead
<1>2. job["sync"] \in Jobs(events) /\ t \in Tags /\ events \in events..MaxEvents
  BY BoundsAssumption DEF ESType, Who, Jobs, Tags
<1>3. [job["sync"] EXCEPT !.links = c, !.from = f, !.tag = t] \in Jobs(events)
  BY <1>2 DEF Jobs
<1>4. at' \in [Who -> Places] /\ job' \in [Who -> Jobs(events)]
  BY <1>1, <1>2, <1>3, GoType DEF Places, Checking, Who
<1> QED
  BY <1>4 DEF ESType, ReadBatch, keyVars, storeVars, memoVars, countVars, pastVars

LEMMA CheckpointsType == ASSUME ESType, NEW w PROVE Checkpoints(w) \subseteq Hist \cup {Nil}
<1>1. log \in Hist /\ \A s \in signed : s.cp \in Hist \cup {Nil}
  BY DEF ESType, Marks
<1> QED
  BY <1>1 DEF Checkpoints

LEMMA copyKeyType == ASSUME ESType, NEW p \in Who, copyKey(p) PROVE ESType'
<1>1. PICK cp \in Checkpoints(job[p]) :
        Go(p, IF job[p].again THEN "ring" ELSE "check", [job[p] EXCEPT !.cp = cp])
  BY DEF copyKey
<1>2. job[p] \in Jobs(events) /\ cp \in Hist \cup {Nil} /\ events \in events..MaxEvents
  BY CheckpointsType, BoundsAssumption DEF ESType
<1>3. [job[p] EXCEPT !.cp = cp] \in Jobs(events)
  BY <1>2 DEF Jobs
<1> DEFINE a == IF job[p].again THEN "ring" ELSE "check"
<1>4. a \in Places /\ Go(p, a, [job[p] EXCEPT !.cp = cp])
  BY <1>1 DEF Places, Checking
<1>5. at' \in [Who -> Places] /\ job' \in [Who -> Jobs(events)]
  BY <1>2, <1>3, <1>4, GoType
<1> QED
  BY <1>5 DEF ESType, copyKey, keyVars, storeVars, memoVars, countVars, pastVars

\* Where a check that ends leaves the queue and the job.
LEMMA EndsType ==
  ASSUME ESType, NEW p \in Who, NEW w \in Jobs(events), NEW v \in Verdicts, NEW held, NEW full, Ends(p, w, v, held, full)
  PROVE  at' \in [Who -> Places] /\ job' \in [Who -> Jobs(events)] /\ asked' \in Seq(Asks(events))
<1>1. events \in Nat /\ events \in events..MaxEvents
  BY BoundsAssumption DEF ESType
<1>2. CASE p = "sync"
  <2> DEFINE r == [w EXCEPT !.seen = SeenAfter(w, v), !.verdict = v]
  <2>1. SeenAfter(w, v) \in Hist
    BY DEF SeenAfter, Jobs
  <2>2. r \in Jobs(events)
    BY <2>1 DEF Jobs
  <2>3. Go(p, "look", r) /\ asked' = asked
    BY <1>2 DEF Ends
  <2> HIDE DEF r
  <2> QED
    BY <2>2, <2>3, <1>1, GoType DEF ESType, Places
<1>3. CASE p # "sync"
  <2> DEFINE a == [kind |-> "keep", added |-> w.added, tag |-> w.tag]
  <2>1. Go(p, "idle", Idle) /\ (asked' = Append(asked, a) \/ asked' = asked)
    BY <1>3 DEF Ends, Done
  <2>2. a \in Asks(events)
    BY DEF Asks, Jobs
  <2>3. Idle \in Jobs(events) /\ "idle" \in Places
    BY <1>1, IdleType DEF Places
  <2> HIDE DEF a
  <2>4. asked' \in Seq(Asks(events))
    BY <2>1, <2>2 DEF ESType
  <2> QED
    BY <2>1, <2>3, <2>4, <1>1, GoType
<1> QED
  BY <1>2, <1>3

LEMMA ShortType ==
  ASSUME ESType, NEW p \in Who, NEW w \in Jobs(events), NEW held, Short(p, w, held)
  PROVE  /\ at' \in [Who -> Places] /\ job' \in [Who -> Jobs(events)] /\ asked' \in Seq(Asks(events))
         /\ verifiedNow' \in Results(events) \cup {Nil} /\ signed' = signed
<1>1. CASE Skips(w) /\ Ends(p, w, verifiedNow.verdict, {}, FALSE) /\ UNCHANGED <<verifiedNow, signed>>
  <2>1. verifiedNow.verdict \in Verdicts
    BY <1>1 DEF Skips, ESType, Results
  <2> QED
    BY <1>1, <2>1, EndsType DEF ESType
<1>2. CASE Ends(p, w, "verified", held, FALSE) /\ remember(w, "verified") /\ UNCHANGED signed
  <2>1. verifiedNow' \in Results(events)
    BY <1>2 DEF remember, Results, Jobs, Verdicts
  <2>2. "verified" \in Verdicts
    BY DEF Verdicts
  <2> QED
    BY <1>2, <2>1, <2>2, EndsType
<1> QED
  BY <1>1, <1>2 DEF Short

LEMMA CheckShortType == ASSUME ESType, NEW p \in Who, CheckShort(p) PROVE ESType'
<1> DEFINE w == job[p]
<1>1. w \in Jobs(events) /\ events \in events..MaxEvents
  BY BoundsAssumption DEF ESType
<1>2. CASE Short(p, w, {})
  <2>1. /\ at' \in [Who -> Places] /\ job' \in [Who -> Jobs(events)] /\ asked' \in Seq(Asks(events))
        /\ verifiedNow' \in Results(events) \cup {Nil} /\ signed' = signed
    BY <1>1, <1>2, ShortType
  <2> QED
    BY <2>1 DEF ESType, CheckShort, keyVars, storeVars, countVars
<1>3. CASE ~Short(p, w, {})
  <2>1. /\ verifiedNow' \in {verifiedNow, Nil} /\ asked' = asked /\ signed' = signed
        /\ \E cp \in Checkpoints(w) \cup {w.cp} : Go(p, "ring", [w EXCEPT !.cp = cp])
    BY <1>3 DEF CheckShort
  <2>2. PICK cp \in Checkpoints(w) \cup {w.cp} : Go(p, "ring", [w EXCEPT !.cp = cp])
    BY <2>1
  <2>3. cp \in Hist \cup {Nil}
    BY <1>1, CheckpointsType DEF Jobs
  <2>4. [w EXCEPT !.cp = cp] \in Jobs(events)
    BY <1>1, <2>3 DEF Jobs
  <2>5. at' \in [Who -> Places] /\ job' \in [Who -> Jobs(events)]
    BY <1>1, <2>2, <2>4, GoType DEF Places, Checking
  <2> QED
    BY <2>1, <2>5 DEF ESType, CheckShort, keyVars, storeVars, countVars
<1> QED
  BY <1>2, <1>3

\* A mark names a prefix of the head that the signature was for.
LEMMA VouchedType ==
  ASSUME NEW e \in Nat, NEW w \in Jobs(e), hybridOk(w), LastSeq(w.links) <= Len(w.vhead)
  PROVE  Vouched(w) \in Marks
<1>1. LastSeq(w.links) \in Nat
  BY LastSeqFacts, ReachType DEF Jobs
<1>2. SubSeq(w.vhead, 1, LastSeq(w.links)) \in Hist
  BY <1>1 DEF Jobs, Hist
<1> QED
  BY <1>2 DEF Vouched, Marks, Jobs

LEMMA CheckFullType == ASSUME ESType, NEW p \in Who, CheckFull(p) PROVE ESType'
<1> DEFINE w == job[p]
           held == {n \in oldest..Len(log) : n <= Len(w.vhead) /\ log[n] = w.vhead[n]}
           v == evaluate(w, held)
<1>1. w \in Jobs(events) /\ events \in Nat /\ events \in events..MaxEvents
  BY BoundsAssumption DEF ESType
<1> HIDE DEF held
<1>2. CASE Short(p, w, held)
  <2>1. /\ at' \in [Who -> Places] /\ job' \in [Who -> Jobs(events)] /\ asked' \in Seq(Asks(events))
        /\ verifiedNow' \in Results(events) \cup {Nil} /\ signed' = signed
    BY <1>1, <1>2, ShortType
  <2> QED
    BY <2>1 DEF ESType, CheckFull, keyVars, storeVars, countVars
<1>3. CASE ~Short(p, w, held)
  <2>1. /\ IF v = "unsigned" THEN verifiedNow' = Nil ELSE remember(w, v)
        /\ signed' = IF hybridOk(w) /\ v = "verified" THEN signed \cup {Vouched(w)} ELSE signed
        /\ \/ Go(p, "again", [w EXCEPT !.again = TRUE]) /\ asked' = asked
           \/ Ends(p, w, v, held, TRUE)
    BY <1>3 DEF CheckFull, held
  <2>2. v \in Verdicts /\ (v = "verified" => LastSeq(w.links) <= Len(w.vhead))
    BY <1>1, EvaluateFacts
  <2>3. hybridOk(w) /\ v = "verified" => Vouched(w) \in Marks
    BY <1>1, <2>2, VouchedType
  <2> HIDE DEF v
  <2>4. verifiedNow' \in Results(events) \cup {Nil}
    BY <1>1, <2>1, <2>2 DEF remember, Results, Jobs
  <2>5. signed' \subseteq Marks
    BY <2>1, <2>3 DEF ESType
  <2>6. at' \in [Who -> Places] /\ job' \in [Who -> Jobs(events)] /\ asked' \in Seq(Asks(events))
    <3>1. CASE Go(p, "again", [w EXCEPT !.again = TRUE]) /\ asked' = asked
      <4>1. [w EXCEPT !.again = TRUE] \in Jobs(events)
        BY <1>1 DEF Jobs
      <4> QED
        BY <1>1, <3>1, <4>1, GoType DEF Places, Checking, ESType
    <3>2. CASE Ends(p, w, v, held, TRUE)
      BY <1>1, <2>2, <3>2, EndsType
    <3> QED
      BY <2>1, <3>1, <3>2
  <2> QED
    BY <2>4, <2>5, <2>6 DEF ESType, CheckFull, keyVars, storeVars, countVars
<1> QED
  BY <1>2, <1>3

LEMMA HeadAgainType == ASSUME ESType, NEW p \in Who, HeadAgain(p) PROVE ESType'
<1>1. job[p] \in Jobs(events) /\ log \in Hist /\ events \in events..MaxEvents
  BY BoundsAssumption DEF ESType
<1>2. [job[p] EXCEPT !.vhead = log] \in Jobs(events)
  BY <1>1 DEF Jobs
<1>3. at' \in [Who -> Places] /\ job' \in [Who -> Jobs(events)]
  BY <1>1, <1>2, GoType DEF HeadAgain, Places, Checking
<1> QED
  BY <1>3 DEF ESType, HeadAgain, keyVars, storeVars, memoVars, countVars, pastVars

LEMMA TailType == ASSUME NEW S, NEW s \in Seq(S), s # <<>> PROVE Tail(s) \in Seq(S)
OBVIOUS

LEMMA FailsType == ASSUME ESType, Busy, NEW p \in Who, Fails(p) PROVE ESType'
<1>1. events' \in events..MaxEvents /\ events' \in Nat
  BY BoundsAssumption DEF ESType, Fails, Event
<1>2. at' \in [Who -> Places] /\ job' \in [Who -> Jobs(events')]
  BY <1>1, IdleType, GoType DEF Fails, Done, Places
<1>3. asked' \in Seq(Asks(events'))
  <2>1. asked \in Seq(Asks(events')) /\ (p = "sync" => asked # <<>>)
    BY <1>1, Lift DEF Fails, Busy
  <2> QED
    BY <2>1, TailType DEF Fails
<1> QED
  BY <1>1, <1>2, <1>3, Lift DEF ESType, Fails, keyVars, storeVars, memoVars, pastVars

LEMMA SaveLooksType == ASSUME ESType, SaveLooks PROVE ESType'
<1> DEFINE w == job["sync"]
<1>1. /\ w \in Jobs(events) /\ events \in events..MaxEvents /\ "sync" \in Who
      /\ {"record", "write"} \subseteq Places
  BY BoundsAssumption DEF ESType, Who, Places
<1>2. Text(w) \in Texts(events)
  BY <1>1 DEF Text, Texts, Jobs, Hist
<1>3. Go("sync", "record", w) \/ Go("sync", "write", w)
  BY DEF SaveLooks
<1>4. at' \in [Who -> Places] /\ job' \in [Who -> Jobs(events)]
  BY <1>1, <1>3, GoType
<1>5. inMemory' \in Texts(events) \cup {Nil} /\ answer' \in Answers \cup {Nil}
  BY <1>2 DEF SaveLooks, ESType
<1>6. verifiedNow' \in Results(events) \cup {Nil}
  <2>1. verifiedNow' \in {Nil, verifiedNow} \/ (verifiedNow # Nil /\ verifiedNow' = [verifiedNow EXCEPT !.tag = Nil])
    BY DEF SaveLooks
  <2>2. verifiedNow # Nil => [verifiedNow EXCEPT !.tag = Nil] \in Results(events)
    BY DEF ESType, Results, Tags
  <2> QED
    BY <2>1, <2>2 DEF ESType
<1>7. unread' \in BOOLEAN
  BY DEF SaveLooks, ESType
<1> QED
  BY <1>4, <1>5, <1>6, <1>7 DEF ESType, SaveLooks, keyVars, countVars

LEMMA SaveWritesType == ASSUME ESType, SaveWrites PROVE ESType'
<1> DEFINE w == job["sync"]
<1>1. /\ w \in Jobs(events) /\ events \in events..MaxEvents /\ "sync" \in Who
      /\ {"record", "write"} \subseteq Places
  BY BoundsAssumption DEF ESType, Who, Places
<1>2. Text(w) \in Texts(events)
  BY <1>1 DEF Text, Texts, Jobs, Hist
<1>3. at' \in [Who -> Places] /\ job' \in [Who -> Jobs(events)]
  BY <1>1, GoType DEF SaveWrites
<1>4. firstHead' \in Hist /\ lastHead' \in Hist
  BY <1>1 DEF SaveWrites, ESType, Jobs
<1> QED
  BY <1>2, <1>3, <1>4 DEF ESType, SaveWrites, keyVars, memoVars, countVars

LEMMA recordType == ASSUME ESType, Busy, record PROVE ESType'
<1> DEFINE w == job["sync"]
<1>1. w \in Jobs(events) /\ events \in events..MaxEvents /\ events \in Nat /\ "sync" \in Who
  BY BoundsAssumption DEF ESType, Who
<1>2. at' \in [Who -> Places] /\ job' \in [Who -> Jobs(events)]
  BY <1>1, IdleType, GoType DEF record, Done, Places
<1>3. answer' \in Answers \cup {Nil}
  <2> DEFINE vouched == w.verdict \in Good /\ Len(w.seen) = Len(w.vhead)
  <2>1. answer' = IF w.verdict = "none" THEN answer
                  ELSE [verdict |-> w.verdict, ok |-> w.verdict = "verified" /\ vouched,
                        head |-> IF vouched THEN w.seen ELSE Nil]
    BY DEF record
  <2> HIDE DEF vouched
  <2>2. w.verdict \in Verdicts \cup {"none"} /\ w.seen \in Hist
    BY <1>1 DEF Jobs
  <2> QED
    BY <2>1, <2>2 DEF Answers, ESType
<1>4. alarm' \in BOOLEAN
  BY DEF record, ESType
<1>5. asked' \in Seq(Asks(events))
  BY TailType DEF record, ESType, Busy
<1> QED
  BY <1>2, <1>3, <1>4, <1>5 DEF ESType, record, keyVars, storeVars, countVars

LEMMA InitType == ESInit => ESType
<1> SUFFICES ASSUME ESInit PROVE ESType
  OBVIOUS
<1>1. PICK n \in Before : log = [i \in 1..n |-> First] /\ oldest = FirstHeld(n)
  BY DEF ESInit
<1>2. n \in Nat /\ n <= Longest /\ Longest \in Nat
  BY LongestType, BoundsAssumption
<1>3. log \in Hist /\ Len(log) = n
  BY <1>1, <1>2 DEF Hist, First
<1>4. oldest \in Nat \ {0}
  BY <1>1, <1>2, BoundsAssumption DEF FirstHeld
<1>5. Idle \in Jobs(0) /\ Empty0 \in Texts(0)
  BY IdleType
<1>6. /\ stored \in Texts(0) /\ job \in [Who -> Jobs(0)] /\ at \in [Who -> Places] /\ asked \in Seq(Asks(0))
      /\ events = 0 /\ grown = 0 /\ edits = 0
  BY <1>5 DEF ESInit, Places
<1>7. /\ signed \subseteq Marks /\ {unread, crossed, alarm} \subseteq BOOLEAN /\ era \in {First, Second}
      /\ inMemory = Nil /\ storedText = Nil /\ verifiedNow = Nil /\ answer = Nil
  BY DEF ESInit
<1>8. /\ Len(log) <= Longest + grown /\ grown \in 0..MaxLinks /\ events \in 0..MaxEvents
      /\ firstHead \in Hist /\ lastHead \in Hist
  BY <1>2, <1>3, <1>6, BoundsAssumption DEF ESInit, Hist
<1> QED
  BY <1>3, <1>4, <1>6, <1>7, <1>8 DEF ESType

LEMMA StepType == ESType /\ Busy /\ [ESNext]_esVars => ESType'
<1> SUFFICES ASSUME ESType, Busy, [ESNext]_esVars PROVE ESType'
  OBVIOUS
<1>1. CASE World
  BY <1>1, KeyLinksType, KeyRestartsType, KeyPutBackType, EditType, RestartsType, syncType, SyncButtonType DEF World
<1>2. CASE SyncLoads \/ mergeOffered \/ ReadBatch \/ SaveLooks \/ SaveWrites \/ record
  BY <1>2, SyncLoadsType, mergeOfferedType, ReadBatchType, SaveLooksType, SaveWritesType, recordType
<1>3. ASSUME NEW p \in Who, Check(p) PROVE ESType'
  BY <1>3, ReadHeadType, copyKeyType, CheckShortType, CheckFullType, HeadAgainType, FailsType DEF Check
<1>4. CASE UNCHANGED esVars
  BY <1>4 DEF esVars, keyVars, storeVars, memoVars, countVars, pastVars, ESType
<1> QED
  BY <1>1, <1>2, <1>3, <1>4 DEF ESNext

\* Where a step leaves the queue.
LEMMA AppendIsBusy == ASSUME ESType, NEW a PROVE Append(asked, a) # <<>>
BY DEF ESType

LEMMA EndsBusy ==
  ASSUME ESType, Busy, NEW p \in Who, at[p] # "idle", NEW w, NEW v, NEW held, NEW full, Ends(p, w, v, held, full)
  PROVE  Busy'
<1>1. at'["sync"] # "idle" => at["sync"] # "idle"
  BY DEF Ends, Done, Go, ESType, Who
<1>2. asked' = asked \/ \E a : asked' = Append(asked, a)
  BY DEF Ends
<1> QED
  BY <1>1, <1>2, AppendIsBusy DEF Busy

LEMMA CheckBusy == ASSUME ESType, Busy, NEW p \in Who, Check(p) PROVE Busy'
<1>1. at \in [Who -> Places]
  BY DEF ESType
<1>2. CASE ReadHead(p) \/ copyKey(p) \/ HeadAgain(p)
  <2>1. asked' = asked /\ at[p] # "idle" /\ \E a : at' = [at EXCEPT ![p] = a]
    BY <1>2 DEF ReadHead, copyKey, HeadAgain, Go
  <2> QED
    BY <1>1, <2>1 DEF Busy
<1>3. CASE Fails(p)
  <2>1. at' = [at EXCEPT ![p] = "idle"] /\ (p # "sync" => asked' = asked)
    BY <1>3 DEF Fails, Done, Go
  <2> QED
    BY <1>1, <2>1 DEF Busy
<1>4. CASE CheckShort(p) \/ CheckFull(p)
  <2>1. at[p] # "idle"
    BY <1>4 DEF CheckShort, CheckFull
  <2>2. \/ \E w, v, h, full : Ends(p, w, v, h, full)
        \/ asked' = asked /\ \E a, w : Go(p, a, w)
    BY <1>4 DEF CheckShort, CheckFull, Short
  <2>3. CASE \E w, v, h, full : Ends(p, w, v, h, full)
    BY <2>1, <2>3, EndsBusy
  <2>4. CASE asked' = asked /\ \E a, w : Go(p, a, w)
    BY <1>1, <2>1, <2>4 DEF Go, Busy
  <2> QED
    BY <2>2, <2>3, <2>4
<1> QED
  BY <1>2, <1>3, <1>4 DEF Check

LEMMA StepBusy == ESType /\ Busy /\ [ESNext]_esVars => Busy'
<1> SUFFICES ASSUME ESType, Busy, [ESNext]_esVars PROVE Busy'
  OBVIOUS
<1>0. at \in [Who -> Places] /\ "sync" \in Who /\ "offer" \in Who
  BY DEF ESType, Who
<1>1. CASE KeyLinks \/ KeyRestarts \/ KeyPutBack \/ Edit \/ SaveLooks \/ SaveWrites \/ UNCHANGED esVars
  <2>1. asked' = asked /\ (at' = at \/ at["sync"] # "idle")
    BY <1>1 DEF KeyLinks, KeyRestarts, KeyPutBack, Edit, SaveLooks, SaveWrites, esVars
  <2> QED
    BY <2>1 DEF Busy
<1>2. CASE Restarts
  BY <1>0, <1>2 DEF Restarts, Busy
<1>3. CASE sync \/ SyncButton
  BY <1>3, AppendIsBusy DEF sync, SyncButton, Ask, Busy
<1>4. CASE SyncLoads
  <2>1. asked # <<>> /\ (asked' = asked \/ at' = [at EXCEPT !["sync"] = "idle"])
    BY <1>4 DEF SyncLoads, Done, Go
  <2> QED
    BY <1>0, <2>1 DEF Busy
<1>5. CASE mergeOffered
  BY <1>0, <1>5 DEF mergeOffered, Go, Busy
<1>6. CASE ReadBatch
  BY <1>6 DEF ReadBatch, Busy
<1>7. CASE record
  BY <1>0, <1>7 DEF record, Done, Go, Busy
<1>8. ASSUME NEW p \in Who, Check(p) PROVE Busy'
  BY <1>8, CheckBusy
<1> QED
  BY <1>1, <1>2, <1>3, <1>4, <1>5, <1>6, <1>7, <1>8 DEF ESNext, World

LEMMA TypeAlways == ESSpec => [](ESType /\ Busy)
<1>1. ESInit => Busy
  BY DEF ESInit, Busy, Who
<1> QED
  BY <1>1, InitType, StepType, StepBusy, PTL DEF ESSpec

(***************************************************************************)
(* Every copy, head and verdict of the app has its form, and no copy       *)
(* reaches further than the key's links and what was put behind them.      *)
(***************************************************************************)
THEOREM CopyAlwaysTyped == ESSpec => []ESType
BY TypeAlways, PTL

-----------------------------------------------------------------------------
(* Memory, store and lastSeen *)

LEMMA TextIsNotNil == ASSUME ESType, NEW t \in Texts(events) PROVE t # Nil
<1>1. Texts(events) \subseteq Texts(MaxEvents)
  BY CopiesGrow, BoundsAssumption DEF ESType
<1> QED
  BY <1>1, NilAssumption

\* A step that leaves the store alone: the job stays, goes on, ends its check, or is over.
Quiet ==
  /\ UNCHANGED <<storeVars, firstHead, unread, crossed>>
  /\ "full" \in slipped' => "full" \in slipped
  /\ \/ at'["sync"] = at["sync"] /\ job'["sync"] = job["sync"]
     \/ /\ at["sync"] \in Checking /\ at'["sync"] \in Checking
        /\ job'["sync"].base = job["sync"].base /\ job'["sync"].forgot = job["sync"].forgot
        /\ job'["sync"].seen = job["sync"].seen
     \/ /\ at["sync"] \in Checking /\ at'["sync"] = "look"
        /\ job'["sync"].base = job["sync"].base /\ job'["sync"].forgot = job["sync"].forgot
        /\ job'["sync"].seen = IF job'["sync"].verdict \in Good THEN job'["sync"].head ELSE job["sync"].seen
     \/ at["sync"] \in Checking \cup {"record"} /\ at'["sync"] = "idle"

LEMMA QuietMemory == ASSUME ESType, MemoryInv, Quiet PROVE MemoryInv'
<1> SUFFICES ASSUME ~crossed PROVE NeverCrossed'
  BY DEF Quiet, MemoryInv
<1>1. NeverCrossed
  BY DEF MemoryInv
<1>2. MemoryIsStored'
  BY <1>1 DEF Quiet, NeverCrossed, MemoryIsStored, storeVars, Checking, Text
<1>3. BaseIsStored'
  BY <1>1 DEF Quiet, NeverCrossed, BaseIsStored, storeVars, Checking
<1>4. SeenIsFirst'
  BY <1>1 DEF Quiet, NeverCrossed, SeenIsFirst, storeVars, Checking
<1> QED
  BY <1>1, <1>2, <1>3, <1>4 DEF NeverCrossed, Quiet

LEMMA WorldMemory == ASSUME ESType, MemoryInv, World PROVE MemoryInv'
<1>1. CASE KeyLinks \/ KeyRestarts \/ KeyPutBack \/ sync
  <2>1. Quiet
    BY <1>1 DEF KeyLinks, KeyRestarts, KeyPutBack, sync, Quiet, pastVars
  <2> QED
    BY <2>1, QuietMemory
<1>2. CASE Edit
  <2>1. stored'.seen = stored.seen
    BY <1>2, EditLinks
  <2> QED
    BY <1>2, <2>1
    DEF Edit, MemoryInv, NeverCrossed, MemoryIsStored, BaseIsStored, SeenIsFirst, Text
<1>3. CASE Restarts
  <2>1. at'["sync"] = "idle" /\ inMemory' = Nil
    BY <1>3 DEF Restarts, Who
  <2> QED
    BY <1>3, <2>1
    DEF Restarts, MemoryInv, NeverCrossed, MemoryIsStored, BaseIsStored, SeenIsFirst, Checking
<1>4. CASE SyncButton
  <2>1. job["sync"] \in Jobs(events) /\ job \in [Who -> Jobs(events)]
    BY DEF ESType, Who
  <2>2. /\ job'["sync"].forgot = (at["sync"] # "idle") /\ job'["sync"].seen = job["sync"].seen
        /\ job'["sync"].verdict = job["sync"].verdict /\ job'["sync"].head = job["sync"].head
    BY <1>4, <2>1 DEF SyncButton, Jobs, Who
  <2>3. inMemory' = Nil /\ UNCHANGED <<stored, storedText, at, pastVars>>
    BY <1>4 DEF SyncButton
  <2>4. BaseIsStored'
    BY <2>2, <2>3 DEF BaseIsStored, Checking
  <2> QED
    BY <2>2, <2>3, <2>4
    DEF MemoryInv, NeverCrossed, MemoryIsStored, SeenIsFirst, pastVars
<1> QED
  BY <1>1, <1>2, <1>3, <1>4 DEF World

LEMMA SyncLoadsMemory == ASSUME ESType, MemoryInv, SyncLoads PROVE MemoryInv'
<1> SUFFICES ASSUME ~crossed PROVE NeverCrossed'
  BY DEF SyncLoads, MemoryInv, pastVars
<1> DEFINE j == Head(asked)
           w == [Idle EXCEPT !.links = Loaded.links, !.seen = Loaded.seen, !.base = Loaded]
           k == [w EXCEPT !.links = Merge(@, j.added), !.tag = j.tag]
<1>1. NeverCrossed
  BY DEF MemoryInv
<1>2. /\ w.base = Loaded /\ w.seen = Loaded.seen /\ ~w.forgot /\ w.verdict = "none"
      /\ k.base = Loaded /\ k.seen = Loaded.seen /\ ~k.forgot /\ k.verdict = "none"
  BY DEF Idle
<1>3. \/ at'["sync"] = "head" /\ job'["sync"] = w
      \/ at'["sync"] = "look" /\ job'["sync"] = k
      \/ at'["sync"] = "idle"
  BY DEF SyncLoads, Done, Go, ESType, Who
<1> HIDE DEF w, k
<1>4. Loaded # Nil /\ inMemory' = Loaded /\ at["sync"] = "idle"
  BY LoadedType, TextIsNotNil DEF SyncLoads, loadMirror
<1>5. inMemory' = storedText' /\ stored' = stored /\ Loaded.seen = firstHead
  BY <1>1, <1>4 DEF SyncLoads, loadMirror, Loaded, NeverCrossed, MemoryIsStored, SeenIsFirst
<1>6. UNCHANGED <<firstHead, unread, slipped>>
  BY DEF SyncLoads, pastVars
<1>7. MemoryIsStored'
  BY <1>3, <1>5 DEF MemoryIsStored
<1>8. BaseIsStored'
  BY <1>2, <1>3, <1>4, <1>5 DEF BaseIsStored, Checking
<1>9. SeenIsFirst'
  BY <1>1, <1>2, <1>3, <1>4, <1>5, <1>6 DEF SeenIsFirst, NeverCrossed, Checking, Good
<1> QED
  BY <1>1, <1>6, <1>7, <1>8, <1>9 DEF NeverCrossed

LEMMA mergeOfferedMemory == ASSUME ESType, MemoryInv, mergeOffered PROVE MemoryInv'
<1> SUFFICES ASSUME ~crossed' PROVE NeverCrossed'
  BY DEF MemoryInv
<1>1. NeverCrossed /\ (inMemory = Nil => at["sync"] # "write")
  BY DEF MemoryInv, mergeOffered
<1>2. at'["sync"] = at["sync"] /\ job'["sync"] = job["sync"]
  BY DEF mergeOffered, Go, ESType, Who
<1>3. UNCHANGED <<stored, firstHead, unread, slipped>>
  BY DEF mergeOffered, loadMirror
<1>4. CASE inMemory # Nil
  <2>1. UNCHANGED <<inMemory, storedText>>
    BY <1>4 DEF mergeOffered, loadMirror, Loaded
  <2> QED
    BY <1>1, <1>2, <1>3, <2>1 DEF NeverCrossed, MemoryIsStored, BaseIsStored, SeenIsFirst, Text
<1>5. CASE inMemory = Nil
  <2>1. inMemory' = stored /\ storedText' = stored
    BY <1>5 DEF mergeOffered, loadMirror, Loaded
  <2> QED
    BY <1>1, <1>2, <1>3, <1>5, <2>1 DEF NeverCrossed, MemoryIsStored, BaseIsStored, SeenIsFirst, Text
<1> QED
  BY <1>4, <1>5

LEMMA Going ==
  ASSUME ESType, NEW p \in Who, NEW a, NEW w, Go(p, a, w)
  PROVE  /\ at'[p] = a /\ job'[p] = w
         /\ \A q \in Who : q # p => at'[q] = at[q] /\ job'[q] = job[q]
BY DEF Go, ESType

LEMMA ReadsAreQuiet ==
  ASSUME ESType, NEW p \in Who, ReadHead(p) \/ copyKey(p) \/ HeadAgain(p) \/ Fails(p) \/ (p = "sync" /\ ReadBatch)
  PROVE  Quiet
<1>1. job[p] \in Jobs(events) /\ "sync" \in Who
  BY DEF ESType, Who
<1> DEFINE Reads(a, w) ==
             /\ Go(p, a, w)
             /\ at[p] \in Checking
             /\ a = "idle" \/ (a \in Checking /\ w.base = job[p].base /\ w.forgot = job[p].forgot
                               /\ w.seen = job[p].seen)
<1>2. UNCHANGED <<storeVars, firstHead, unread, crossed, slipped>>
  BY DEF ReadHead, copyKey, HeadAgain, Fails, ReadBatch, pastVars
<1>3. \E a, w : Reads(a, w)
  <2>1. CASE ReadHead(p)
    <3> DEFINE w == [job[p] EXCEPT !.head = log, !.vhead = log]
               kept == setAsideStrays(w.links, w.seen, Len(log))
               r == [w EXCEPT !.links = kept,
                       !.from = IF LastSeq(kept) + 1 > oldest THEN LastSeq(kept) + 1 ELSE oldest]
    <3>1. w.base = job[p].base /\ w.forgot = job[p].forgot /\ w.seen = job[p].seen
      BY <1>1 DEF Jobs
    <3>2. r.base = job[p].base /\ r.forgot = job[p].forgot /\ r.seen = job[p].seen
      BY <1>1 DEF Jobs
    <3>3. Go(p, "read", r) \/ Go(p, "key", w)
      BY <2>1 DEF ReadHead
    <3>4. at[p] = "head"
      BY <2>1 DEF ReadHead
    <3> HIDE DEF w, r
    <3>5. Reads("read", r) \/ Reads("key", w)
      BY <3>1, <3>2, <3>3, <3>4 DEF Checking
    <3> QED
      BY <3>5
  <2>2. CASE copyKey(p)
    <3>1. PICK cp : Go(p, IF job[p].again THEN "ring" ELSE "check", [job[p] EXCEPT !.cp = cp])
      BY <2>2 DEF copyKey
    <3> DEFINE w == [job[p] EXCEPT !.cp = cp]
               a == IF job[p].again THEN "ring" ELSE "check"
    <3>2. w.base = job[p].base /\ w.forgot = job[p].forgot /\ w.seen = job[p].seen
      BY <1>1 DEF Jobs
    <3>3. a \in Checking /\ at[p] \in Checking
      BY <2>2 DEF Checking, copyKey
    <3>4. Reads(a, w)
      BY <3>1, <3>2, <3>3
    <3> QED
      BY <3>4
  <2>3. CASE HeadAgain(p)
    <3> DEFINE w == [job[p] EXCEPT !.vhead = log]
    <3>1. w.base = job[p].base /\ w.forgot = job[p].forgot /\ w.seen = job[p].seen
      BY <1>1 DEF Jobs
    <3>2. Go(p, "key", w) /\ at[p] \in Checking
      BY <2>3 DEF HeadAgain, Checking
    <3>3. Reads("key", w)
      BY <3>1, <3>2 DEF Checking
    <3> QED
      BY <3>3
  <2>4. CASE Fails(p)
    <3>1. Reads("idle", Idle)
      BY <2>4 DEF Fails, Done, Checking
    <3> QED
      BY <3>1
  <2>5. CASE p = "sync" /\ ReadBatch
    <3>1. PICK c \in Copies(events), f \in Nat, t \in {job["sync"].tag, 0}, a \in {"read", "key"} :
            Go("sync", a, [job["sync"] EXCEPT !.links = c, !.from = f, !.tag = t])
      BY <2>5, BatchFacts DEF BatchRead
    <3> DEFINE w == [job["sync"] EXCEPT !.links = c, !.from = f, !.tag = t]
    <3>2. w.base = job["sync"].base /\ w.forgot = job["sync"].forgot /\ w.seen = job["sync"].seen
      BY <1>1, <2>5 DEF Jobs
    <3>3. a \in Checking /\ at["sync"] \in Checking
      BY <2>5 DEF ReadBatch, Checking
    <3>4. Reads(a, w)
      BY <2>5, <3>1, <3>2, <3>3
    <3> QED
      BY <3>4
  <2> QED
    BY <2>1, <2>2, <2>3, <2>4, <2>5
<1>4. PICK a, w : Reads(a, w)
  BY <1>3
<1>5. at'[p] = a /\ job'[p] = w /\ \A q \in Who : q # p => at'[q] = at[q] /\ job'[q] = job[q]
  BY <1>4, Going
<1> QED
  BY <1>1, <1>2, <1>4, <1>5 DEF Quiet

\* What the history says of a check that ends.
LEMMA EndsFrame ==
  ASSUME ESType, NEW p \in Who, NEW w \in Jobs(events), NEW v, NEW held, NEW full, Ends(p, w, v, held, full)
  PROVE  /\ p = "sync" =>
              /\ at'["sync"] = "look" /\ at'["offer"] = at["offer"] /\ job'["offer"] = job["offer"]
              /\ job'["sync"] = [w EXCEPT !.seen = SeenAfter(w, v), !.verdict = v] /\ asked' = asked
              /\ slipped' = IF v \in Good THEN slipped \cup Slips(w, held, v, full) ELSE slipped
         /\ p # "sync" =>
              /\ p = "offer" /\ at'["offer"] = "idle" /\ job'["offer"] = Idle
              /\ at'["sync"] = at["sync"] /\ job'["sync"] = job["sync"] /\ slipped' = slipped
              /\ \/ asked' = asked
                 \/ /\ v \in Good /\ Takes(w, held)
                    /\ asked' = Append(asked, [kind |-> "keep", added |-> w.added, tag |-> w.tag])
BY DEF Ends, Done, Go, ESType, Who

LEMMA FullSlips ==
  ASSUME NEW w, NEW held, NEW v, NEW full, "full" \in Slips(w, held, v, full)
  PROVE  full /\ ~Extends(w.vhead, firstHead)
BY DEF Slips

LEMMA EndsQuiet ==
  ASSUME ESType, NEW p \in Who, at[p] \in Checking, NEW w \in Jobs(events), NEW v, NEW held, NEW full,
         Ends(p, w, v, held, full),
         w.base = job[p].base, w.forgot = job[p].forgot, w.seen = job[p].seen,
         p = "sync" /\ full /\ v \in Good => Extends(w.vhead, firstHead),
         UNCHANGED <<storeVars, firstHead, unread, crossed>>
  PROVE  Quiet
<1>1. CASE p = "sync"
  <2> DEFINE r == [w EXCEPT !.seen = SeenAfter(w, v), !.verdict = v]
  <2>1. /\ r.base = job["sync"].base /\ r.forgot = job["sync"].forgot
        /\ r.seen = IF r.verdict \in Good THEN r.head ELSE job["sync"].seen
    BY <1>1 DEF Jobs, SeenAfter
  <2>0. /\ Go("sync", "look", r) /\ "sync" \in Who
        /\ slipped' = IF v \in Good THEN slipped \cup Slips(w, held, v, full) ELSE slipped
    BY <1>1 DEF Ends, Who
  <2>2. /\ at'["sync"] = "look" /\ job'["sync"] = r
        /\ slipped' = IF v \in Good THEN slipped \cup Slips(w, held, v, full) ELSE slipped
    BY <2>0, Going
  <2> HIDE DEF r
  <2>3. "full" \in slipped' => "full" \in slipped
    BY <1>1, <2>2, FullSlips
  <2> QED
    BY <1>1, <2>1, <2>2, <2>3 DEF Quiet
<1>2. CASE p # "sync"
  BY <1>2, EndsFrame DEF Quiet
<1> QED
  BY <1>1, <1>2

LEMMA ShortEnds ==
  ASSUME NEW p, NEW w, NEW held, Short(p, w, held)
  PROVE  \E v, h : Ends(p, w, v, h, FALSE)
BY DEF Short

LEMMA CheckShortQuiet == ASSUME ESType, NEW p \in Who, CheckShort(p) PROVE Quiet
<1> DEFINE w == job[p]
<1>1. w \in Jobs(events) /\ at[p] \in Checking /\ UNCHANGED <<storeVars, firstHead, unread, crossed>>
  BY DEF ESType, CheckShort, Checking
<1>2. CASE Short(p, w, {})
  <2>1. PICK v, h : Ends(p, w, v, h, FALSE)
    BY <1>2, ShortEnds
  <2> QED
    BY <1>1, <2>1, EndsQuiet
<1>3. CASE ~Short(p, w, {})
  <2>1. PICK cp : Go(p, "ring", [w EXCEPT !.cp = cp]) /\ slipped' = slipped
    BY <1>3 DEF CheckShort
  <2> DEFINE r == [w EXCEPT !.cp = cp]
  <2>2. r.base = w.base /\ r.forgot = w.forgot /\ r.seen = w.seen
    BY <1>1 DEF Jobs
  <2>3. at'[p] = "ring" /\ job'[p] = r /\ \A q \in Who : q # p => at'[q] = at[q] /\ job'[q] = job[q]
    BY <2>1, Going
  <2> HIDE DEF r
  <2> QED
    BY <1>1, <2>1, <2>2, <2>3 DEF Quiet, Checking, Who
<1> QED
  BY <1>2, <1>3

LEMMA CheckFullMemory == ASSUME ESType, MemoryInv, NEW p \in Who, CheckFull(p) PROVE MemoryInv'
<1> DEFINE w == job[p]
           held == {n \in oldest..Len(log) : n <= Len(w.vhead) /\ log[n] = w.vhead[n]}
           v == evaluate(w, held)
<1> SUFFICES ASSUME ~crossed PROVE Quiet
  BY QuietMemory DEF MemoryInv, CheckFull
<1>1. w \in Jobs(events) /\ events \in Nat /\ at[p] \in Checking /\ UNCHANGED <<storeVars, firstHead, unread, crossed>>
  BY DEF ESType, CheckFull, Checking
<1> HIDE DEF held
<1>2. CASE Short(p, w, held)
  <2>1. PICK x, h : Ends(p, w, x, h, FALSE)
    BY <1>2, ShortEnds
  <2> QED
    BY <1>1, <2>1, EndsQuiet
<1>3. CASE Ends(p, w, v, held, TRUE)
  <2>1. v \in Good => Extends(w.vhead, w.seen)
    BY <1>1, EvaluateFacts DEF Good
  <2>2. p = "sync" => w.seen = firstHead
    BY <1>1 DEF MemoryInv, NeverCrossed, SeenIsFirst
  <2> HIDE DEF v
  <2> QED
    BY <1>1, <1>3, <2>1, <2>2, EndsQuiet
<1>4. CASE Go(p, "again", [w EXCEPT !.again = TRUE]) /\ slipped' = slipped
  <2> DEFINE r == [w EXCEPT !.again = TRUE]
  <2>1. r.base = w.base /\ r.forgot = w.forgot /\ r.seen = w.seen
    BY <1>1 DEF Jobs
  <2>2. at'[p] = "again" /\ job'[p] = r /\ \A q \in Who : q # p => at'[q] = at[q] /\ job'[q] = job[q]
    BY <1>4, Going
  <2> HIDE DEF r
  <2> QED
    BY <1>1, <1>4, <2>1, <2>2 DEF Quiet, Checking, Who
<1>5. Short(p, w, held) \/ Ends(p, w, v, held, TRUE)
        \/ (Go(p, "again", [w EXCEPT !.again = TRUE]) /\ slipped' = slipped)
  BY DEF CheckFull, held
<1> QED
  BY <1>2, <1>3, <1>4, <1>5

LEMMA SaveLooksMemory == ASSUME ESType, MemoryInv, SaveLooks PROVE MemoryInv'
<1> SUFFICES ASSUME ~crossed PROVE NeverCrossed'
  BY DEF MemoryInv, SaveLooks
<1> DEFINE w == job["sync"]
<1>1. NeverCrossed /\ at["sync"] = "look" /\ w \in Jobs(events) /\ "sync" \in Who
  BY DEF MemoryInv, SaveLooks, ESType, Who
<1>2. UNCHANGED <<stored, storedText, firstHead, slipped>>
  BY DEF SaveLooks
<1>3. CASE changedOutside
  <2>1. inMemory' = Nil /\ unread' = unread /\ at'["sync"] = "record" /\ job'["sync"] = w
    BY <1>1, <1>3, Going DEF SaveLooks
  <2> QED
    BY <1>1, <1>2, <2>1 DEF NeverCrossed, MemoryIsStored, BaseIsStored, SeenIsFirst, Checking
<1>4. CASE ~changedOutside
  <2>1. /\ inMemory' = Text(w) /\ at'["sync"] = "write" /\ job'["sync"] = w
        /\ unread' = (unread \/ (stored # w.base /\ ~w.forgot))
    BY <1>1, <1>4, Going DEF SaveLooks
  <2>2. ~w.forgot => stored = w.base
    BY <1>1, <1>4 DEF changedOutside, NeverCrossed, BaseIsStored
  <2>3. ~unread'
    BY <1>1, <2>1, <2>2 DEF NeverCrossed
  <2>4. MemoryIsStored'
    BY <2>1 DEF MemoryIsStored, Text
  <2>5. BaseIsStored'
    BY <2>1 DEF BaseIsStored, Checking
  <2>6. SeenIsFirst'
    BY <1>1, <1>2, <2>1 DEF NeverCrossed, SeenIsFirst, Checking
  <2> QED
    BY <1>1, <1>2, <2>3, <2>4, <2>5, <2>6 DEF NeverCrossed
<1> QED
  BY <1>3, <1>4

LEMMA SaveWritesMemory == ASSUME ESType, MemoryInv, SaveWrites PROVE MemoryInv'
<1> SUFFICES ASSUME ~crossed PROVE NeverCrossed'
  BY DEF MemoryInv, SaveWrites
<1> DEFINE w == job["sync"]
<1>1. NeverCrossed /\ at["sync"] = "write" /\ w \in Jobs(events) /\ "sync" \in Who
  BY DEF MemoryInv, SaveWrites, ESType, Who
<1>2. /\ UNCHANGED <<inMemory, unread, slipped>> /\ stored' = Text(w) /\ storedText' = Text(w)
      /\ firstHead' = IF w.verdict \in Good THEN w.head ELSE firstHead
  BY DEF SaveWrites
<1>3. at'["sync"] = "record" /\ job'["sync"] = w
  BY <1>1, Going DEF SaveWrites
<1>4. w.seen = firstHead' /\ Text(w).seen = w.seen
  BY <1>1, <1>2 DEF NeverCrossed, SeenIsFirst, Text
<1>5. inMemory # Nil => inMemory = Text(w)
  BY <1>1 DEF NeverCrossed, MemoryIsStored
<1>6. MemoryIsStored' /\ BaseIsStored' /\ SeenIsFirst'
  BY <1>2, <1>3, <1>4, <1>5 DEF MemoryIsStored, BaseIsStored, SeenIsFirst, Checking
<1> QED
  BY <1>1, <1>2, <1>6 DEF NeverCrossed

LEMMA recordQuiet == ASSUME ESType, record PROVE Quiet
<1>1. at'["sync"] = "idle" /\ at["sync"] = "record"
  BY Going DEF record, Done, Who
<1> QED
  BY <1>1 DEF Quiet, record

LEMMA InitMemory == ESInit => MemoryInv
BY DEF ESInit, MemoryInv, NeverCrossed, MemoryIsStored, BaseIsStored, SeenIsFirst, Checking, Empty0, Who

LEMMA StepMemory == ESType /\ MemoryInv /\ [ESNext]_esVars => MemoryInv'
<1> SUFFICES ASSUME ESType, MemoryInv, [ESNext]_esVars PROVE MemoryInv'
  OBVIOUS
<1>1. CASE World \/ SyncLoads \/ mergeOffered
  BY <1>1, WorldMemory, SyncLoadsMemory, mergeOfferedMemory
<1>2. CASE ReadBatch \/ record
  <2>1. Quiet
    BY <1>2, ReadsAreQuiet, recordQuiet DEF Who
  <2> QED
    BY <2>1, QuietMemory
<1>3. CASE SaveLooks \/ SaveWrites
  BY <1>3, SaveLooksMemory, SaveWritesMemory
<1>4. ASSUME NEW p \in Who, Check(p) PROVE MemoryInv'
  <2>1. CASE CheckFull(p)
    BY <2>1, CheckFullMemory
  <2>2. CASE ~CheckFull(p)
    <3>1. Quiet
      BY <1>4, <2>2, ReadsAreQuiet, CheckShortQuiet DEF Check
    <3> QED
      BY <3>1, QuietMemory
  <2> QED
    BY <2>1, <2>2
<1>5. CASE UNCHANGED esVars
  <2>1. Quiet
    BY <1>5 DEF Quiet, esVars, pastVars
  <2> QED
    BY <2>1, QuietMemory
<1> QED
  BY <1>1, <1>2, <1>3, <1>4, <1>5 DEF ESNext

LEMMA MemoryAlways == ESSpec => [](ESType /\ MemoryInv)
BY TypeAlways, InitMemory, StepMemory, PTL DEF ESSpec

(***************************************************************************)
(* lastSeen: through restarts, edits, syncs that fail or end tampered, a   *)
(* full check passes only heads that extend the last one saved as seen,    *)
(* unless the stored copy was once read across a save.                     *)
(***************************************************************************)
THEOREM LastSeenDoesHold == ESSpec => []LastSeenHolds
<1>1. MemoryInv => LastSeenHolds
  BY DEF MemoryInv, NeverCrossed, LastSeenHolds
<1> QED
  BY <1>1, MemoryAlways, PTL

(***************************************************************************)
(* saveMirror: with the memory never forgotten under a job, what it writes *)
(* over is the copy its job began with, unless the stored copy was once    *)
(* read across a save.                                                     *)
(***************************************************************************)
THEOREM EditsWereSeen == ESSpec => []EditsAreSeen
<1>1. MemoryInv => EditsAreSeen
  BY DEF MemoryInv, NeverCrossed, EditsAreSeen
<1> QED
  BY <1>1, MemoryAlways, PTL

-----------------------------------------------------------------------------
(* What a verdict says of a copy *)

\* Extends, seq by seq.
LEMMA ExtendsDef ==
  ASSUME NEW h \in Hist, NEW g \in Hist
  PROVE  Extends(h, g) <=> Len(g) <= Len(h) /\ \A i \in 1..Len(g) : h[i] = g[i]
<1>1. Len(g) \in Nat /\ Len(h) \in Nat
  BY DEF Hist
<1>2. CASE Len(g) <= Len(h)
  <2> DEFINE s == SubSeq(h, 1, Len(g))
  <2>1. s \in Hist /\ Len(s) = Len(g) /\ \A i \in 1..Len(g) : s[i] = h[i]
    BY <1>1, <1>2 DEF Hist
  <2> HIDE DEF s
  <2>2. s = g <=> \A i \in 1..Len(g) : s[i] = g[i]
    BY <2>1 DEF Hist
  <2> QED
    BY <1>2, <2>1, <2>2 DEF Extends, s
<1>3. CASE ~(Len(g) <= Len(h))
  BY <1>3 DEF Extends
<1> QED
  BY <1>2, <1>3

LEMMA PrefixFacts ==
  ASSUME NEW h \in Hist, NEW n \in Nat, n <= Len(h)
  PROVE  /\ SubSeq(h, 1, n) \in Hist /\ Len(SubSeq(h, 1, n)) = n
         /\ \A i \in 1..n : SubSeq(h, 1, n)[i] = h[i]
BY DEF Hist

LEMMA CleanMatches ==
  ASSUME ESType, ResultMatches, NEW w \in Jobs(events), NEW held, Clean(w, held)
  PROVE  AllMatch(w.links, w.vhead)
<1> DEFINE was == verifiedNow
           last == LastSeq(was.links)
           part == SubSeq(was.head, 1, last)
<1>1. /\ was # Nil /\ was.verdict = "verified" /\ DOMAIN was.links # {}
      /\ Only(w.links, 1..last) = was.links
      /\ LastSeq(w.links) <= Len(w.vhead) /\ Extends(w.vhead, part)
      /\ \A n \in (last + 1)..Len(w.vhead) : n \in DOMAIN w.links => w.links[n] = w.vhead[n]
  BY DEF Clean, Grew, NewLinksClean, samePrefix
<1>2. was \in Results(events) /\ events \in Nat
  BY <1>1 DEF ESType
<1>3. was.links \in Copies(events) /\ was.head \in Hist /\ w.links \in Copies(events) /\ w.vhead \in Hist
  BY <1>2 DEF Results, Jobs
<1>4. AllMatch(was.links, was.head)
  BY <1>1 DEF ResultMatches
<1> HIDE DEF was
<1>5. last \in DOMAIN was.links /\ last \in Nat
  <2> DEFINE c == was.links
  <2>1. c \in Copies(events) /\ DOMAIN c # {} /\ last = LastSeq(c)
    BY <1>1, <1>3
  <2> HIDE DEF c, last
  <2>2. LastSeq(c) \in DOMAIN c /\ LastSeq(c) \in 0..Reach(events) /\ Reach(events) \in Nat
    BY <1>2, <2>1, LastSeqFacts, ReachType
  <2> QED
    BY <2>1, <2>2 DEF c
<1>6. last <= Len(was.head)
  BY <1>4, <1>5 DEF AllMatch, Matches
<1>7. part \in Hist /\ Len(part) = last /\ \A i \in 1..last : part[i] = was.head[i]
  BY <1>3, <1>5, <1>6, PrefixFacts
<1> HIDE DEF part
<1>8. \A i \in 1..last : w.vhead[i] = was.head[i]
  BY <1>1, <1>3, <1>7, ExtendsDef
<1>9. /\ DOMAIN was.links = DOMAIN w.links \cap 1..last
      /\ \A n \in DOMAIN w.links \cap 1..last : was.links[n] = w.links[n]
  <2>1. Only(w.links, 1..last) = was.links
    BY <1>1
  <2> HIDE DEF last
  <2> DEFINE d == Only(w.links, 1..last)
  <2>2. DOMAIN d = DOMAIN w.links \cap 1..last /\ \A n \in DOMAIN w.links \cap 1..last : d[n] = w.links[n]
    BY DEF Only
  <2> HIDE DEF d
  <2>3. d = was.links
    BY <2>1 DEF d
  <2> QED
    BY <2>2, <2>3
<1>10. ASSUME NEW n \in DOMAIN w.links PROVE n <= Len(w.vhead) /\ w.links[n] = w.vhead[n]
  <2>1. n \in 1..LastSeq(w.links) /\ LastSeq(w.links) \in Nat /\ Len(w.vhead) \in Nat
    <3> DEFINE c == w.links
    <3>1. c \in Copies(events) /\ n \in DOMAIN c
      BY <1>3, <1>10
    <3> HIDE DEF c
    <3>2. n \in 1..LastSeq(c) /\ LastSeq(c) \in 0..Reach(events) /\ Reach(events) \in Nat
      BY <1>2, <3>1, LastSeqFacts, ReachType
    <3>3. Len(w.vhead) \in Nat
      BY <1>3 DEF Hist
    <3> QED
      BY <3>2, <3>3 DEF c
  <2>2. n \in Nat /\ n >= 1 /\ n <= Len(w.vhead)
    BY <1>1, <2>1
  <2>3. CASE n <= last
    <3>1. n \in DOMAIN was.links /\ was.links[n] = w.links[n] /\ n \in 1..last
      BY <1>5, <1>9, <2>2, <2>3
    <3>2. was.links[n] = was.head[n]
      BY <1>4, <3>1 DEF AllMatch, Matches
    <3> QED
      BY <1>8, <2>2, <3>1, <3>2
  <2>4. CASE ~(n <= last)
    <3>1. n \in (last + 1)..Len(w.vhead)
      BY <1>5, <2>1, <2>2, <2>4
    <3> QED
      BY <1>1, <2>2, <3>1
  <2> QED
    BY <2>3, <2>4
<1> QED
  BY <1>10 DEF AllMatch, Matches

\* What a check that passes found.
Sound(w, held, v) ==
  /\ v \in Good => Matches(w.links, w.vhead, Islands(w.links, w.vhead, held))
  /\ v = "verified" => AllMatch(w.links, w.vhead)

LEMMA ShortSound ==
  ASSUME ESType, ResultMatches, NEW p \in Who, NEW w \in Jobs(events), NEW held, Short(p, w, held)
  PROVE  \/ /\ Skips(w) /\ Ends(p, w, verifiedNow.verdict, {}, FALSE) /\ verifiedNow' = verifiedNow /\ signed' = signed
            /\ Sound(w, {}, verifiedNow.verdict)
         \/ /\ ~Skips(w) /\ Clean(w, held) /\ Ends(p, w, "verified", held, FALSE)
            /\ remember(w, "verified") /\ signed' = signed
            /\ Sound(w, held, "verified") /\ AllMatch(w.links, w.vhead)
<1>1. CASE Skips(w) /\ Ends(p, w, verifiedNow.verdict, {}, FALSE) /\ UNCHANGED <<verifiedNow, signed>>
  <2>1. verifiedNow # Nil /\ verifiedNow.head = w.vhead /\ verifiedNow.links = w.links
    BY <1>1 DEF Skips
  <2>2. Sound(w, {}, verifiedNow.verdict)
    BY <2>1 DEF ResultMatches, Sound, AllMatch, Matches, Good
  <2> QED
    BY <1>1, <2>2
<1>2. CASE ~Skips(w) /\ Clean(w, held) /\ Ends(p, w, "verified", held, FALSE) /\ remember(w, "verified") /\ UNCHANGED signed
  <2>1. AllMatch(w.links, w.vhead)
    BY <1>2, CleanMatches
  <2>2. Sound(w, held, "verified")
    BY <2>1 DEF Sound, AllMatch, Matches
  <2> QED
    BY <1>2, <2>1, <2>2
<1> QED
  BY <1>1, <1>2 DEF Short

LEMMA FullSound ==
  ASSUME NEW e \in Nat, NEW w \in Jobs(e), NEW held
  PROVE  Sound(w, held, evaluate(w, held))
<1> DEFINE v == evaluate(w, held)
<1>1. /\ v # "tampered" => Matches(w.links, w.vhead, Islands(w.links, w.vhead, held))
      /\ v \in {"verified", "unsigned"} => AllMatch(w.links, w.vhead)
  BY EvaluateFacts
<1> HIDE DEF v
<1>2. Sound(w, held, v)
  BY <1>1 DEF Sound, Good
<1> QED
  BY <1>2 DEF v

\* Such an end slips nothing in, and asks to keep only the key's links.
LEMMA EndsSound ==
  ASSUME ESType, OfferLinks, NEW p \in Who, NEW w \in Jobs(events), NEW v, NEW held, NEW full,
         Ends(p, w, v, held, full), Sound(w, held, v),
         w.links = job[p].links, w.added = job[p].added
  PROVE  /\ "copy" \in slipped' => "copy" \in slipped
         /\ \/ asked' = asked
            \/ /\ v \in Good /\ asked' = Append(asked, [kind |-> "keep", added |-> w.added, tag |-> w.tag])
               /\ \A n \in DOMAIN w.added : n \in 1..Len(w.vhead) /\ w.added[n] = w.vhead[n]
<1>1. w.links \in Copies(events) /\ events \in Nat /\ \A n \in DOMAIN w.links : n \in Nat /\ n >= 1
  BY CopyDef, ReachType DEF Jobs, ESType
<1>2. w.vhead \in Hist /\ Len(w.vhead) \in Nat
  BY DEF Jobs, Hist
<1>3. CASE p = "sync"
  <2>1. asked' = asked /\ slipped' = IF v \in Good THEN slipped \cup Slips(w, held, v, full) ELSE slipped
    BY <1>3 DEF Ends
  <2>2. v \in Good => "copy" \notin Slips(w, held, v, full)
    <3> SUFFICES ASSUME v \in Good, NEW n \in DOMAIN w.links \ Islanded(w, held, v)
                 PROVE  ~(n > Len(w.vhead)) /\ w.links[n] = w.vhead[n]
      BY DEF Slips
    <3>1. Matches(w.links, w.vhead, Islanded(w, held, v))
      BY DEF Islanded, Sound, AllMatch
    <3>2. n <= Len(w.vhead) /\ w.links[n] = w.vhead[n] /\ n \in Nat
      BY <1>1, <3>1 DEF Matches
    <3> QED
      BY <1>2, <3>2
  <2> QED
    BY <2>1, <2>2
<1>4. CASE p # "sync"
  <2>1. /\ p = "offer" /\ slipped' = slipped
        /\ \/ asked' = asked
           \/ /\ v \in Good /\ Takes(w, held)
              /\ asked' = Append(asked, [kind |-> "keep", added |-> w.added, tag |-> w.tag])
    BY <1>4, EndsFrame
  <2>2. ASSUME v \in Good, Takes(w, held), NEW n \in DOMAIN w.added
        PROVE  n \in 1..Len(w.vhead) /\ w.added[n] = w.vhead[n]
    <3>1. n \in DOMAIN w.links /\ w.links[n] = w.added[n]
      BY <2>1 DEF OfferLinks
    <3>2. n \notin Islands(w.links, w.vhead, held)
      BY <2>2 DEF Takes
    <3>3. n <= Len(w.vhead) /\ w.links[n] = w.vhead[n]
      BY <2>2, <3>1, <3>2 DEF Sound, Matches
    <3> QED
      BY <1>1, <1>2, <3>1, <3>3
  <2> QED
    BY <2>1, <2>2
<1> QED
  BY <1>3, <1>4

\* The queue: what is asked last, and what is left.
LEMMA AppendFacts ==
  ASSUME NEW S, NEW s \in Seq(S), NEW a \in S
  PROVE  /\ DOMAIN Append(s, a) = 1..(Len(s) + 1) /\ DOMAIN s = 1..Len(s) /\ Len(s) \in Nat
         /\ \A i \in DOMAIN s : Append(s, a)[i] = s[i]
         /\ Append(s, a)[Len(s) + 1] = a
OBVIOUS

LEMMA TailFacts ==
  ASSUME NEW S, NEW s \in Seq(S), s # <<>>
  PROVE  \A i \in DOMAIN Tail(s) : i + 1 \in DOMAIN s /\ Tail(s)[i] = s[i + 1]
OBVIOUS

LEMMA AskedAppend ==
  ASSUME NEW S, NEW s \in Seq(S), NEW a \in S, AskedKeys(s), Keys(a.added)
  PROVE  AskedKeys(Append(s, a))
<1> SUFFICES ASSUME NEW i \in DOMAIN Append(s, a) PROVE Keys(Append(s, a)[i].added)
  BY DEF AskedKeys
<1>1. i \in DOMAIN s \/ i = Len(s) + 1
  BY AppendFacts
<1>2. CASE i \in DOMAIN s
  BY <1>2, AppendFacts DEF AskedKeys
<1>3. CASE i = Len(s) + 1
  BY <1>3, AppendFacts
<1> QED
  BY <1>1, <1>2, <1>3

LEMMA AskedTail ==
  ASSUME NEW S, NEW s \in Seq(S), s # <<>>, AskedKeys(s)
  PROVE  AskedKeys(Tail(s))
BY TailFacts DEF AskedKeys

\* A step that leaves what was verified and what is slipped in alone.
LEMMA CheckFrame ==
  ASSUME CheckInv, verifiedNow' \in {verifiedNow, Nil}, "copy" \in slipped' => "copy" \in slipped, OfferLinks', KeysOnly'
  PROVE  CheckInv'
BY DEF CheckInv, ResultMatches

LEMMA OfferKept ==
  ASSUME OfferLinks,
         \/ job'["offer"] \in {job["offer"], Idle}
         \/ job'["offer"].links = job["offer"].links /\ job'["offer"].added = job["offer"].added
  PROVE  OfferLinks'
<1>1. CASE job'["offer"] = Idle
  BY <1>1, EmptyCopy DEF OfferLinks, Idle
<1>2. CASE job'["offer"] # Idle
  BY <1>2 DEF OfferLinks
<1> QED
  BY <1>1, <1>2

LEMMA WorldCheck == ASSUME ESType, CheckInv, World PROVE CheckInv'
<1>0. /\ job \in [Who -> Jobs(events)] /\ {"sync", "offer"} \subseteq Who /\ asked \in Seq(Asks(events))
      /\ events \in Nat /\ edits \in Nat
  BY DEF ESType, Who
<1> DEFINE a == [kind |-> "sync", added |-> <<>>, tag |-> Nil]
<1>a. a \in Asks(events) /\ Keys(a.added)
  BY EmptyCopy DEF Asks, Tags, Keys
<1>1. CASE KeyLinks \/ KeyRestarts \/ KeyPutBack
  BY <1>1
  DEF KeyLinks, KeyRestarts, KeyPutBack, storeVars, memoVars, pastVars, CheckInv, OfferLinks, ResultMatches, KeysOnly
<1>2. CASE Edit
  <2>1. edits' # 0
    BY <1>0, <1>2 DEF Edit
  <2> QED
    BY <1>2, <2>1 DEF Edit, memoVars, CheckInv, OfferLinks, ResultMatches, KeysOnly
<1>3. CASE Restarts
  <2>1. job'["offer"] = Idle /\ job'["sync"] = Idle /\ asked' = <<>> /\ inMemory' = Nil
    BY <1>0, <1>3 DEF Restarts
  <2>2. Keys(Idle.links) /\ AskedKeys(<<>>)
    BY EmptyCopy DEF Keys, AskedKeys, Idle
  <2>3. KeysOnly'
    BY <1>3, <2>1, <2>2 DEF Restarts, CheckInv, KeysOnly
  <2>4. OfferLinks'
    BY <2>1, OfferKept DEF CheckInv
  <2> QED
    BY <1>3, <2>3, <2>4, CheckFrame DEF Restarts
<1>4. CASE sync \/ SyncButton
  <2>1. asked' = Append(asked, a)
    BY <1>4 DEF sync, SyncButton, Ask
  <2>2. AskedKeys(asked) => AskedKeys(asked')
    BY <1>0, <1>a, <2>1, AskedAppend
  <2>3. job'["sync"].links = job["sync"].links /\ job'["offer"] = job["offer"]
    <3>1. CASE sync
      BY <3>1 DEF sync
    <3>2. CASE SyncButton
      <4>1. job["sync"] \in Jobs(events)
        BY <1>0
      <4> QED
        BY <1>0, <3>2, <4>1 DEF SyncButton, Jobs
    <3> QED
      BY <1>4, <3>1, <3>2
  <2>4. stored' = stored /\ inMemory' \in {inMemory, Nil} /\ verifiedNow' \in {verifiedNow, Nil} /\ slipped' = slipped /\ edits' = edits
    BY <1>4 DEF sync, SyncButton, storeVars, memoVars, pastVars
  <2>5. KeysOnly'
    BY <2>2, <2>3, <2>4 DEF CheckInv, KeysOnly
  <2>6. OfferLinks'
    BY <2>3, OfferKept DEF CheckInv
  <2> QED
    BY <2>4, <2>5, <2>6, CheckFrame
<1> QED
  BY <1>1, <1>2, <1>3, <1>4 DEF World

LEMMA KeysMerge == ASSUME NEW c, NEW x, Keys(c), Keys(x) PROVE Keys(Merge(c, x))
BY DEF Keys, Merge

LEMMA SyncLoadsCheck == ASSUME ESType, CheckInv, SyncLoads PROVE CheckInv'
<1> DEFINE j == Head(asked)
           w == [Idle EXCEPT !.links = Loaded.links, !.seen = Loaded.seen, !.base = Loaded]
           k == [w EXCEPT !.links = Merge(@, j.added), !.tag = j.tag]
<1>1. asked # <<>> /\ asked \in Seq(Asks(events)) /\ {"sync", "offer"} \subseteq Who
  BY DEF SyncLoads, ESType, Who
<1>2. w.links = Loaded.links /\ k.links = Merge(Loaded.links, j.added) /\ Idle.links = <<>>
  BY DEF Idle
<1>3. \/ Go("sync", "head", w) /\ asked' = asked
      \/ Go("sync", "look", k) /\ asked' = asked
      \/ Go("sync", "idle", Idle) /\ asked' = Tail(asked)
  BY DEF SyncLoads, Done
<1> HIDE DEF w, k
<1>4. /\ \/ job'["sync"] = w /\ asked' = asked
         \/ job'["sync"] = k /\ asked' = asked
         \/ job'["sync"] = Idle /\ asked' = Tail(asked)
      /\ job'["offer"] = job["offer"]
  BY <1>1, <1>3, Going
<1>5. inMemory' = Loaded /\ UNCHANGED <<stored, edits, verifiedNow, slipped>>
  BY DEF SyncLoads, loadMirror, memoVars, pastVars
<1>6. KeysOnly'
  <2> SUFFICES ASSUME edits = 0
               PROVE  Keys(stored.links) /\ Keys(Loaded.links) /\ Keys(job'["sync"].links) /\ AskedKeys(asked')
    BY <1>5 DEF KeysOnly
  <2>1. Keys(stored.links) /\ Keys(Loaded.links) /\ AskedKeys(asked)
    BY DEF CheckInv, KeysOnly, Loaded
  <2>2. 1 \in DOMAIN asked /\ j = asked[1]
    BY <1>1
  <2>3. Keys(j.added)
    BY <2>1, <2>2 DEF AskedKeys
  <2> HIDE DEF j
  <2>4. Keys(w.links) /\ Keys(k.links) /\ Keys(Idle.links)
    BY <1>2, <2>1, <2>3, KeysMerge, EmptyCopy DEF Keys
  <2>5. AskedKeys(Tail(asked))
    BY <1>1, <2>1, AskedTail
  <2> QED
    BY <1>4, <2>1, <2>4, <2>5
<1>7. OfferLinks'
  BY <1>4, OfferKept DEF CheckInv
<1> QED
  BY <1>5, <1>6, <1>7, CheckFrame

LEMMA mergeOfferedCheck == ASSUME ESType, CheckInv, mergeOffered PROVE CheckInv'
<1>1. PICK x \in Offers :
        /\ DOMAIN x \cap DOMAIN Loaded.links = {}
        /\ Go("offer", "head", [Idle EXCEPT !.links = Merge(Loaded.links, x),
               !.seen = Loaded.seen, !.added = x,
               !.tag = IF x = <<>> THEN Nil ELSE events + 1])
  BY DEF mergeOffered
<1> DEFINE t == IF x = <<>> THEN Nil ELSE events + 1
           c == Merge(Loaded.links, x)
           w == [Idle EXCEPT !.links = c, !.seen = Loaded.seen, !.added = x, !.tag = t]
<1>2. w.links = c /\ w.added = x
  BY DEF Idle
<1>3. Go("offer", "head", w)
  BY <1>1
<1>4. \A n \in DOMAIN x : n \in DOMAIN c /\ c[n] = x[n]
  BY <1>1 DEF Merge
<1> HIDE DEF w, c
<1>5. job'["offer"] = w /\ job'["sync"] = job["sync"]
  BY <1>3, Going DEF Who
<1>6. OfferLinks'
  BY <1>2, <1>4, <1>5 DEF OfferLinks
<1>7. inMemory' = Loaded /\ UNCHANGED <<stored, edits, verifiedNow, slipped, asked>>
  BY DEF mergeOffered, loadMirror, memoVars
<1>8. KeysOnly'
  BY <1>5, <1>7 DEF CheckInv, KeysOnly, Loaded
<1> QED
  BY <1>6, <1>7, <1>8, CheckFrame

\* A step of a check that only changes its own locals, and what it leaves of its links.
LEMMA LocalCheck ==
  ASSUME ESType, CheckInv, NEW p \in Who, NEW w, NEW a, Go(p, a, w),
         p = "sync" => (edits = 0 => Keys(w.links)),
         p = "offer" => w = Idle \/ (w.links = job[p].links /\ w.added = job[p].added),
         AskedKeys(asked) => AskedKeys(asked'),
         verifiedNow' \in {verifiedNow, Nil}, UNCHANGED <<stored, inMemory, edits, slipped>>
  PROVE  CheckInv'
<1>1. /\ job'[p] = w /\ \A q \in Who : q # p => job'[q] = job[q]
  BY Going
<1>2. OfferLinks'
  BY <1>1, OfferKept DEF CheckInv, Who
<1>3. KeysOnly'
  BY <1>1 DEF CheckInv, KeysOnly, Who
<1> QED
  BY <1>2, <1>3, CheckFrame

LEMMA JobKeys ==
  ASSUME ESType, CheckInv, edits = 0, NEW c, DOMAIN c \subseteq DOMAIN job["sync"].links,
         \A n \in DOMAIN c : c[n] = job["sync"].links[n]
  PROVE  Keys(c)
BY DEF CheckInv, KeysOnly, Keys

LEMMA ReadHeadCheck == ASSUME ESType, CheckInv, NEW p \in Who, ReadHead(p) PROVE CheckInv'
<1> DEFINE w == [job[p] EXCEPT !.head = log, !.vhead = log]
           kept == setAsideStrays(w.links, w.seen, Len(log))
           f == IF LastSeq(kept) + 1 > oldest THEN LastSeq(kept) + 1 ELSE oldest
           r == [w EXCEPT !.links = kept, !.from = f]
<1>1. job[p] \in Jobs(events) /\ job[p].links \in Copies(events) /\ events \in Nat
  BY DEF ESType, Jobs
<1>2. w.links = job[p].links /\ w.added = job[p].added /\ r.links = kept
  BY <1>1 DEF Jobs
<1>3. UNCHANGED <<stored, inMemory, verifiedNow, asked, edits, slipped>>
  BY DEF ReadHead, storeVars, memoVars, pastVars
<1>4. (p = "sync" /\ Go(p, "read", r)) \/ (p # "sync" /\ Go(p, "key", w))
  BY DEF ReadHead
<1>5. DOMAIN kept \subseteq DOMAIN job[p].links /\ \A n \in DOMAIN kept : kept[n] = job[p].links[n]
  BY <1>1, <1>2, StraysType
<1> HIDE DEF w, r, kept
<1>6. CASE p = "sync" /\ Go(p, "read", r)
  <2>1. edits = 0 => Keys(r.links)
    BY <1>2, <1>5, <1>6, JobKeys
  <2> QED
    BY <1>3, <1>6, <2>1, LocalCheck
<1>7. CASE p # "sync" /\ Go(p, "key", w)
  BY <1>2, <1>3, <1>7, LocalCheck
<1> QED
  BY <1>4, <1>6, <1>7

LEMMA ReadBatchCheck == ASSUME ESType, CheckInv, ReadBatch PROVE CheckInv'
<1>0. PICK c \in Copies(events), f \in Nat, t \in {job["sync"].tag, 0}, a \in {"read", "key"} : BatchRead(c, f, t, a)
  BY BatchFacts
<1>1. /\ Go("sync", a, [job["sync"] EXCEPT !.links = c, !.from = f, !.tag = t])
      /\ \A n \in DOMAIN job["sync"].links : c[n] = job["sync"].links[n]
      /\ \A n \in DOMAIN c \ DOMAIN job["sync"].links : n \in 1..Len(log) /\ c[n] = log[n]
  BY <1>0 DEF BatchRead
<1> DEFINE w == [job["sync"] EXCEPT !.links = c, !.from = f, !.tag = t]
<1>2. job["sync"] \in Jobs(events) /\ "sync" \in Who
  BY DEF ESType, Who
<1>3. w.links = c
  BY <1>2 DEF Jobs
<1>4. edits = 0 => Keys(c)
  <2> SUFFICES ASSUME edits = 0, NEW n \in DOMAIN c PROVE c[n] \in {First, Second}
    BY DEF Keys
  <2>1. CASE n \in DOMAIN job["sync"].links
    BY <1>1, <2>1 DEF CheckInv, KeysOnly, Keys
  <2>2. CASE n \notin DOMAIN job["sync"].links
    BY <1>1, <2>2, LogFacts
  <2> QED
    BY <2>1, <2>2
<1>5. UNCHANGED <<stored, inMemory, verifiedNow, asked, edits, slipped>>
  BY DEF ReadBatch, storeVars, memoVars, pastVars
<1>6. Go("sync", a, w)
  BY <1>1
<1> HIDE DEF w
<1> QED
  BY <1>2, <1>3, <1>4, <1>5, <1>6, LocalCheck

LEMMA MoveCheck ==
  ASSUME ESType, CheckInv, Busy, NEW p \in Who, copyKey(p) \/ HeadAgain(p) \/ Fails(p)
  PROVE  CheckInv'
<1>1. job[p] \in Jobs(events) /\ asked \in Seq(Asks(events))
  BY DEF ESType
<1>2. UNCHANGED <<stored, inMemory, verifiedNow, edits, slipped>>
  BY DEF copyKey, HeadAgain, Fails, storeVars, memoVars, pastVars
<1>3. p = "sync" => (edits = 0 => Keys(job[p].links))
  BY DEF CheckInv, KeysOnly
<1>4. AskedKeys(asked) => AskedKeys(asked')
  <2>1. asked' = asked \/ (asked' = Tail(asked) /\ at["sync"] # "idle")
    BY DEF copyKey, HeadAgain, Fails
  <2> QED
    BY <1>1, <2>1, AskedTail DEF Busy
<1>5. CASE Fails(p)
  <2>1. Go(p, "idle", Idle) /\ Keys(Idle.links)
    BY <1>5, EmptyCopy DEF Fails, Done, Idle, Keys
  <2> QED
    BY <1>2, <1>4, <2>1, LocalCheck
<1>6. CASE copyKey(p) \/ HeadAgain(p)
  <2>1. \/ \E cp, a : Go(p, a, [job[p] EXCEPT !.cp = cp])
        \/ \E h, a : Go(p, a, [job[p] EXCEPT !.vhead = h])
    BY <1>6 DEF copyKey, HeadAgain
  <2>2. ASSUME NEW cp, NEW a, Go(p, a, [job[p] EXCEPT !.cp = cp]) PROVE CheckInv'
    <3> DEFINE w == [job[p] EXCEPT !.cp = cp]
    <3>1. w.links = job[p].links /\ w.added = job[p].added /\ Go(p, a, w)
      BY <1>1, <2>2 DEF Jobs
    <3> HIDE DEF w
    <3> QED
      BY <1>2, <1>3, <1>4, <3>1, LocalCheck
  <2>3. ASSUME NEW h, NEW a, Go(p, a, [job[p] EXCEPT !.vhead = h]) PROVE CheckInv'
    <3> DEFINE w == [job[p] EXCEPT !.vhead = h]
    <3>1. w.links = job[p].links /\ w.added = job[p].added /\ Go(p, a, w)
      BY <1>1, <2>3 DEF Jobs
    <3> HIDE DEF w
    <3> QED
      BY <1>2, <1>3, <1>4, <3>1, LocalCheck
  <2> QED
    BY <2>1, <2>2, <2>3
<1> QED
  BY <1>5, <1>6

LEMMA EndCheck ==
  ASSUME ESType, CheckInv, NEW p \in Who, NEW w \in Jobs(events), NEW v, NEW held, NEW full,
         Ends(p, w, v, held, full), Sound(w, held, v), w.links = job[p].links, w.added = job[p].added,
         UNCHANGED <<stored, inMemory, edits>>, ResultMatches'
  PROVE  CheckInv'
<1>1. /\ "copy" \in slipped' => "copy" \in slipped
      /\ \/ asked' = asked
         \/ /\ v \in Good /\ asked' = Append(asked, [kind |-> "keep", added |-> w.added, tag |-> w.tag])
            /\ \A n \in DOMAIN w.added : n \in 1..Len(w.vhead) /\ w.added[n] = w.vhead[n]
  BY EndsSound DEF CheckInv
<1>2. AskedKeys(asked) => AskedKeys(asked')
  <2> DEFINE a == [kind |-> "keep", added |-> w.added, tag |-> w.tag]
  <2>1. a \in Asks(events) /\ asked \in Seq(Asks(events)) /\ a.added = w.added
    BY DEF Asks, Jobs, ESType
  <2>2. \A n \in 1..Len(w.vhead) : w.vhead[n] \in {First, Second}
    BY DEF Jobs, Hist
  <2>3. asked' = asked \/ (asked' = Append(asked, a) /\ Keys(w.added))
    BY <1>1, <2>2 DEF Keys
  <2> HIDE DEF a
  <2> QED
    BY <2>1, <2>3, AskedAppend
<1>3. \/ job'["offer"] \in {job["offer"], Idle} /\ job'["sync"].links = job["sync"].links
  <2>1. CASE p = "sync"
    <3> DEFINE r == [w EXCEPT !.seen = SeenAfter(w, v), !.verdict = v]
    <3>1. r.links = w.links /\ Go("sync", "look", r)
      BY <2>1 DEF Jobs, Ends
    <3> HIDE DEF r
    <3> QED
      BY <2>1, <3>1, Going DEF Who
  <2>2. CASE p # "sync"
    <3>1. Go("offer", "idle", Idle)
      BY <2>2 DEF Ends, Done, Who
    <3> QED
      BY <3>1, Going DEF Who
  <2> QED
    BY <2>1, <2>2
<1>4. OfferLinks'
  BY <1>3, OfferKept DEF CheckInv
<1>5. KeysOnly'
  BY <1>2, <1>3 DEF CheckInv, KeysOnly
<1> QED
  BY <1>1, <1>4, <1>5 DEF CheckInv

\* What a check remembers is what its verdict says.
LEMMA Remembered ==
  ASSUME NEW w, NEW v, NEW held, remember(w, v), Sound(w, held, v)
  PROVE  ResultMatches'
<1> DEFINE r == [head |-> w.vhead, links |-> w.links, verdict |-> v, tag |-> w.tag]
<1>1. r.head = w.vhead /\ r.links = w.links /\ r.verdict = v /\ verifiedNow' = r
  BY DEF remember
<1> HIDE DEF r
<1>2. v = "verified" => AllMatch(w.links, w.vhead)
  BY DEF Sound
<1>3. v = "gap" => Matches(w.links, w.vhead, Islands(w.links, w.vhead, {}))
  <2>1. Islands(w.links, w.vhead, held) \subseteq Islands(w.links, w.vhead, {})
    BY IslandsGrow
  <2>2. v = "gap" => Matches(w.links, w.vhead, Islands(w.links, w.vhead, held))
    BY DEF Sound, Good
  <2> QED
    BY <2>1, <2>2 DEF Matches
<1> QED
  BY <1>1, <1>2, <1>3 DEF ResultMatches

LEMMA ShortCheck ==
  ASSUME ESType, CheckInv, NEW p \in Who, NEW held, Short(p, job[p], held), UNCHANGED <<stored, inMemory, edits>>
  PROVE  CheckInv'
<1> DEFINE w == job[p]
<1>1. w \in Jobs(events) /\ ResultMatches
  BY DEF ESType, CheckInv
<1>2. \/ /\ Ends(p, w, verifiedNow.verdict, {}, FALSE) /\ verifiedNow' = verifiedNow
         /\ Sound(w, {}, verifiedNow.verdict)
      \/ /\ Ends(p, w, "verified", held, FALSE) /\ remember(w, "verified") /\ Sound(w, held, "verified")
  BY <1>1, ShortSound
<1>3. CASE /\ Ends(p, w, verifiedNow.verdict, {}, FALSE) /\ verifiedNow' = verifiedNow
           /\ Sound(w, {}, verifiedNow.verdict)
  <2>1. ResultMatches'
    BY <1>1, <1>3 DEF ResultMatches
  <2> QED
    BY <1>1, <1>3, <2>1, EndCheck
<1>4. CASE Ends(p, w, "verified", held, FALSE) /\ remember(w, "verified") /\ Sound(w, held, "verified")
  <2>1. ResultMatches'
    BY <1>4, Remembered
  <2> QED
    BY <1>1, <1>4, <2>1, EndCheck
<1> QED
  BY <1>2, <1>3, <1>4

LEMMA CheckShortCheck == ASSUME ESType, CheckInv, NEW p \in Who, CheckShort(p) PROVE CheckInv'
<1> DEFINE w == job[p]
<1>1. w \in Jobs(events) /\ UNCHANGED <<stored, inMemory, edits>>
  BY DEF ESType, CheckShort, storeVars
<1>2. CASE Short(p, w, {})
  BY <1>1, <1>2, ShortCheck
<1>3. CASE ~Short(p, w, {})
  <2>1. PICK cp : Go(p, "ring", [w EXCEPT !.cp = cp]) /\ UNCHANGED <<asked, slipped>> /\ verifiedNow' \in {verifiedNow, Nil}
    BY <1>3 DEF CheckShort
  <2> DEFINE r == [w EXCEPT !.cp = cp]
  <2>2. r.links = w.links /\ r.added = w.added /\ Go(p, "ring", r)
    BY <1>1, <2>1 DEF Jobs
  <2>3. p = "sync" => (edits = 0 => Keys(w.links))
    BY DEF CheckInv, KeysOnly
  <2> HIDE DEF r
  <2> QED
    BY <1>1, <2>1, <2>2, <2>3, LocalCheck
<1> QED
  BY <1>2, <1>3

LEMMA CheckFullCheck == ASSUME ESType, CheckInv, NEW p \in Who, CheckFull(p) PROVE CheckInv'
<1> DEFINE w == job[p]
           held == {n \in oldest..Len(log) : n <= Len(w.vhead) /\ log[n] = w.vhead[n]}
           v == evaluate(w, held)
<1>1. w \in Jobs(events) /\ events \in Nat /\ UNCHANGED <<stored, inMemory, edits>>
  BY DEF ESType, CheckFull, storeVars
<1> HIDE DEF held
<1>2. Sound(w, held, v)
  BY <1>1, FullSound
<1>3. \/ Short(p, w, held)
      \/ /\ IF v = "unsigned" THEN verifiedNow' = Nil ELSE remember(w, v)
         /\ Ends(p, w, v, held, TRUE)
      \/ /\ v = "unsigned" /\ verifiedNow' = Nil
         /\ Go(p, "again", [w EXCEPT !.again = TRUE]) /\ UNCHANGED <<asked, slipped>>
  BY DEF CheckFull, held
<1> HIDE DEF v
<1>4. CASE Short(p, w, held)
  BY <1>1, <1>4, ShortCheck
<1>5. CASE (IF v = "unsigned" THEN verifiedNow' = Nil ELSE remember(w, v)) /\ Ends(p, w, v, held, TRUE)
  <2>1. ResultMatches'
    <3>1. CASE verifiedNow' = Nil
      BY <3>1 DEF ResultMatches
    <3>2. CASE remember(w, v)
      BY <1>2, <3>2, Remembered
    <3> QED
      BY <1>5, <3>1, <3>2
  <2> QED
    BY <1>1, <1>2, <1>5, <2>1, EndCheck
<1>6. CASE verifiedNow' = Nil /\ Go(p, "again", [w EXCEPT !.again = TRUE]) /\ UNCHANGED <<asked, slipped>>
  <2> DEFINE r == [w EXCEPT !.again = TRUE]
  <2>1. r.links = w.links /\ r.added = w.added /\ Go(p, "again", r)
    BY <1>1, <1>6 DEF Jobs
  <2>2. p = "sync" => (edits = 0 => Keys(w.links))
    BY DEF CheckInv, KeysOnly
  <2> HIDE DEF r
  <2> QED
    BY <1>1, <1>6, <2>1, <2>2, LocalCheck
<1> QED
  BY <1>3, <1>4, <1>5, <1>6

LEMMA SaveCheck == ASSUME ESType, CheckInv, SaveLooks \/ SaveWrites PROVE CheckInv'
<1> DEFINE w == job["sync"]
<1>1. w \in Jobs(events) /\ {"sync", "offer"} \subseteq Who
  BY DEF ESType, Who
<1>2. Text(w).links = w.links
  BY DEF Text
<1>3. Go("sync", "record", w) \/ Go("sync", "write", w)
  BY DEF SaveLooks, SaveWrites
<1>4. job'["sync"] = w /\ job'["offer"] = job["offer"]
  BY <1>1, <1>3, Going
<1>5. UNCHANGED <<asked, edits, slipped>>
  BY DEF SaveLooks, SaveWrites
<1>6. /\ stored' \in {stored, Text(w)} /\ inMemory' \in {inMemory, Nil, Text(w)}
      /\ verifiedNow' \in {verifiedNow, Nil}
           \/ (verifiedNow # Nil /\ verifiedNow' = [verifiedNow EXCEPT !.tag = Nil])
  BY DEF SaveLooks, SaveWrites, memoVars
<1>7. ResultMatches'
  <2>1. CASE verifiedNow' \in {verifiedNow, Nil}
    BY <2>1 DEF CheckInv, ResultMatches
  <2>2. CASE verifiedNow # Nil /\ verifiedNow' = [verifiedNow EXCEPT !.tag = Nil]
    <3> DEFINE r == [verifiedNow EXCEPT !.tag = Nil]
    <3>1. r.links = verifiedNow.links /\ r.head = verifiedNow.head /\ r.verdict = verifiedNow.verdict
      BY <2>2 DEF ESType, Results
    <3> HIDE DEF r
    <3>2. verifiedNow' = r
      BY <2>2 DEF r
    <3> QED
      BY <2>2, <3>1, <3>2 DEF CheckInv, ResultMatches
  <2> QED
    BY <1>6, <2>1, <2>2
<1>8. OfferLinks'
  BY <1>4, OfferKept DEF CheckInv
<1> HIDE DEF w
<1>9. KeysOnly'
  BY <1>2, <1>4, <1>5, <1>6 DEF CheckInv, KeysOnly, w
<1> QED
  BY <1>5, <1>7, <1>8, <1>9 DEF CheckInv

LEMMA recordCheck == ASSUME ESType, CheckInv, Busy, record PROVE CheckInv'
<1>1. Go("sync", "idle", Idle) /\ asked' = Tail(asked) /\ asked # <<>> /\ asked \in Seq(Asks(events)) /\ "sync" \in Who
  BY DEF record, Done, Busy, ESType, Who
<1>2. Keys(Idle.links) /\ (AskedKeys(asked) => AskedKeys(asked'))
  BY <1>1, EmptyCopy, AskedTail DEF Keys, Idle
<1> QED
  BY <1>1, <1>2, LocalCheck DEF record, storeVars

LEMMA InitCheck == ESInit => CheckInv
<1> SUFFICES ASSUME ESInit PROVE CheckInv
  OBVIOUS
<1>1. job["sync"] = Idle /\ job["offer"] = Idle /\ stored = Empty0 /\ inMemory = Nil /\ verifiedNow = Nil
      /\ asked = <<>> /\ slipped = {}
  BY DEF ESInit, Who
<1>2. Idle.links = <<>> /\ Idle.added = <<>> /\ Empty0.links = <<>>
  BY DEF Idle, Empty0
<1> QED
  BY <1>1, <1>2, EmptyCopy DEF CheckInv, OfferLinks, ResultMatches, KeysOnly, Keys, AskedKeys

LEMMA StepCheck == ESType /\ Busy /\ CheckInv /\ [ESNext]_esVars => CheckInv'
<1> SUFFICES ASSUME ESType, Busy, CheckInv, [ESNext]_esVars PROVE CheckInv'
  OBVIOUS
<1>1. CASE World \/ SyncLoads \/ mergeOffered
  BY <1>1, WorldCheck, SyncLoadsCheck, mergeOfferedCheck
<1>2. CASE ReadBatch \/ SaveLooks \/ SaveWrites \/ record
  BY <1>2, ReadBatchCheck, SaveCheck, recordCheck
<1>3. ASSUME NEW p \in Who, Check(p) PROVE CheckInv'
  BY <1>3, ReadHeadCheck, MoveCheck, CheckShortCheck, CheckFullCheck DEF Check
<1>4. CASE UNCHANGED esVars
  BY <1>4 DEF esVars, storeVars, memoVars, pastVars, CheckInv, OfferLinks, ResultMatches, KeysOnly
<1> QED
  BY <1>1, <1>2, <1>3, <1>4 DEF ESNext

LEMMA CheckAlways == ESSpec => [](ESType /\ Busy /\ CheckInv)
BY TypeAlways, InitCheck, StepCheck, PTL DEF ESSpec

(***************************************************************************)
(* evaluate: by the full check, by what this session verified or by its    *)
(* new links alone, a copy passes only if each of its records that the     *)
(* head reaches is the head's, whatever ran beside the check.              *)
(***************************************************************************)
THEOREM PassedWasTheKeys == ESSpec => []PassedIsTheKeys
<1>1. CheckInv => PassedIsTheKeys
  BY DEF CheckInv, PassedIsTheKeys
<1> QED
  BY <1>1, CheckAlways, PTL

(***************************************************************************)
(* mergeOffered: as long as nothing edits the stored copy, only the key's  *)
(* links get into it, whatever a computer offers.                          *)
(***************************************************************************)
THEOREM OnlyTheKeysGetIn == ESSpec => []OnlyTheKeysLinks
<1>1. CheckInv => OnlyTheKeysLinks
  BY DEF CheckInv, KeysOnly, Keys, OnlyTheKeysLinks
<1> QED
  BY <1>1, CheckAlways, PTL

-----------------------------------------------------------------------------
(* What each step of a check does to its job *)

Others(p) == \A q \in Who : q # p => at'[q] = at[q] /\ job'[q] = job[q]
SameEnd(r, w) == r.seen = w.seen /\ r.verdict = w.verdict /\ r.added = w.added

LEMMA ReadHeadJob ==
  ASSUME ESType, NEW p \in Who, ReadHead(p)
  PROVE  /\ at[p] = "head" /\ at'[p] = (IF p = "sync" THEN "read" ELSE "key") /\ Others(p)
         /\ SameEnd(job'[p], job[p]) /\ job'[p].head = log /\ job'[p].vhead = log
         /\ job'[p].cp = job[p].cp /\ job'[p].again = job[p].again /\ job'[p].tag = job[p].tag
         /\ DOMAIN job'[p].links \subseteq DOMAIN job[p].links
         /\ \A n \in DOMAIN job'[p].links : job'[p].links[n] = job[p].links[n]
         /\ p # "sync" => job'[p].links = job[p].links
<1> DEFINE w == [job[p] EXCEPT !.head = log, !.vhead = log]
           kept == setAsideStrays(w.links, w.seen, Len(log))
           f == IF LastSeq(kept) + 1 > oldest THEN LastSeq(kept) + 1 ELSE oldest
           r == [w EXCEPT !.links = kept, !.from = f]
<1>1. job[p] \in Jobs(events) /\ job[p].links \in Copies(events) /\ events \in Nat
  BY DEF ESType, Jobs
<1>2. /\ w.links = job[p].links /\ SameEnd(w, job[p]) /\ w.head = log /\ w.vhead = log
      /\ w.cp = job[p].cp /\ w.again = job[p].again /\ w.tag = job[p].tag
  BY <1>1 DEF Jobs, SameEnd
<1>3. /\ r.links = kept /\ SameEnd(r, job[p]) /\ r.head = log /\ r.vhead = log
      /\ r.cp = job[p].cp /\ r.again = job[p].again /\ r.tag = job[p].tag
  BY <1>1 DEF Jobs, SameEnd
<1>4. at[p] = "head" /\ ((p = "sync" /\ Go(p, "read", r)) \/ (p # "sync" /\ Go(p, "key", w)))
  BY DEF ReadHead
<1>5. DOMAIN kept \subseteq DOMAIN job[p].links /\ \A n \in DOMAIN kept : kept[n] = job[p].links[n]
  BY <1>1, <1>2, StraysType
<1> HIDE DEF w, r, kept
<1>6. CASE p = "sync" /\ Go(p, "read", r)
  <2>1. at'[p] = "read" /\ job'[p] = r /\ Others(p)
    BY <1>6, Going DEF Others
  <2> QED
    BY <1>3, <1>4, <1>5, <1>6, <2>1
<1>7. CASE p # "sync" /\ Go(p, "key", w)
  <2>1. at'[p] = "key" /\ job'[p] = w /\ Others(p)
    BY <1>7, Going DEF Others
  <2> QED
    BY <1>2, <1>4, <1>7, <2>1
<1> QED
  BY <1>4, <1>6, <1>7

LEMMA ReadBatchJob ==
  ASSUME ESType, ReadBatch
  PROVE  /\ at["sync"] = "read" /\ at'["sync"] \in {"read", "key"} /\ Others("sync")
         /\ SameEnd(job'["sync"], job["sync"])
         /\ job'["sync"].head = job["sync"].head /\ job'["sync"].vhead = job["sync"].vhead
         /\ job'["sync"].cp = job["sync"].cp /\ job'["sync"].again = job["sync"].again
         /\ job'["sync"].tag \in {job["sync"].tag, 0}
         /\ \A n \in DOMAIN job["sync"].links : job'["sync"].links[n] = job["sync"].links[n]
         /\ \A n \in DOMAIN job'["sync"].links \ DOMAIN job["sync"].links :
              n \in 1..Len(log) /\ n <= Len(job["sync"].head) /\ job'["sync"].links[n] = log[n]
<1>0. PICK c \in Copies(events), f \in Nat, t \in {job["sync"].tag, 0}, a \in {"read", "key"} : BatchRead(c, f, t, a)
  BY BatchFacts
<1>1. /\ Go("sync", a, [job["sync"] EXCEPT !.links = c, !.from = f, !.tag = t])
      /\ DOMAIN job["sync"].links \subseteq DOMAIN c
      /\ \A n \in DOMAIN job["sync"].links : c[n] = job["sync"].links[n]
      /\ \A n \in DOMAIN c \ DOMAIN job["sync"].links :
           n \in 1..Len(log) /\ n <= Len(job["sync"].head) /\ c[n] = log[n]
  BY <1>0 DEF BatchRead
<1> DEFINE w == [job["sync"] EXCEPT !.links = c, !.from = f, !.tag = t]
<1>2. job["sync"] \in Jobs(events) /\ "sync" \in Who /\ at["sync"] = "read"
  BY DEF ESType, Who, ReadBatch
<1>3. /\ w.links = c /\ w.tag = t /\ SameEnd(w, job["sync"]) /\ w.head = job["sync"].head
      /\ w.vhead = job["sync"].vhead /\ w.cp = job["sync"].cp /\ w.again = job["sync"].again
  BY <1>2 DEF Jobs, SameEnd
<1>4. Go("sync", a, w)
  BY <1>1
<1> HIDE DEF w
<1>5. at'["sync"] = a /\ job'["sync"] = w /\ Others("sync")
  BY <1>2, <1>4, Going DEF Others
<1> QED
  BY <1>1, <1>2, <1>3, <1>5

\* Only the checkpoint, the head to verify or the second try changes.
LEMMA MoveJob ==
  ASSUME ESType, NEW p \in Who, NEW a, NEW w, Go(p, a, w),
         \/ \E cp : w = [job[p] EXCEPT !.cp = cp]
         \/ w = [job[p] EXCEPT !.vhead = log]
         \/ w = [job[p] EXCEPT !.again = TRUE]
  PROVE  /\ at'[p] = a /\ job'[p] = w /\ Others(p)
         /\ SameEnd(w, job[p]) /\ w.links = job[p].links /\ w.head = job[p].head /\ w.tag = job[p].tag
         /\ \/ w.vhead = job[p].vhead /\ w.again = job[p].again /\ \E cp : w = [job[p] EXCEPT !.cp = cp] /\ w.cp = cp
            \/ w = [job[p] EXCEPT !.vhead = log] /\ w.vhead = log /\ w.again = job[p].again /\ w.cp = job[p].cp
            \/ w = [job[p] EXCEPT !.again = TRUE] /\ w.vhead = job[p].vhead /\ w.again /\ w.cp = job[p].cp
<1>1. job[p] \in Jobs(events)
  BY DEF ESType
<1>2. at'[p] = a /\ job'[p] = w /\ Others(p)
  BY Going DEF Others
<1>3. SameEnd(w, job[p]) /\ w.links = job[p].links /\ w.head = job[p].head /\ w.tag = job[p].tag
  BY <1>1 DEF Jobs, SameEnd
<1>4. CASE \E cp : w = [job[p] EXCEPT !.cp = cp]
  <2>1. PICK cp : w = [job[p] EXCEPT !.cp = cp]
    BY <1>4
  <2>2. w.cp = cp /\ w.vhead = job[p].vhead /\ w.again = job[p].again
    BY <1>1, <2>1 DEF Jobs
  <2> QED
    BY <1>2, <1>3, <2>1, <2>2
<1>5. CASE w = [job[p] EXCEPT !.vhead = log]
  <2>1. w.vhead = log /\ w.again = job[p].again /\ w.cp = job[p].cp
    BY <1>1, <1>5 DEF Jobs
  <2> QED
    BY <1>2, <1>3, <1>5, <2>1
<1>6. CASE w = [job[p] EXCEPT !.again = TRUE]
  <2>1. w.vhead = job[p].vhead /\ w.again /\ w.cp = job[p].cp
    BY <1>1, <1>6 DEF Jobs
  <2> QED
    BY <1>2, <1>3, <1>6, <2>1
<1> QED
  BY <1>4, <1>5, <1>6

LEMMA EndsJob ==
  ASSUME ESType, NEW p \in Who, NEW w \in Jobs(events), NEW v, NEW held, NEW full, Ends(p, w, v, held, full)
  PROVE  /\ Others(p)
         /\ p = "sync" =>
              /\ at'["sync"] = "look" /\ asked' = asked
              /\ job'["sync"].links = w.links /\ job'["sync"].seen = SeenAfter(w, v) /\ job'["sync"].verdict = v
              /\ job'["sync"].head = w.head /\ job'["sync"].vhead = w.vhead /\ job'["sync"].again = w.again
              /\ job'["sync"].tag = w.tag /\ job'["sync"].cp = w.cp
         /\ p # "sync" =>
              /\ p = "offer" /\ at'["offer"] = "idle" /\ job'["offer"] = Idle
              /\ \/ asked' = asked
                 \/ /\ v \in Good /\ Takes(w, held)
                    /\ asked' = Append(asked, [kind |-> "keep", added |-> w.added, tag |-> w.tag])
<1>1. CASE p = "sync"
  <2> DEFINE r == [w EXCEPT !.seen = SeenAfter(w, v), !.verdict = v]
  <2>1. /\ r.links = w.links /\ r.seen = SeenAfter(w, v) /\ r.verdict = v /\ r.head = w.head
        /\ r.vhead = w.vhead /\ r.again = w.again /\ r.tag = w.tag /\ r.cp = w.cp
    BY DEF Jobs
  <2>2. Go("sync", "look", r) /\ asked' = asked
    BY <1>1 DEF Ends
  <2> HIDE DEF r
  <2> QED
    BY <1>1, <2>1, <2>2, Going DEF Others
<1>2. CASE p # "sync"
  BY <1>2, EndsFrame, Going DEF Ends, Done, Others
<1> QED
  BY <1>1, <1>2

LEMMA IdleFields ==
  /\ Idle.links = <<>> /\ Idle.seen = <<>> /\ Idle.head = <<>> /\ Idle.vhead = <<>> /\ Idle.cp = Nil
  /\ ~Idle.again /\ Idle.verdict = "none" /\ Idle.added = <<>> /\ Idle.tag = Nil
BY DEF Idle

\* A job that begins has read no head.
Begins(r) == r.head = <<>> /\ r.vhead = <<>> /\ r.cp = Nil /\ ~r.again /\ r.verdict = "none"

LEMMA SyncLoadsJob ==
  ASSUME ESType, SyncLoads
  PROVE  LET r == job'["sync"]  j == Head(asked) IN
         /\ at["sync"] = "idle" /\ Others("sync") /\ asked # <<>> /\ Begins(r) /\ inMemory' = Loaded
         /\ \/ /\ at'["sync"] = "head" /\ asked' = asked
               /\ r.links = Loaded.links /\ r.seen = Loaded.seen /\ r.tag = Nil
            \/ /\ at'["sync"] = "look" /\ asked' = asked /\ ~Forks(Loaded.links, j.added)
               /\ r.links = Merge(Loaded.links, j.added) /\ r.seen = Loaded.seen /\ r.tag = j.tag
            \/ at'["sync"] = "idle" /\ r = Idle /\ asked' = Tail(asked)
<1> DEFINE j == Head(asked)
           w == [Idle EXCEPT !.links = Loaded.links, !.seen = Loaded.seen, !.base = Loaded]
           k == [w EXCEPT !.links = Merge(@, j.added), !.tag = j.tag]
<1>1. w.links = Loaded.links /\ w.seen = Loaded.seen /\ w.tag = Nil /\ Begins(w)
  BY DEF Idle, Begins
<1>2. k.links = Merge(Loaded.links, j.added) /\ k.seen = Loaded.seen /\ k.tag = j.tag /\ Begins(k)
  BY DEF Idle, Begins
<1>3. Begins(Idle)
  BY DEF Idle, Begins
<1>4. /\ at["sync"] = "idle" /\ asked # <<>> /\ inMemory' = Loaded
      /\ \/ Go("sync", "head", w) /\ asked' = asked
         \/ Go("sync", "look", k) /\ asked' = asked /\ ~Forks(w.links, j.added)
         \/ Go("sync", "idle", Idle) /\ asked' = Tail(asked)
  BY DEF SyncLoads, loadMirror, Done
<1> HIDE DEF w, k, j
<1>5. /\ Others("sync")
      /\ \/ at'["sync"] = "head" /\ job'["sync"] = w /\ asked' = asked
         \/ at'["sync"] = "look" /\ job'["sync"] = k /\ asked' = asked /\ ~Forks(Loaded.links, j.added)
         \/ at'["sync"] = "idle" /\ job'["sync"] = Idle /\ asked' = Tail(asked)
  BY <1>1, <1>4, Going DEF Others, Who
<1> QED
  BY <1>1, <1>2, <1>3, <1>4, <1>5 DEF j

LEMMA mergeOfferedJob ==
  ASSUME ESType, mergeOffered
  PROVE  \E x \in Offers :
           LET r == job'["offer"] IN
           /\ DOMAIN x \cap DOMAIN Loaded.links = {} /\ Begins(r) /\ Others("offer") /\ at'["offer"] = "head"
           /\ r.links = Merge(Loaded.links, x) /\ r.seen = Loaded.seen /\ r.added = x
           /\ r.tag = (IF x = <<>> THEN Nil ELSE events + 1) /\ inMemory' = Loaded
<1>1. PICK x \in Offers :
        /\ DOMAIN x \cap DOMAIN Loaded.links = {}
        /\ Go("offer", "head", [Idle EXCEPT !.links = Merge(Loaded.links, x),
               !.seen = Loaded.seen, !.added = x,
               !.tag = IF x = <<>> THEN Nil ELSE events + 1])
  BY DEF mergeOffered
<1> DEFINE t == IF x = <<>> THEN Nil ELSE events + 1
           c == Merge(Loaded.links, x)
           w == [Idle EXCEPT !.links = c, !.seen = Loaded.seen, !.added = x, !.tag = t]
<1>2. w.links = c /\ w.added = x /\ w.seen = Loaded.seen /\ w.tag = t /\ Begins(w)
  BY DEF Idle, Begins
<1>3. Go("offer", "head", w) /\ inMemory' = Loaded
  BY <1>1 DEF mergeOffered, loadMirror
<1> HIDE DEF w, c, t
<1>4. at'["offer"] = "head" /\ job'["offer"] = w /\ Others("offer")
  BY <1>3, Going DEF Who, Others
<1>5. /\ DOMAIN x \cap DOMAIN Loaded.links = {} /\ Begins(job'["offer"]) /\ Others("offer") /\ at'["offer"] = "head"
      /\ job'["offer"].links = c /\ job'["offer"].seen = Loaded.seen /\ job'["offer"].added = x
      /\ job'["offer"].tag = t /\ inMemory' = Loaded
  BY <1>1, <1>2, <1>3, <1>4
<1> QED
  BY <1>5 DEF c, t

LEMMA SyncButtonJob ==
  ASSUME ESType, SyncButton
  PROVE  LET r == job'["sync"]  w == job["sync"] IN
         /\ SameEnd(r, w) /\ r.links = w.links /\ r.head = w.head /\ r.vhead = w.vhead /\ r.again = w.again
         /\ r.cp = w.cp /\ r.tag = w.tag /\ job'["offer"] = job["offer"] /\ at' = at
<1> DEFINE f == (at["sync"] # "idle")
           r == [job["sync"] EXCEPT !.forgot = f]
<1>1. job["sync"] \in Jobs(events) /\ job \in [Who -> Jobs(events)] /\ "sync" \in Who /\ "offer" \in Who
  BY DEF ESType, Who
<1>2. job' = [job EXCEPT !["sync"] = r] /\ at' = at
  BY DEF SyncButton
<1> HIDE DEF f
<1>3. /\ SameEnd(r, job["sync"]) /\ r.links = job["sync"].links /\ r.head = job["sync"].head
      /\ r.vhead = job["sync"].vhead /\ r.again = job["sync"].again
      /\ r.cp = job["sync"].cp /\ r.tag = job["sync"].tag
  BY <1>1 DEF Jobs, SameEnd
<1> HIDE DEF r
<1>4. job'["sync"] = r /\ job'["offer"] = job["offer"]
  BY <1>1, <1>2
<1> QED
  BY <1>2, <1>3, <1>4

LEMMA SaveJob ==
  ASSUME ESType, SaveLooks \/ SaveWrites
  PROVE  /\ job' = job /\ Others("sync") /\ "sync" \in Who
         /\ SaveLooks => at["sync"] = "look" /\ at'["sync"] \in {"record", "write"}
         /\ SaveWrites => at["sync"] = "write" /\ at'["sync"] = "record"
<1> DEFINE w == job["sync"]
<1>1. /\ \E a \in {"record", "write"} : Go("sync", a, w) /\ (SaveWrites => a = "record")
      /\ "sync" \in Who /\ job \in [Who -> Jobs(events)]
  BY DEF SaveLooks, SaveWrites, ESType, Who
<1>2. PICK a \in {"record", "write"} : Go("sync", a, w) /\ (SaveWrites => a = "record")
  BY <1>1
<1>3. job' = job
  BY <1>1, <1>2 DEF Go
<1>4. at'["sync"] = a /\ Others("sync")
  BY <1>1, <1>2, Going DEF Others
<1> QED
  BY <1>1, <1>2, <1>3, <1>4 DEF SaveLooks, SaveWrites

LEMMA recordJob ==
  ASSUME ESType, record
  PROVE  at["sync"] = "record" /\ at'["sync"] = "idle" /\ job'["sync"] = Idle /\ Others("sync")
BY Going DEF record, Done, Who, Others

-----------------------------------------------------------------------------
(* The key's histories *)

LEMMA AllFirstEmpty == AllFirst(<<>>)
BY DEF AllFirst

LEMMA ExtendsSelf == ASSUME NEW h \in Hist PROVE Extends(h, h)
BY ExtendsDef DEF Hist

LEMMA LogIsPast == ASSUME ESType, LogInv PROVE IsPast(log)
BY ExtendsSelf DEF ESType, LogInv, IsPast, PastOf

\* A step that leaves the key alone.
HeadsMove ==
  /\ UNCHANGED <<log, era>>
  /\ \A q \in Who : job'[q].head \in {job[q].head, log, <<>>} /\ job'[q].vhead \in {job[q].vhead, log, <<>>}

LEMMA LogKept == ASSUME ESType, LogInv, HeadsMove PROVE LogInv'
<1>1. PastOf(log, log, era) /\ PastOf(<<>>, log, era)
  BY LogIsPast, AllFirstEmpty DEF IsPast, PastOf
<1>2. ASSUME NEW q \in Who PROVE PastOf(job'[q].head, log', era') /\ PastOf(job'[q].vhead, log', era')
  <2>1. PastOf(job[q].head, log, era) /\ PastOf(job[q].vhead, log, era)
    BY DEF LogInv, IsPast
  <2> QED
    BY <1>1, <2>1 DEF HeadsMove
<1>3. \A q \in Who : IsPast(job[q].head)' /\ IsPast(job[q].vhead)'
  BY <1>2 DEF IsPast
<1> QED
  BY <1>3 DEF HeadsMove, LogInv, AllFirst

LEMMA KeyLinksLog == ASSUME ESType, LogInv, KeyLinks PROVE LogInv'
<1>1. log' = Append(log, era) /\ era' = era /\ job' = job /\ log \in Hist /\ era \in {First, Second}
  BY DEF KeyLinks, ESType
<1>2. /\ Len(log') = Len(log) + 1 /\ Len(log) \in Nat /\ log' \in Hist
      /\ \A i \in 1..Len(log) : log'[i] = log[i]
      /\ log'[Len(log) + 1] = era
  BY <1>1 DEF Hist
<1>3. era' = First => AllFirst(log')
  BY <1>1, <1>2 DEF LogInv, AllFirst
<1>4. ASSUME NEW i \in 1..Len(log'), NEW j \in 1..Len(log'), i < j, log'[i] = Second PROVE log'[j] = Second
  <2>1. i \in 1..Len(log) /\ log[i] = Second
    BY <1>2, <1>4
  <2>2. CASE j \in 1..Len(log)
    BY <1>2, <1>4, <2>1, <2>2 DEF LogInv
  <2>3. CASE j \notin 1..Len(log)
    <3>1. era = Second
      BY <1>1, <2>1 DEF LogInv, AllFirst, First, Second
    <3> QED
      BY <1>2, <1>4, <2>3, <3>1
  <2> QED
    BY <2>2, <2>3
<1>5. ASSUME NEW h \in Hist, IsPast(h) PROVE IsPast(h)'
  <2>1. Extends(log, h) => Extends(log', h)
    <3> SUFFICES ASSUME Extends(log, h) PROVE Extends(log', h)
      OBVIOUS
    <3>1. Len(h) <= Len(log) /\ \A i \in 1..Len(h) : log[i] = h[i]
      BY <1>1, ExtendsDef
    <3>2. Len(h) \in Nat
      BY DEF Hist
    <3>3. Len(h) <= Len(log') /\ \A i \in 1..Len(h) : log'[i] = h[i]
      BY <1>2, <3>1, <3>2
    <3>4. log' \in Hist
      BY <1>2
    <3> DEFINE g == log'
    <3>5. g \in Hist /\ Len(h) <= Len(g) /\ \A i \in 1..Len(h) : g[i] = h[i]
      BY <3>3, <3>4
    <3> HIDE DEF g
    <3>6. Extends(g, h)
      BY <3>5, ExtendsDef
    <3> QED
      BY <3>6 DEF g
  <2> QED
    BY <1>1, <1>5, <2>1 DEF IsPast, PastOf
<1>6. ASSUME NEW q \in Who PROVE IsPast(job[q].head)' /\ IsPast(job[q].vhead)'
  <2>1. job[q].head \in Hist /\ job[q].vhead \in Hist /\ IsPast(job[q].head) /\ IsPast(job[q].vhead)
    BY DEF ESType, Jobs, LogInv
  <2>2. job'[q] = job[q]
    BY <1>1
  <2> QED
    BY <1>5, <2>1, <2>2 DEF IsPast, PastOf
<1> QED
  BY <1>3, <1>4, <1>6 DEF LogInv, AllFirst

LEMMA KeyPutBackLog == ASSUME ESType, LogInv, KeyPutBack PROVE LogInv'
<1>1. PICK n \in 0..(Len(log) - 1) : log' = SubSeq(log, 1, n)
  BY DEF KeyPutBack
<1>2. era = First /\ era' = Second /\ job' = job /\ log \in Hist
  BY DEF KeyPutBack, ESType
<1>3. AllFirst(log) /\ Len(log) \in Nat
  BY <1>2 DEF LogInv, Hist
<1>4. log' \in Hist /\ Len(log') = n /\ \A i \in 1..n : log'[i] = log[i]
  BY <1>1, <1>2, <1>3, PrefixFacts
<1>5. \A i \in 1..Len(log') : log'[i] = First
  BY <1>1, <1>3, <1>4 DEF AllFirst
<1>6. ASSUME NEW q \in Who PROVE IsPast(job[q].head)' /\ IsPast(job[q].vhead)'
  BY <1>2 DEF LogInv, IsPast, PastOf, First, Second
<1> QED
  BY <1>2, <1>5, <1>6 DEF LogInv, First, Second

LEMMA SmallSteps ==
  ASSUME ESType, World \/ SyncLoads \/ mergeOffered \/ ReadBatch \/ SaveLooks \/ SaveWrites \/ record,
         ~KeyLinks, ~KeyPutBack
  PROVE  HeadsMove
<1>0. {"sync", "offer"} = Who /\ job \in [Who -> Jobs(events)]
  BY DEF Who, ESType
<1>1. CASE KeyRestarts \/ Edit \/ sync
  <2>1. UNCHANGED <<log, era, job>>
    BY <1>1 DEF KeyRestarts, Edit, sync, keyVars
  <2> QED
    BY <2>1 DEF HeadsMove
<1>2. CASE Restarts
  <2>1. job' = [p \in Who |-> Idle] /\ UNCHANGED <<log, era>>
    BY <1>2 DEF Restarts, keyVars
  <2> QED
    BY <2>1, IdleFields DEF HeadsMove
<1>3. CASE SyncButton
  <2>1. UNCHANGED <<log, era>>
    BY <1>3 DEF SyncButton, keyVars
  <2> QED
    BY <1>0, <1>3, <2>1, SyncButtonJob DEF HeadsMove
<1>4. CASE SyncLoads
  <2>1. UNCHANGED <<log, era>>
    BY <1>4 DEF SyncLoads, keyVars
  <2>2. Begins(job'["sync"]) /\ Others("sync")
    BY <1>4, SyncLoadsJob
  <2> QED
    BY <1>0, <2>1, <2>2 DEF HeadsMove, Begins, Others
<1>5. CASE mergeOffered
  <2>1. UNCHANGED <<log, era>>
    BY <1>5 DEF mergeOffered, keyVars
  <2>2. Begins(job'["offer"]) /\ Others("offer")
    BY <1>5, mergeOfferedJob
  <2> QED
    BY <1>0, <2>1, <2>2 DEF HeadsMove, Begins, Others
<1>6. CASE ReadBatch
  <2>1. UNCHANGED <<log, era>>
    BY <1>6 DEF ReadBatch, keyVars
  <2> QED
    BY <1>0, <1>6, <2>1, ReadBatchJob DEF HeadsMove, Others
<1>7. CASE SaveLooks \/ SaveWrites
  <2>1. UNCHANGED <<log, era>>
    BY <1>7 DEF SaveLooks, SaveWrites, keyVars
  <2>2. job' = job
    BY <1>7, SaveJob
  <2> QED
    BY <2>1, <2>2 DEF HeadsMove
<1>8. CASE record
  <2>1. UNCHANGED <<log, era>>
    BY <1>8 DEF record, keyVars
  <2> QED
    BY <1>0, <1>8, <2>1, recordJob, IdleFields DEF HeadsMove, Others
<1> QED
  BY <1>1, <1>2, <1>3, <1>4, <1>5, <1>6, <1>7, <1>8 DEF World

\* What Check(p) does when it does not read a head: one field moves, it ends, or all is dropped.
LEMMA CheckSteps ==
  ASSUME ESType, NEW p \in Who, copyKey(p) \/ CheckShort(p) \/ CheckFull(p) \/ HeadAgain(p) \/ Fails(p)
  PROVE  /\ at[p] \in Checking
         /\ \/ /\ \E a, w : /\ Go(p, a, w)
                          /\ \/ \E cp : w = [job[p] EXCEPT !.cp = cp]
                             \/ w = [job[p] EXCEPT !.vhead = log]
                             \/ w = [job[p] EXCEPT !.again = TRUE]
               /\ asked' = asked
            \/ \E v, held, full : Ends(p, job[p], v, held, full)
            \/ Go(p, "idle", Idle) /\ asked' = IF p = "sync" THEN Tail(asked) ELSE asked
<1>1. CASE copyKey(p) \/ HeadAgain(p)
  BY <1>1 DEF copyKey, HeadAgain, Checking
<1>2. CASE Fails(p)
  BY <1>2 DEF Fails, Done, Checking
<1>3. CASE CheckShort(p)
  <2>1. /\ \/ Short(p, job[p], {})
           \/ (\E cp : Go(p, "ring", [job[p] EXCEPT !.cp = cp])) /\ asked' = asked
        /\ at[p] \in Checking
    BY <1>3 DEF CheckShort, Checking
  <2> QED
    BY <2>1, ShortEnds
<1>4. CASE CheckFull(p)
  <2> DEFINE held == {n \in oldest..Len(log) : n <= Len(job[p].vhead) /\ log[n] = job[p].vhead[n]}
  <2>1. /\ \/ Short(p, job[p], held)
           \/ Go(p, "again", [job[p] EXCEPT !.again = TRUE]) /\ asked' = asked
           \/ Ends(p, job[p], evaluate(job[p], held), held, TRUE)
        /\ at[p] \in Checking
    BY <1>4 DEF CheckFull, Checking
  <2> HIDE DEF held
  <2> QED
    BY <2>1, ShortEnds
<1> QED
  BY <1>1, <1>2, <1>3, <1>4

LEMMA CheckHeads == ASSUME ESType, NEW p \in Who, Check(p) PROVE HeadsMove
<1>0. {"sync", "offer"} = Who /\ job[p] \in Jobs(events) /\ UNCHANGED <<log, era>>
  BY DEF Who, ESType, Check, ReadHead, copyKey, CheckShort, CheckFull, HeadAgain, Fails, keyVars
<1>1. CASE ReadHead(p)
  BY <1>0, <1>1, ReadHeadJob DEF HeadsMove, Others
<1>2. CASE \E a, w : /\ Go(p, a, w)
                     /\ \/ \E cp : w = [job[p] EXCEPT !.cp = cp]
                        \/ w = [job[p] EXCEPT !.vhead = log]
                        \/ w = [job[p] EXCEPT !.again = TRUE]
  <2>1. PICK a, w : /\ Go(p, a, w)
                    /\ \/ \E cp : w = [job[p] EXCEPT !.cp = cp]
                       \/ w = [job[p] EXCEPT !.vhead = log]
                       \/ w = [job[p] EXCEPT !.again = TRUE]
    BY <1>2
  <2>2. job'[p] = w /\ Others(p) /\ w.head = job[p].head /\ w.vhead \in {job[p].vhead, log}
    BY <2>1, MoveJob
  <2> QED
    BY <1>0, <2>2 DEF HeadsMove, Others
<1>3. CASE \E v, held, full : Ends(p, job[p], v, held, full)
  <2>1. PICK v, held, full : Ends(p, job[p], v, held, full)
    BY <1>3
  <2>2. Others(p) /\ ((job'[p].head = job[p].head /\ job'[p].vhead = job[p].vhead) \/ job'[p] = Idle)
    <3> DEFINE w == job[p]
    <3>1. w \in Jobs(events) /\ Ends(p, w, v, held, full)
      BY <1>0, <2>1
    <3> HIDE DEF w
    <3>2. /\ Others(p)
          /\ p = "sync" => job'["sync"].head = w.head /\ job'["sync"].vhead = w.vhead
          /\ p # "sync" => p = "offer" /\ job'["offer"] = Idle
      BY <3>1, EndsJob
    <3> QED
      BY <3>2 DEF w
  <2> QED
    BY <1>0, <2>2, IdleFields DEF HeadsMove, Others
<1>4. CASE Go(p, "idle", Idle)
  BY <1>0, <1>4, Going, IdleFields DEF HeadsMove
<1> QED
  BY <1>1, <1>2, <1>3, <1>4, CheckSteps DEF Check

LEMMA StepLog == ESType /\ LogInv /\ [ESNext]_esVars => LogInv'
<1> SUFFICES ASSUME ESType, LogInv, [ESNext]_esVars PROVE LogInv'
  OBVIOUS
<1>1. CASE KeyLinks \/ KeyPutBack
  BY <1>1, KeyLinksLog, KeyPutBackLog
<1>2. CASE UNCHANGED esVars
  <2>1. HeadsMove
    BY <1>2 DEF esVars, keyVars, HeadsMove
  <2> QED
    BY <2>1, LogKept
<1>3. ASSUME NEW p \in Who, Check(p) PROVE LogInv'
  BY <1>3, CheckHeads, LogKept
<1> QED
  BY <1>1, <1>2, <1>3, SmallSteps, LogKept DEF ESNext

-----------------------------------------------------------------------------
(* The second try, and the signature behind a verdict *)

LEMMA AgainKept ==
  ASSUME AgainInv, job'["sync"].links = job["sync"].links, job'["sync"].head = job["sync"].head,
         job'["sync"].again = job["sync"].again,
         job'["sync"].vhead = job["sync"].vhead \/ job["sync"].again,
         at'["sync"] = at["sync"] \/ (at'["sync"] \in {"key", "check", "ring", "look", "write", "record"})
  PROVE  AgainInv'
BY DEF AgainInv

LEMMA AgainBegins ==
  ASSUME Begins(job'["sync"]) \/ job'["sync"] = Idle, at'["sync"] # "again"
  PROVE  AgainInv'
BY IdleFields DEF AgainInv, Begins

LEMMA WorldAgain ==
  ASSUME ESType, AgainInv, World \/ SyncLoads \/ mergeOffered \/ SaveLooks \/ SaveWrites \/ record
  PROVE  AgainInv'
<1>1. CASE KeyLinks \/ KeyRestarts \/ KeyPutBack \/ Edit \/ sync
  <2>1. UNCHANGED <<at, job>>
    BY <1>1 DEF KeyLinks, KeyRestarts, KeyPutBack, Edit, sync
  <2> QED
    BY <2>1 DEF AgainInv
<1>2. CASE Restarts
  <2>1. job'["sync"] = Idle /\ at'["sync"] = "idle"
    BY <1>2 DEF Restarts, Who
  <2> QED
    BY <2>1, AgainBegins
<1>3. CASE SyncButton
  BY <1>3, SyncButtonJob, AgainKept
<1>4. CASE SyncLoads
  <2>1. Begins(job'["sync"]) /\ at'["sync"] # "again"
    BY <1>4, SyncLoadsJob
  <2> QED
    BY <2>1, AgainBegins
<1>5. CASE mergeOffered
  <2>1. Others("offer")
    BY <1>5, mergeOfferedJob
  <2>2. at'["sync"] = at["sync"] /\ job'["sync"] = job["sync"]
    BY <2>1 DEF Others, Who
  <2> QED
    BY <2>2 DEF AgainInv
<1>6. CASE SaveLooks \/ SaveWrites
  <2>1. job' = job /\ at'["sync"] \in {"record", "write"}
    BY <1>6, SaveJob
  <2> QED
    BY <2>1, AgainKept
<1>7. CASE record
  <2>1. job'["sync"] = Idle /\ at'["sync"] = "idle"
    BY <1>7, recordJob
  <2> QED
    BY <2>1, AgainBegins
<1> QED
  BY <1>1, <1>2, <1>3, <1>4, <1>5, <1>6, <1>7 DEF World

LEMMA EndsAgain ==
  ASSUME ESType, AgainInv, NEW p \in Who, NEW v, NEW held, NEW full, Ends(p, job[p], v, held, full)
  PROVE  AgainInv'
<1> DEFINE w == job[p]
<1>1. w \in Jobs(events) /\ Ends(p, w, v, held, full)
  BY DEF ESType
<1> HIDE DEF w
<1>2. /\ Others(p)
      /\ p = "sync" =>
           /\ at'["sync"] = "look" /\ job'["sync"].links = w.links /\ job'["sync"].head = w.head
           /\ job'["sync"].vhead = w.vhead /\ job'["sync"].again = w.again
  BY <1>1, EndsJob
<1>3. CASE p = "sync"
  BY <1>2, <1>3, AgainKept DEF w
<1>4. CASE p # "sync"
  BY <1>2, <1>4 DEF Others, Who, AgainInv
<1> QED
  BY <1>3, <1>4

LEMMA MoveAgain ==
  ASSUME ESType, AgainInv, NEW p \in Who, NEW a, NEW w, Go(p, a, w),
         \/ (\E cp : w = [job[p] EXCEPT !.cp = cp]) /\ a \in {"check", "ring"}
         \/ w = [job[p] EXCEPT !.vhead = log] /\ a = "key" /\ at[p] = "again"
         \/ w = [job[p] EXCEPT !.again = TRUE] /\ a = "again" /\ (~job[p].again => AllMatch(job[p].links, job[p].vhead))
  PROVE  AgainInv'
<1>1. /\ at'[p] = a /\ job'[p] = w /\ Others(p) /\ w.links = job[p].links /\ w.head = job[p].head
      /\ \/ w.vhead = job[p].vhead /\ w.again = job[p].again /\ (\E cp : w = [job[p] EXCEPT !.cp = cp])
         \/ w.again = job[p].again /\ w = [job[p] EXCEPT !.vhead = log]
         \/ w.vhead = job[p].vhead /\ w.again /\ w = [job[p] EXCEPT !.again = TRUE]
  BY MoveJob
<1>2. CASE p # "sync"
  BY <1>1, <1>2 DEF Others, Who, AgainInv
<1>3. CASE p = "sync" /\ a = "again"
  <2>1. w.vhead = job[p].vhead /\ w.again
    <3>1. job[p] \in Jobs(events) /\ w = [job[p] EXCEPT !.again = TRUE]
      BY <1>3 DEF ESType
    <3> QED
      BY <3>1 DEF Jobs
  <2>2. AllMatch(w.links, w.head)
    BY <1>1, <1>3, <2>1 DEF AgainInv
  <2> QED
    BY <1>1, <1>3, <2>1, <2>2 DEF AgainInv
<1>4. CASE p = "sync" /\ a = "key"
  <2>1. job[p].again /\ w.again = job[p].again
    <3>1. job[p] \in Jobs(events) /\ w = [job[p] EXCEPT !.vhead = log] /\ job[p].again
      BY <1>3, <1>4 DEF ESType, AgainInv
    <3> QED
      BY <3>1 DEF Jobs
  <2> QED
    BY <1>1, <1>4, <2>1, AgainKept
<1>5. CASE p = "sync" /\ a \in {"check", "ring"}
  <2>1. w.vhead = job[p].vhead /\ w.again = job[p].again
    <3>1. job[p] \in Jobs(events) /\ \E cp : w = [job[p] EXCEPT !.cp = cp]
      BY <1>5 DEF ESType
    <3> QED
      BY <3>1 DEF Jobs
  <2> QED
    BY <1>1, <1>5, <2>1, AgainKept
<1> QED
  BY <1>2, <1>3, <1>4, <1>5

LEMMA CheckAgain == ASSUME ESType, AgainInv, NEW p \in Who, Check(p) \/ ReadBatch PROVE AgainInv'
<1>0. "sync" \in Who /\ events \in Nat /\ job[p] \in Jobs(events)
  BY DEF Who, ESType
<1>1. CASE ReadHead(p)
  <2>1. /\ Others(p) /\ at[p] = "head" /\ at'[p] \in {"read", "key"} /\ job'[p].head = log /\ job'[p].vhead = log
        /\ job'[p].again = job[p].again
    BY <1>1, ReadHeadJob
  <2> QED
    BY <1>0, <2>1 DEF Others, AgainInv
<1>2. CASE ReadBatch
  <2>1. /\ at["sync"] = "read" /\ at'["sync"] \in {"read", "key"} /\ job'["sync"].head = job["sync"].head
        /\ job'["sync"].vhead = job["sync"].vhead /\ job'["sync"].again = job["sync"].again
    BY <1>2, ReadBatchJob
  <2> QED
    BY <2>1 DEF AgainInv
<1>3. CASE copyKey(p)
  <2> DEFINE a == IF job[p].again THEN "ring" ELSE "check"
  <2>1. a \in {"check", "ring"} /\ \E cp : Go(p, a, [job[p] EXCEPT !.cp = cp])
    BY <1>3 DEF copyKey
  <2> HIDE DEF a
  <2> QED
    BY <2>1, MoveAgain
<1>4. CASE HeadAgain(p)
  <2>1. Go(p, "key", [job[p] EXCEPT !.vhead = log]) /\ at[p] = "again"
    BY <1>4 DEF HeadAgain
  <2> QED
    BY <2>1, MoveAgain
<1>5. CASE Fails(p)
  <2>1. at'[p] = "idle" /\ job'[p] = Idle /\ Others(p)
    BY <1>5, Going DEF Fails, Done, Others
  <2> QED
    BY <1>0, <2>1, AgainBegins DEF Others, AgainInv
<1>6. CASE CheckShort(p)
  <2>1. \/ Short(p, job[p], {})
        \/ \E cp : Go(p, "ring", [job[p] EXCEPT !.cp = cp])
    BY <1>6 DEF CheckShort
  <2> QED
    BY <2>1, ShortEnds, EndsAgain, MoveAgain
<1>7. CASE CheckFull(p)
  <2> DEFINE held == {n \in oldest..Len(log) : n <= Len(job[p].vhead) /\ log[n] = job[p].vhead[n]}
             v == evaluate(job[p], held)
  <2>1. \/ Short(p, job[p], held)
        \/ Go(p, "again", [job[p] EXCEPT !.again = TRUE]) /\ v = "unsigned"
        \/ Ends(p, job[p], v, held, TRUE)
    BY <1>7 DEF CheckFull
  <2> HIDE DEF held
  <2>2. v = "unsigned" => AllMatch(job[p].links, job[p].vhead)
    <3> DEFINE w == job[p]
    <3>1. w \in Jobs(events) /\ v = evaluate(w, held)
      BY <1>0
    <3> HIDE DEF w, v
    <3> QED
      BY <1>0, <3>1, EvaluateFacts DEF w
  <2> HIDE DEF v
  <2> QED
    BY <2>1, <2>2, ShortEnds, EndsAgain, MoveAgain
<1> QED
  BY <1>1, <1>2, <1>3, <1>4, <1>5, <1>6, <1>7 DEF Check

LEMMA StepAgain == ESType /\ AgainInv /\ [ESNext]_esVars => AgainInv'
<1> SUFFICES ASSUME ESType, AgainInv, [ESNext]_esVars PROVE AgainInv'
  OBVIOUS
<1>1. CASE UNCHANGED esVars
  BY <1>1 DEF esVars, AgainInv
<1> QED
  BY <1>1, WorldAgain, CheckAgain DEF ESNext, Who

\* Heads of two pasts that agree at a seq agree before it.
LEMMA SamePast ==
  ASSUME ESType, LogInv, NEW a \in Hist, NEW b \in Hist, IsPast(a), IsPast(b),
         NEW k \in Nat, k <= Len(a), k <= Len(b), k = 0 \/ a[k] = b[k]
  PROVE  \A i \in 1..k : a[i] = b[i]
<1>0. Len(a) \in Nat /\ Len(b) \in Nat /\ log \in Hist /\ Len(log) \in Nat
  BY DEF Hist, ESType
<1>1. CASE AllFirst(a) /\ AllFirst(b)
  BY <1>0, <1>1 DEF AllFirst
<1>2. CASE Extends(log, a) /\ Extends(log, b)
  BY <1>0, <1>2, ExtendsDef
<1>3. ASSUME NEW x \in Hist, NEW y \in Hist, AllFirst(x), Extends(log, y), k <= Len(x), k <= Len(y),
             k = 0 \/ x[k] = y[k], NEW i \in 1..k
      PROVE  x[i] = y[i]
  <2>1. Len(x) \in Nat /\ Len(y) \in Nat /\ i \in 1..Len(x) /\ i \in 1..Len(y) /\ k \in 1..Len(x) /\ k \in 1..Len(y) /\ k # 0
    BY <1>3 DEF Hist
  <2>2. Len(y) <= Len(log) /\ log[i] = y[i] /\ log[k] = y[k] /\ i \in 1..Len(log) /\ k \in 1..Len(log)
    BY <1>0, <1>3, <2>1, ExtendsDef
  <2>3. x[i] = First /\ x[k] = First /\ log[k] = First
    BY <1>3, <2>1, <2>2 DEF AllFirst
  <2>4. log[i] # Second
    <3>1. CASE i = k
      BY <2>3, <3>1 DEF First, Second
    <3>2. CASE i # k
      BY <1>3, <2>2, <2>3, <3>2 DEF LogInv, First, Second
    <3> QED
      BY <3>1, <3>2
  <2>5. log[i] \in {First, Second}
    BY <1>0, <2>2 DEF Hist
  <2> QED
    BY <2>2, <2>3, <2>4, <2>5
<1>4. (AllFirst(a) \/ Extends(log, a)) /\ (AllFirst(b) \/ Extends(log, b))
  BY DEF IsPast, PastOf
<1>5. CASE AllFirst(a) /\ Extends(log, b)
  BY <1>3, <1>5
<1>6. CASE AllFirst(b) /\ Extends(log, a)
  <2>1. ASSUME NEW i \in 1..k PROVE b[i] = a[i]
    BY <1>3, <1>6
  <2> QED
    BY <2>1
<1> QED
  BY <1>1, <1>2, <1>4, <1>5, <1>6

LEMMA SignedMore ==
  ASSUME NEW S, NEW T, S \subseteq T, NEW h, NEW links, SignedBy(S, h, links)
  PROVE  SignedBy(T, h, links)
BY DEF SignedBy

\* What the short path accepts was signed: its new links come after links that were.
LEMMA CleanSigned ==
  ASSUME ESType, ResultMatches, SignedInv, NEW w \in Jobs(events), NEW held, Clean(w, held)
  PROVE  SignedBy(signed, w.vhead, w.links)
<1> DEFINE was == verifiedNow
           last == LastSeq(was.links)
           part == SubSeq(was.head, 1, last)
           k == LastSeq(w.links)
           q == SubSeq(w.vhead, 1, k)
<1>1. /\ was # Nil /\ was.verdict = "verified" /\ DOMAIN was.links # {}
      /\ Only(w.links, 1..last) = was.links
      /\ k <= Len(w.vhead) /\ Extends(w.vhead, part)
  BY DEF Clean, Grew, NewLinksClean, samePrefix
<1>2. was \in Results(events) /\ events \in Nat /\ signed \subseteq Marks
  BY <1>1 DEF ESType
<1>3. was.links \in Copies(events) /\ was.head \in Hist /\ w.links \in Copies(events) /\ w.vhead \in Hist
  BY <1>2 DEF Results, Jobs
<1>4. AllMatch(was.links, was.head) /\ SignedBy(signed, was.head, was.links)
  BY <1>1 DEF ResultMatches, SignedInv, SignedFor
<1> HIDE DEF was
<1>5. last \in DOMAIN was.links /\ last \in Nat /\ last >= 1
  <2> DEFINE c == was.links
  <2>1. c \in Copies(events) /\ DOMAIN c # {} /\ last = LastSeq(c)
    BY <1>1, <1>3
  <2> HIDE DEF c, last
  <2>2. LastSeq(c) \in DOMAIN c /\ LastSeq(c) \in 0..Reach(events) /\ Reach(events) \in Nat
        /\ \A n \in DOMAIN c : n \in 1..LastSeq(c)
    BY <1>2, <2>1, LastSeqFacts, ReachType
  <2> QED
    BY <2>1, <2>2 DEF c
<1>6. last <= Len(was.head) /\ was.head # <<>>
  BY <1>3, <1>4, <1>5 DEF AllMatch, Matches, Hist
<1>7. part \in Hist /\ Len(part) = last
  BY <1>3, <1>5, <1>6, PrefixFacts
<1>8. PICK s \in signed : Extends(part, s.part)
  BY <1>4, <1>6 DEF SignedBy
<1>9. s.part \in Hist
  BY <1>2 DEF Marks
<1>10. last \in DOMAIN w.links
  <2>1. Only(w.links, 1..last) = was.links
    BY <1>1
  <2> HIDE DEF last
  <2>2. DOMAIN Only(w.links, 1..last) = DOMAIN w.links \cap 1..last
    BY DEF Only
  <2> QED
    BY <1>5, <2>1, <2>2
<1>11. k \in Nat /\ last <= k
  <2> DEFINE c == w.links
  <2>1. c \in Copies(events) /\ last \in DOMAIN c /\ k = LastSeq(c)
    BY <1>3, <1>10
  <2> HIDE DEF c, k, last
  <2>2. LastSeq(c) \in 0..Reach(events) /\ Reach(events) \in Nat /\ \A n \in DOMAIN c : n \in 1..LastSeq(c)
    BY <1>2, <2>1, LastSeqFacts, ReachType
  <2> QED
    BY <2>1, <2>2
<1>12. k <= Len(w.vhead) /\ Extends(w.vhead, part)
  BY <1>1
<1> HIDE DEF part, k, last, q
<1>13. q \in Hist /\ Len(q) = k /\ \A i \in 1..k : q[i] = w.vhead[i]
  BY <1>3, <1>11, <1>12, PrefixFacts DEF q
<1>14. Len(s.part) <= last /\ Len(s.part) \in Nat /\ \A i \in 1..Len(s.part) : part[i] = s.part[i]
  BY <1>7, <1>8, <1>9, ExtendsDef DEF Hist
<1>15. \A i \in 1..last : w.vhead[i] = part[i]
  BY <1>3, <1>7, <1>12, ExtendsDef
<1>16. Len(s.part) <= Len(q) /\ \A i \in 1..Len(s.part) : q[i] = s.part[i]
  BY <1>5, <1>11, <1>13, <1>14, <1>15
<1>17. Extends(q, s.part)
  BY <1>9, <1>13, <1>16, ExtendsDef
<1> QED
  BY <1>8, <1>17 DEF SignedBy, q, k

\* A full check that verifies leaves its own mark.
LEMMA FullSigned ==
  ASSUME ESType, NEW w \in Jobs(events), NEW held, evaluate(w, held) = "verified",
         signed' = IF hybridOk(w) THEN signed \cup {Vouched(w)} ELSE signed
  PROVE  SignedBy(signed', w.vhead, w.links) /\ AllMatch(w.links, w.vhead)
<1>1. events \in Nat /\ w.links \in Copies(events) /\ w.vhead \in Hist
  BY DEF ESType, Jobs
<1>2. AllMatch(w.links, w.vhead) /\ LastSeq(w.links) <= Len(w.vhead) /\ (hybridOk(w) \/ w.vhead = <<>>)
  BY <1>1, EvaluateFacts
<1>3. CASE w.vhead = <<>>
  BY <1>2, <1>3 DEF SignedBy
<1>4. CASE hybridOk(w)
  <2> DEFINE q == SubSeq(w.vhead, 1, LastSeq(w.links))
             c == w.links
  <2>0. c \in Copies(events)
    BY <1>1
  <2> HIDE DEF c
  <2>1. LastSeq(c) \in Nat
    BY <1>1, <2>0, LastSeqFacts, ReachType
  <2> USE DEF c
  <2>2. q \in Hist
    BY <1>1, <1>2, <2>1, PrefixFacts
  <2>3. Vouched(w).part = q /\ Vouched(w) \in signed'
    BY <1>4 DEF Vouched
  <2> HIDE DEF q
  <2>4. Extends(q, Vouched(w).part)
    BY <2>2, <2>3, ExtendsSelf
  <2> QED
    BY <1>2, <2>3, <2>4 DEF SignedBy, q
<1> QED
  BY <1>2, <1>3, <1>4

\* The answer of a job that verified, also with its head from the first try.
LEMMA AnswerSigned ==
  ASSUME ESType, LogInv, AgainInv, SignedInv, job["sync"].verdict = "verified", Len(job["sync"].seen) = Len(job["sync"].vhead)
  PROVE  job["sync"].seen = <<>> \/ \E s \in signed : Extends(job["sync"].seen, s.part)
<1> DEFINE w == job["sync"]
           k == LastSeq(w.links)
           q == SubSeq(w.vhead, 1, k)
<1>1. w \in Jobs(events) /\ events \in Nat /\ signed \subseteq Marks /\ "sync" \in Who
  BY DEF ESType, Who
<1>2. w.links \in Copies(events) /\ w.head \in Hist /\ w.vhead \in Hist /\ w.seen = w.head
  BY <1>1 DEF Jobs, SignedInv, Good
<1>3. AllMatch(w.links, w.vhead) /\ SignedBy(signed, w.vhead, w.links) /\ IsPast(w.head) /\ IsPast(w.vhead)
  BY <1>1 DEF SignedInv, SignedFor, LogInv
<1>4. IF w.again THEN AllMatch(w.links, w.head) ELSE w.vhead = w.head
  BY DEF AgainInv
<1>5. Len(w.head) = Len(w.vhead) /\ Len(w.head) \in Nat
  BY <1>2 DEF Hist
<1> HIDE DEF w
<1>6. k \in Nat /\ (k = 0 \/ k \in DOMAIN w.links)
  <2> DEFINE c == w.links
  <2>1. c \in Copies(events) /\ k = LastSeq(c)
    BY <1>2
  <2> HIDE DEF c, k
  <2>2. LastSeq(c) \in 0..Reach(events) /\ Reach(events) \in Nat
        /\ IF DOMAIN c = {} THEN LastSeq(c) = 0 ELSE LastSeq(c) \in DOMAIN c
    BY <1>1, <2>1, LastSeqFacts, ReachType
  <2> QED
    BY <2>1, <2>2 DEF c
<1> HIDE DEF k
<1>7. k <= Len(w.vhead) /\ (k = 0 \/ w.head[k] = w.vhead[k])
  BY <1>3, <1>4, <1>5, <1>6 DEF AllMatch, Matches
<1>8. \A i \in 1..k : w.head[i] = w.vhead[i]
  BY <1>2, <1>3, <1>5, <1>6, <1>7, SamePast
<1>9. CASE w.vhead = <<>>
  <2>1. Len(w.head) = 0
    BY <1>5, <1>9
  <2>2. w.head = <<>>
    BY <1>2, <2>1 DEF Hist
  <2> QED
    BY <1>2, <2>2 DEF w
<1>10. CASE w.vhead # <<>>
  <2>1. PICK s \in signed : Extends(q, s.part)
    BY <1>3, <1>10 DEF SignedBy, k
  <2>2. s.part \in Hist
    BY <1>1 DEF Marks
  <2>3. q \in Hist /\ Len(q) = k /\ \A i \in 1..k : q[i] = w.vhead[i]
    BY <1>2, <1>6, <1>7, PrefixFacts
  <2> HIDE DEF q
  <2>4. Len(s.part) <= k /\ Len(s.part) \in Nat /\ \A i \in 1..Len(s.part) : q[i] = s.part[i]
    BY <2>1, <2>2, <2>3, ExtendsDef DEF Hist
  <2>5. Len(s.part) <= Len(w.head) /\ \A i \in 1..Len(s.part) : w.head[i] = s.part[i]
    BY <1>5, <1>6, <1>7, <1>8, <2>3, <2>4
  <2>6. Extends(w.head, s.part)
    BY <1>2, <2>2, <2>5, ExtendsDef
  <2> QED
    BY <1>2, <2>1, <2>6 DEF w
<1> QED
  BY <1>9, <1>10

\* A step that verifies nothing and answers nothing new.
LEMMA SignedKept ==
  ASSUME SignedInv, OkIsSigned, signed \subseteq signed', answer' \in {answer, Nil},
         \/ verifiedNow' \in {verifiedNow, Nil}
         \/ /\ verifiedNow # Nil /\ verifiedNow'.head = verifiedNow.head /\ verifiedNow'.links = verifiedNow.links
            /\ verifiedNow'.verdict = verifiedNow.verdict,
         \/ job'["sync"].verdict = "none"
         \/ /\ job'["sync"].links = job["sync"].links /\ job'["sync"].head = job["sync"].head
            /\ job'["sync"].vhead = job["sync"].vhead /\ job'["sync"].seen = job["sync"].seen
            /\ job'["sync"].verdict = job["sync"].verdict
            /\ at'["sync"] = at["sync"] \/ at'["sync"] \notin Checking
  PROVE  SignedInv' /\ OkIsSigned'
<1>1. ASSUME NEW h, NEW links, SignedBy(signed, h, links) PROVE SignedBy(signed', h, links)
  BY <1>1, SignedMore
<1>2. OkIsSigned'
  BY DEF OkIsSigned
<1>3. (verifiedNow # Nil /\ verifiedNow.verdict = "verified" => SignedFor(verifiedNow.head, verifiedNow.links))'
  BY <1>1 DEF SignedInv, SignedFor
<1>4. CASE job'["sync"].verdict = "none"
  BY <1>2, <1>3, <1>4 DEF SignedInv, Good
<1>5. CASE job'["sync"].verdict # "none"
  <2>1. job'["sync"].verdict = "verified" =>
          AllMatch(job'["sync"].links, job'["sync"].vhead) /\ SignedBy(signed', job'["sync"].vhead, job'["sync"].links)
    BY <1>1, <1>5 DEF SignedInv, SignedFor
  <2>2. job'["sync"].verdict \in Good => job'["sync"].seen = job'["sync"].head
    BY <1>5 DEF SignedInv
  <2>3. at'["sync"] \in Checking => job'["sync"].verdict = "none"
    BY <1>5 DEF SignedInv
  <2> QED
    BY <1>2, <1>3, <2>1, <2>2, <2>3 DEF SignedInv, SignedFor
<1> QED
  BY <1>2, <1>4, <1>5

LEMMA WorldSigned ==
  ASSUME ESType, SignedInv, OkIsSigned, World \/ SyncLoads \/ mergeOffered \/ ReadBatch \/ SaveLooks \/ SaveWrites
  PROVE  SignedInv' /\ OkIsSigned'
<1>1. CASE KeyLinks \/ KeyRestarts \/ KeyPutBack \/ Edit \/ sync
  <2>1. UNCHANGED <<at, job, signed, verifiedNow, answer>>
    BY <1>1 DEF KeyLinks, KeyRestarts, KeyPutBack, Edit, sync, memoVars, pastVars
  <2> QED
    BY <2>1, SignedKept
<1>2. CASE Restarts
  <2>1. job'["sync"] = Idle /\ verifiedNow' = Nil /\ answer' = Nil
    BY <1>2 DEF Restarts, Who
  <2> QED
    BY <2>1, IdleFields DEF SignedInv, OkIsSigned, Good
<1>3. CASE SyncButton
  <2>1. UNCHANGED signed /\ verifiedNow' = Nil /\ answer' = Nil
    BY <1>3 DEF SyncButton, pastVars
  <2> QED
    BY <1>3, <2>1, SyncButtonJob, SignedKept DEF SameEnd
<1>4. CASE SyncLoads
  <2>1. UNCHANGED <<signed, verifiedNow, answer>> /\ job'["sync"].verdict = "none"
    BY <1>4, SyncLoadsJob DEF SyncLoads, memoVars, pastVars, Begins
  <2> QED
    BY <2>1, SignedKept
<1>5. CASE mergeOffered
  <2>1. Others("offer")
    BY <1>5, mergeOfferedJob
  <2>2. at'["sync"] = at["sync"] /\ job'["sync"] = job["sync"] /\ UNCHANGED <<signed, verifiedNow, answer>>
    BY <1>5, <2>1 DEF Others, Who, mergeOffered, memoVars
  <2> QED
    BY <2>2, SignedKept
<1>6. CASE ReadBatch
  <2>1. UNCHANGED <<signed, verifiedNow, answer>>
    BY <1>6 DEF ReadBatch, memoVars, pastVars
  <2>2. job'["sync"].verdict = "none"
    BY <1>6, ReadBatchJob DEF SameEnd, SignedInv, Checking
  <2> QED
    BY <2>1, <2>2, SignedKept
<1>7. CASE SaveLooks \/ SaveWrites
  <2>1. job' = job /\ at'["sync"] \in {"record", "write"}
    BY <1>7, SaveJob
  <2>2. /\ signed' = signed /\ answer' \in {answer, Nil}
        /\ verifiedNow' \in {verifiedNow, Nil}
             \/ (verifiedNow # Nil /\ verifiedNow' = [verifiedNow EXCEPT !.tag = Nil])
    BY <1>7 DEF SaveLooks, SaveWrites, memoVars
  <2>3. \/ verifiedNow' \in {verifiedNow, Nil}
        \/ /\ verifiedNow # Nil /\ verifiedNow'.head = verifiedNow.head /\ verifiedNow'.links = verifiedNow.links
           /\ verifiedNow'.verdict = verifiedNow.verdict
    <3>1. CASE verifiedNow # Nil /\ verifiedNow' = [verifiedNow EXCEPT !.tag = Nil]
      <4>1. verifiedNow \in Results(events)
        BY <3>1 DEF ESType
      <4> QED
        BY <3>1, <4>1 DEF Results
    <3> QED
      BY <2>2, <3>1
  <2> QED
    BY <2>1, <2>2, <2>3, SignedKept DEF Checking
<1> QED
  BY <1>1, <1>2, <1>3, <1>4, <1>5, <1>6, <1>7 DEF World

\* A check ends verified only with a signature behind it.
LEMMA EndsSigned ==
  ASSUME ESType, SignedInv, OkIsSigned, NEW p \in Who, at[p] \in Checking, NEW v, NEW held, NEW full,
         Ends(p, job[p], v, held, full), signed \subseteq signed', answer' = answer,
         v = "verified" => AllMatch(job[p].links, job[p].vhead) /\ SignedBy(signed', job[p].vhead, job[p].links),
         \/ verifiedNow' \in {verifiedNow, Nil}
         \/ v # "unsigned" /\ remember(job[p], v)
  PROVE  SignedInv' /\ OkIsSigned'
<1> DEFINE w == job[p]
<1>1. w \in Jobs(events) /\ Ends(p, w, v, held, full)
  BY DEF ESType
<1>2. v = "verified" => AllMatch(w.links, w.vhead) /\ SignedBy(signed', w.vhead, w.links)
  OBVIOUS
<1>3. verifiedNow' \in {verifiedNow, Nil} \/ verifiedNow' = [head |-> w.vhead, links |-> w.links, verdict |-> v, tag |-> w.tag]
  BY DEF remember
<1> HIDE DEF w
<1>4. OkIsSigned'
  BY DEF OkIsSigned
<1>5. verifiedNow' # Nil /\ verifiedNow'.verdict = "verified" => SignedBy(signed', verifiedNow'.head, verifiedNow'.links)
  <2>1. CASE verifiedNow' \in {verifiedNow, Nil}
    BY <2>1, SignedMore DEF SignedInv, SignedFor
  <2>2. CASE verifiedNow' = [head |-> w.vhead, links |-> w.links, verdict |-> v, tag |-> w.tag]
    BY <1>2, <2>2
  <2> QED
    BY <1>3, <2>1, <2>2
<1>6. CASE p = "sync"
  <2>1. /\ at'["sync"] = "look" /\ job'["sync"].links = w.links /\ job'["sync"].seen = SeenAfter(w, v)
        /\ job'["sync"].verdict = v /\ job'["sync"].head = w.head /\ job'["sync"].vhead = w.vhead
    <3>1. p = "sync" =>
            /\ at'["sync"] = "look" /\ job'["sync"].links = w.links
            /\ job'["sync"].head = w.head /\ job'["sync"].vhead = w.vhead
      BY <1>1, EndsJob
    <3>2. job'["sync"].seen = SeenAfter(w, v) /\ job'["sync"].verdict = v
      <4> DEFINE r == [w EXCEPT !.seen = SeenAfter(w, v), !.verdict = v]
      <4>1. r.seen = SeenAfter(w, v) /\ r.verdict = v
        BY <1>1 DEF Jobs
      <4>2. Go("sync", "look", r) /\ "sync" \in Who
        BY <1>1, <1>6 DEF Ends
      <4> HIDE DEF r
      <4>3. job'["sync"] = r
        BY <4>2, Going
      <4> QED
        BY <4>1, <4>3
    <3> QED
      BY <1>6, <3>1, <3>2
  <2>2. v \in Good => SeenAfter(w, v) = w.head
    BY DEF SeenAfter
  <2> QED
    BY <1>2, <1>4, <1>5, <2>1, <2>2 DEF SignedInv, SignedFor, Checking
<1>7. CASE p # "sync"
  <2>1. Others(p)
    BY <1>1, EndsJob
  <2>2. at'["sync"] = at["sync"] /\ job'["sync"] = job["sync"]
    BY <1>7, <2>1 DEF Others, Who
  <2>3. job["sync"].verdict = "verified" => SignedBy(signed', job["sync"].vhead, job["sync"].links)
    BY SignedMore DEF SignedInv, SignedFor
  <2> QED
    BY <1>4, <1>5, <2>2, <2>3 DEF SignedInv, SignedFor
<1> QED
  BY <1>6, <1>7

LEMMA ShortSigned ==
  ASSUME ESType, CheckInv, SignedInv, OkIsSigned, NEW p \in Who, at[p] \in Checking, NEW held,
         Short(p, job[p], held), answer' = answer
  PROVE  SignedInv' /\ OkIsSigned'
<1> DEFINE w == job[p]
<1>1. w \in Jobs(events) /\ ResultMatches
  BY DEF ESType, CheckInv
<1>2. \/ /\ Skips(w) /\ Ends(p, w, verifiedNow.verdict, {}, FALSE) /\ verifiedNow' = verifiedNow /\ signed' = signed
         /\ Sound(w, {}, verifiedNow.verdict)
      \/ /\ Clean(w, held) /\ Ends(p, w, "verified", held, FALSE)
         /\ remember(w, "verified") /\ signed' = signed /\ AllMatch(w.links, w.vhead)
  BY <1>1, ShortSound
<1>3. CASE /\ Skips(w) /\ Ends(p, w, verifiedNow.verdict, {}, FALSE) /\ verifiedNow' = verifiedNow /\ signed' = signed
           /\ Sound(w, {}, verifiedNow.verdict)
  <2>1. verifiedNow.verdict = "verified" => AllMatch(w.links, w.vhead) /\ SignedBy(signed', w.vhead, w.links)
    BY <1>3 DEF Skips, Sound, SignedInv, SignedFor
  <2> QED
    BY <1>3, <2>1, EndsSigned
<1>4. CASE /\ Clean(w, held) /\ Ends(p, w, "verified", held, FALSE)
           /\ remember(w, "verified") /\ signed' = signed /\ AllMatch(w.links, w.vhead)
  <2>1. SignedBy(signed, w.vhead, w.links)
    BY <1>1, <1>4, CleanSigned
  <2> QED
    BY <1>4, <2>1, EndsSigned
<1> QED
  BY <1>2, <1>3, <1>4

LEMMA MoveSigned ==
  ASSUME ESType, SignedInv, OkIsSigned, NEW p \in Who, at[p] \in Checking, NEW a \in Checking, NEW w, Go(p, a, w),
         \/ \E cp : w = [job[p] EXCEPT !.cp = cp]
         \/ w = [job[p] EXCEPT !.vhead = log]
         \/ w = [job[p] EXCEPT !.again = TRUE],
         signed' = signed, answer' = answer, verifiedNow' \in {verifiedNow, Nil}
  PROVE  SignedInv' /\ OkIsSigned'
<1>1. job'[p] = w /\ Others(p) /\ w.verdict = job[p].verdict /\ at'[p] = a
  BY MoveJob DEF SameEnd
<1>2. CASE p = "sync"
  <2>1. job'["sync"].verdict = "none"
    BY <1>1, <1>2 DEF SignedInv
  <2> QED
    BY <2>1, SignedKept
<1>3. CASE p # "sync"
  <2>1. job'["sync"] = job["sync"] /\ at'["sync"] = at["sync"]
    BY <1>1, <1>3 DEF Others, Who
  <2> QED
    BY <2>1, SignedKept
<1> QED
  BY <1>2, <1>3

LEMMA CheckSigned == ASSUME ESType, CheckInv, SignedInv, OkIsSigned, NEW p \in Who, Check(p) PROVE SignedInv' /\ OkIsSigned'
<1>0. "sync" \in Who /\ job[p] \in Jobs(events)
  BY DEF Who, ESType
<1>1. CASE ReadHead(p)
  <2>1. Others(p) /\ at[p] = "head" /\ job'[p].verdict = job[p].verdict
    BY <1>1, ReadHeadJob DEF SameEnd
  <2>2. UNCHANGED <<signed, answer, verifiedNow>>
    BY <1>1 DEF ReadHead, memoVars, pastVars
  <2>3. CASE p = "sync"
    <3>1. job'["sync"].verdict = "none"
      BY <2>1, <2>3 DEF SignedInv, Checking
    <3> QED
      BY <2>2, <3>1, SignedKept
  <2>4. CASE p # "sync"
    <3>1. job'["sync"] = job["sync"] /\ at'["sync"] = at["sync"]
      BY <1>0, <2>1, <2>4 DEF Others
    <3> QED
      BY <2>2, <3>1, SignedKept
  <2> QED
    BY <2>3, <2>4
<1>2. CASE copyKey(p)
  <2> DEFINE a == IF job[p].again THEN "ring" ELSE "check"
  <2>1. /\ a \in Checking /\ at[p] \in Checking /\ \E cp : Go(p, a, [job[p] EXCEPT !.cp = cp])
        /\ UNCHANGED <<signed, answer, verifiedNow>>
    BY <1>2 DEF copyKey, Checking, memoVars, pastVars
  <2> HIDE DEF a
  <2> QED
    BY <2>1, MoveSigned
<1>3. CASE HeadAgain(p)
  <2>1. /\ {"key", at[p]} \subseteq Checking /\ Go(p, "key", [job[p] EXCEPT !.vhead = log])
        /\ UNCHANGED <<signed, answer, verifiedNow>>
    BY <1>3 DEF HeadAgain, Checking, memoVars, pastVars
  <2> QED
    BY <2>1, MoveSigned
<1>4. CASE Fails(p)
  <2>1. job'[p] = Idle /\ Others(p) /\ UNCHANGED <<signed, answer, verifiedNow>>
    BY <1>4, Going DEF Fails, Done, Others, memoVars, pastVars
  <2>2. job'["sync"].verdict = "none" \/ (job'["sync"] = job["sync"] /\ at'["sync"] = at["sync"])
    BY <1>0, <2>1, IdleFields DEF Others
  <2> QED
    BY <2>1, <2>2, SignedKept
<1>5. CASE CheckShort(p)
  <2>1. /\ \/ Short(p, job[p], {})
           \/ (\E cp : Go(p, "ring", [job[p] EXCEPT !.cp = cp])) /\ signed' = signed /\ verifiedNow' \in {verifiedNow, Nil}
        /\ at[p] \in Checking /\ "ring" \in Checking /\ answer' = answer
    BY <1>5 DEF CheckShort, Checking
  <2> QED
    BY <2>1, ShortSigned, MoveSigned
<1>6. CASE CheckFull(p)
  <2> DEFINE w == job[p]
             held == {n \in oldest..Len(log) : n <= Len(w.vhead) /\ log[n] = w.vhead[n]}
             v == evaluate(w, held)
  <2>1. /\ \/ Short(p, w, held)
           \/ /\ v = "unsigned" /\ verifiedNow' = Nil /\ signed' = signed
              /\ Go(p, "again", [w EXCEPT !.again = TRUE])
           \/ /\ IF v = "unsigned" THEN verifiedNow' = Nil ELSE remember(w, v)
              /\ signed' = IF hybridOk(w) /\ v = "verified" THEN signed \cup {Vouched(w)} ELSE signed
              /\ Ends(p, w, v, held, TRUE)
        /\ at[p] \in Checking /\ "again" \in Checking /\ answer' = answer
    BY <1>6 DEF CheckFull, Checking
  <2> HIDE DEF held
  <2>2. CASE Short(p, w, held)
    BY <2>1, <2>2, ShortSigned
  <2>3. CASE verifiedNow' = Nil /\ signed' = signed /\ Go(p, "again", [w EXCEPT !.again = TRUE])
    BY <2>1, <2>3, MoveSigned
  <2>4. CASE /\ IF v = "unsigned" THEN verifiedNow' = Nil ELSE remember(w, v)
             /\ signed' = IF hybridOk(w) /\ v = "verified" THEN signed \cup {Vouched(w)} ELSE signed
             /\ Ends(p, w, v, held, TRUE)
    <3>1. v = "verified" => SignedBy(signed', w.vhead, w.links) /\ AllMatch(w.links, w.vhead)
      <4> SUFFICES ASSUME v = "verified" PROVE SignedBy(signed', w.vhead, w.links) /\ AllMatch(w.links, w.vhead)
        OBVIOUS
      <4>1. signed' = IF hybridOk(w) THEN signed \cup {Vouched(w)} ELSE signed
        BY <2>4
      <4>2. w \in Jobs(events) /\ evaluate(w, held) = "verified"
        BY <1>0
      <4> HIDE DEF w, v
      <4> QED
        BY <4>1, <4>2, FullSigned
    <3>2. signed \subseteq signed' /\ (verifiedNow' \in {verifiedNow, Nil} \/ (v # "unsigned" /\ remember(w, v)))
      BY <2>4
    <3> HIDE DEF v
    <3> QED
      BY <2>1, <2>4, <3>1, <3>2, EndsSigned
  <2> QED
    BY <2>1, <2>2, <2>3, <2>4
<1> QED
  BY <1>1, <1>2, <1>3, <1>4, <1>5, <1>6 DEF Check

LEMMA recordSigned ==
  ASSUME ESType, LogInv, AgainInv, SignedInv, OkIsSigned, record PROVE SignedInv' /\ OkIsSigned'
<1> DEFINE w == job["sync"]
           vouched == w.verdict \in Good /\ Len(w.seen) = Len(w.vhead)
<1>1. /\ job'["sync"] = Idle /\ verifiedNow' = verifiedNow /\ signed' = signed
      /\ answer' = IF w.verdict = "none" THEN answer
                   ELSE [verdict |-> w.verdict, ok |-> w.verdict = "verified" /\ vouched,
                         head |-> IF vouched THEN w.seen ELSE Nil]
  BY recordJob DEF record
<1>2. w.verdict = "verified" /\ vouched => w.seen = <<>> \/ \E s \in signed : Extends(w.seen, s.part)
  BY AnswerSigned
<1> HIDE DEF vouched, w
<1>3. OkIsSigned'
  <2>1. CASE answer' = answer
    BY <1>1, <2>1 DEF OkIsSigned
  <2>2. CASE answer' = [verdict |-> w.verdict, ok |-> w.verdict = "verified" /\ vouched,
                         head |-> IF vouched THEN w.seen ELSE Nil]
    <3>1. answer'.ok => answer'.head = w.seen /\ w.verdict = "verified" /\ vouched
      BY <2>2
    <3> QED
      BY <1>1, <1>2, <3>1 DEF OkIsSigned
  <2> QED
    BY <1>1, <2>1, <2>2
<1>4. SignedInv'
  BY <1>1, IdleFields DEF SignedInv, SignedFor, Good
<1> QED
  BY <1>3, <1>4

LEMMA InitHead == ESInit => HeadInv
<1> SUFFICES ASSUME ESInit PROVE HeadInv
  OBVIOUS
<1>1. /\ job["sync"] = Idle /\ job["offer"] = Idle /\ at["sync"] = "idle" /\ at["offer"] = "idle" /\ era = First
      /\ verifiedNow = Nil /\ answer = Nil
  BY DEF ESInit, Who
<1>2. PICK n \in Before : log = [i \in 1..n |-> First]
  BY DEF ESInit
<1>3. AllFirst(log) /\ Len(log) \in Nat /\ \A i \in 1..Len(log) : log[i] # Second
  <2>1. n \in Nat /\ Len(log) = n
    BY <1>2, BoundsAssumption
  <2> QED
    BY <1>2, <2>1 DEF AllFirst, First, Second
<1>4. LogInv
  BY <1>1, <1>3, IdleFields, AllFirstEmpty DEF LogInv, IsPast, PastOf, Who
<1>5. AgainInv
  BY <1>1, IdleFields DEF AgainInv
<1>6. SignedInv /\ OkIsSigned
  BY <1>1, IdleFields DEF SignedInv, OkIsSigned, Good
<1> QED
  BY <1>4, <1>5, <1>6 DEF HeadInv

LEMMA StepHead == ESType /\ CheckInv /\ HeadInv /\ [ESNext]_esVars => HeadInv'
<1> SUFFICES ASSUME ESType, CheckInv, HeadInv, [ESNext]_esVars PROVE HeadInv'
  OBVIOUS
<1>1. LogInv' /\ AgainInv'
  BY StepLog, StepAgain DEF HeadInv
<1>2. SignedInv' /\ OkIsSigned'
  <2>1. CASE UNCHANGED esVars
    <3>1. UNCHANGED <<at, job, signed, verifiedNow, answer>>
      BY <2>1 DEF esVars, memoVars, pastVars
    <3> QED
      BY <3>1, SignedKept DEF HeadInv
  <2>2. CASE World \/ SyncLoads \/ mergeOffered \/ ReadBatch \/ SaveLooks \/ SaveWrites
    BY <2>2, WorldSigned DEF HeadInv
  <2>3. CASE record
    BY <2>3, recordSigned DEF HeadInv
  <2>4. ASSUME NEW p \in Who, Check(p) PROVE SignedInv' /\ OkIsSigned'
    BY <2>4, CheckSigned DEF HeadInv
  <2> QED
    BY <2>1, <2>2, <2>3, <2>4 DEF ESNext
<1> QED
  BY <1>1, <1>2 DEF HeadInv

LEMMA HeadAlways == ESSpec => [](ESType /\ CheckInv /\ HeadInv)
BY CheckAlways, InitHead, StepHead, PTL DEF ESSpec

(***************************************************************************)
(* record: an answer that lets a budget open names a head that grew from   *)
(* links which a check with the key's signature verified in this session,  *)
(* also when the head it saved is that of its first try.                   *)
(***************************************************************************)
THEOREM OkWasSigned == ESSpec => []OkIsSigned
<1>1. HeadInv => OkIsSigned
  BY DEF HeadInv
<1> QED
  BY <1>1, HeadAlways, PTL

-----------------------------------------------------------------------------
(* Whose records are whose *)

\* A step that brings the queue and the sync no tag they did not have.
AskedTagsKept ==
  \A i \in DOMAIN asked' : asked'[i].tag = Nil \/ \E j \in DOMAIN asked : asked'[i].tag = asked[j].tag
TagsKept ==
  /\ AskedTagsKept
  /\ job'["sync"].tag \in {job["sync"].tag, Nil, 0} \/ \E j \in DOMAIN asked : job'["sync"].tag = asked[j].tag

LEMMA TailTags == ASSUME ESType, asked # <<>>, asked' = Tail(asked) PROVE AskedTagsKept
<1>1. asked \in Seq(Asks(events))
  BY DEF ESType
<1>2. \A i \in DOMAIN Tail(asked) : i + 1 \in DOMAIN asked /\ Tail(asked)[i] = asked[i + 1]
  BY <1>1, TailFacts
<1> QED
  BY <1>2 DEF AskedTagsKept

LEMMA AppendTags ==
  ASSUME ESType, NEW a \in Asks(events), asked' = Append(asked, a)
  PROVE  /\ a.tag = Nil => AskedTagsKept
         /\ \A i \in DOMAIN asked' : asked'[i] = a \/ \E j \in DOMAIN asked : asked'[i] = asked[j]
<1>1. asked \in Seq(Asks(events))
  BY DEF ESType
<1>2. \A i \in DOMAIN asked' : asked'[i] = a \/ (i \in DOMAIN asked /\ asked'[i] = asked[i])
  <2> SUFFICES ASSUME NEW i \in DOMAIN asked' PROVE asked'[i] = a \/ (i \in DOMAIN asked /\ asked'[i] = asked[i])
    OBVIOUS
  <2>1. i \in DOMAIN asked \/ i = Len(asked) + 1
    BY <1>1, AppendFacts
  <2> QED
    BY <1>1, <2>1, AppendFacts
<1> QED
  BY <1>2 DEF AskedTagsKept

LEMMA UsedLess ==
  ASSUME TagsKept, NEW t, t \notin {Nil, 0}, Used(t)'
  PROVE  Used(t)
BY DEF TagsKept, AskedTagsKept, Used

LEMMA TagFrame ==
  ASSUME ESType, TagInv, TagsKept, events' \in Nat, events <= events',
         \/ job'["offer"].tag = Nil
         \/ job'["offer"].tag = job["offer"].tag /\ (at'["offer"] # "idle" => at["offer"] # "idle"),
         at'["sync"] \in Checking => job'["sync"].tag \in {Nil, 0}
  PROVE  TagInv'
<1>1. events \in Nat /\ 1..events \subseteq 1..events'
  BY DEF ESType
<1>2. Nil \notin Nat
  BY NilAssumption
<1>3. \A i \in DOMAIN asked' : asked'[i].tag \in {Nil} \cup 1..events'
  BY <1>1 DEF TagInv, TagsKept, AskedTagsKept, OfferTags
<1>4. job'["sync"].tag \in {Nil, 0} \cup 1..events'
  BY <1>1 DEF TagInv, TagsKept, OfferTags
<1>5. job'["offer"].tag \in {Nil} \cup 1..events'
  BY <1>1 DEF TagInv, OfferTags
<1>6. at'["offer"] # "idle" /\ job'["offer"].tag # Nil => ~Used(job["offer"].tag)'
  <2> SUFFICES ASSUME at'["offer"] # "idle", job'["offer"].tag # Nil, Used(job["offer"].tag)' PROVE FALSE
    OBVIOUS
  <2>1. job'["offer"].tag = job["offer"].tag /\ at["offer"] # "idle" /\ ~Used(job["offer"].tag)
    BY DEF TagInv
  <2>2. PICK t : t = job'["offer"].tag
    OBVIOUS
  <2>3. t \notin {Nil, 0} /\ Used(t)'
    BY <1>2, <2>2, <1>5 DEF Used
  <2> QED
    BY <2>1, <2>2, <2>3, UsedLess
<1> QED
  BY <1>3, <1>4, <1>5, <1>6 DEF TagInv, OfferTags

LEMMA WorldTags ==
  ASSUME ESType, TagInv, Busy, World \/ SyncLoads \/ ReadBatch \/ SaveLooks \/ SaveWrites \/ record
  PROVE  TagInv' /\ TagsKept
<1>0. events \in Nat /\ (events' = events \/ events' = events + 1) /\ "offer" \in Who /\ "sync" \in Who
  BY DEF ESType, Who, World, KeyLinks, KeyRestarts, KeyPutBack, Edit, Restarts, sync, SyncButton, SyncLoads, ReadBatch,
         SaveLooks, SaveWrites, record, Event, countVars
<1>0a. events' \in Nat /\ events <= events'
  BY <1>0
<1>1. CASE KeyLinks \/ KeyRestarts \/ KeyPutBack \/ Edit
  <2>1. UNCHANGED <<at, job, asked>>
    BY <1>1 DEF KeyLinks, KeyRestarts, KeyPutBack, Edit
  <2>2. TagsKept
    BY <2>1 DEF TagsKept, AskedTagsKept
  <2> QED
    BY <1>0a, <2>1, <2>2, TagFrame DEF TagInv
<1>2. CASE Restarts
  <2>1. /\ job'["sync"] = Idle /\ job'["offer"] = Idle /\ at'["sync"] = "idle" /\ asked' = <<>> /\ Idle.tag = Nil
    BY <1>2, IdleFields DEF Restarts, Who
  <2>2. TagsKept
    BY <2>1, EmptyCopy DEF TagsKept, AskedTagsKept
  <2> QED
    BY <1>0a, <2>1, <2>2, TagFrame
<1>3. CASE sync \/ SyncButton
  <2> DEFINE a == [kind |-> "sync", added |-> <<>>, tag |-> Nil]
  <2>1. a \in Asks(events) /\ a.tag = Nil
    BY EmptyCopy DEF Asks, Tags
  <2>2. asked' = Append(asked, a)
    BY <1>3 DEF sync, SyncButton, Ask
  <2> HIDE DEF a
  <2>3. AskedTagsKept
    BY <2>1, <2>2, AppendTags
  <2>4. at' = at /\ job'["sync"].tag = job["sync"].tag /\ job'["offer"] = job["offer"]
    BY <1>3, SyncButtonJob DEF sync
  <2>5. TagsKept
    BY <2>3, <2>4 DEF TagsKept
  <2> QED
    BY <1>0a, <2>4, <2>5, TagFrame DEF TagInv
<1>4. CASE SyncLoads
  <2> DEFINE j == Head(asked)
             r == job'["sync"]
  <2>1. /\ asked # <<>> /\ Others("sync")
        /\ \/ asked' = asked /\ r.tag = Nil
           \/ at'["sync"] = "look" /\ asked' = asked /\ r.tag = j.tag
           \/ at'["sync"] = "idle" /\ r = Idle /\ asked' = Tail(asked)
    BY <1>4, SyncLoadsJob
  <2>2. 1 \in DOMAIN asked /\ j = asked[1]
    BY <2>1 DEF ESType
  <2>3. asked' = asked => AskedTagsKept
    BY DEF AskedTagsKept
  <2>4. asked' = Tail(asked) => AskedTagsKept
    BY <2>1, TailTags
  <2>5. TagsKept
    BY <2>1, <2>2, <2>3, <2>4, IdleFields DEF TagsKept
  <2>6. at'["sync"] \in Checking => r.tag \in {Nil, 0}
    BY <2>1 DEF Checking
  <2>7. at'["offer"] = at["offer"] /\ job'["offer"] = job["offer"]
    BY <1>0, <2>1 DEF Others
  <2> QED
    BY <1>0a, <2>5, <2>6, <2>7, TagFrame
<1>5. CASE ReadBatch
  <2>1. /\ at["sync"] = "read" /\ Others("sync") /\ job'["sync"].tag \in {job["sync"].tag, 0} /\ asked' = asked
    BY <1>5, ReadBatchJob DEF ReadBatch
  <2>2. TagsKept
    BY <2>1 DEF TagsKept, AskedTagsKept
  <2>3. job'["sync"].tag \in {Nil, 0}
    BY <2>1 DEF TagInv, Checking
  <2>7. at'["offer"] = at["offer"] /\ job'["offer"] = job["offer"]
    BY <1>0, <2>1 DEF Others
  <2> QED
    BY <1>0a, <2>2, <2>3, <2>7, TagFrame
<1>6. CASE SaveLooks \/ SaveWrites
  <2>1. job' = job /\ Others("sync") /\ at'["sync"] \in {"record", "write"} /\ asked' = asked
    BY <1>6, SaveJob DEF SaveLooks, SaveWrites
  <2>2. TagsKept
    BY <2>1 DEF TagsKept, AskedTagsKept
  <2>7. at'["offer"] = at["offer"] /\ job'["offer"] = job["offer"]
    BY <1>0, <2>1 DEF Others
  <2> QED
    BY <1>0a, <2>1, <2>2, <2>7, TagFrame DEF Checking
<1>7. CASE record
  <2>1. at["sync"] = "record" /\ at'["sync"] = "idle" /\ job'["sync"] = Idle /\ Others("sync") /\ asked' = Tail(asked)
    BY <1>7, recordJob DEF record
  <2>2. TagsKept
    BY <2>1, TailTags, IdleFields DEF TagsKept, Busy
  <2>7. at'["offer"] = at["offer"] /\ job'["offer"] = job["offer"]
    BY <1>0, <2>1 DEF Others
  <2> QED
    BY <1>0a, <2>1, <2>2, <2>7, TagFrame DEF Checking
<1> QED
  BY <1>1, <1>2, <1>3, <1>4, <1>5, <1>6, <1>7 DEF World

LEMMA mergeOfferedTags == ASSUME ESType, TagInv, mergeOffered PROVE TagInv' /\ TagsKept
<1>0. events \in Nat /\ events' = events + 1 /\ asked' = asked /\ "sync" \in Who /\ Nil \notin Nat
  BY NilAssumption DEF ESType, mergeOffered, Event, Who
<1>1. Others("offer") /\ job'["offer"].tag \in {Nil, events + 1}
  BY mergeOfferedJob
<1>2. at'["sync"] = at["sync"] /\ job'["sync"] = job["sync"]
  BY <1>0, <1>1 DEF Others
<1>3. TagsKept
  BY <1>0, <1>2 DEF TagsKept, AskedTagsKept
<1>4. 1..events \subseteq 1..(events + 1) /\ events + 1 \in 1..(events + 1) /\ events + 1 \notin {Nil, 0} \cup 1..events
  BY <1>0
<1>5. ~Used(events')
  BY <1>0, <1>4 DEF Used, TagInv, OfferTags
<1>6. job'["offer"].tag # Nil => ~Used(job["offer"].tag)'
  BY <1>0, <1>1, <1>2, <1>5 DEF Used
<1> QED
  BY <1>0, <1>1, <1>2, <1>3, <1>4, <1>6 DEF TagInv, OfferTags

LEMMA CheckTags ==
  ASSUME ESType, TagInv, Busy, NEW p \in Who, Check(p)
  PROVE  TagInv' /\ (TagsKept \/ (p = "offer" /\ asked' # asked))
<1>0a. events \in Nat /\ Who = {"sync", "offer"} /\ Checking \cap {"idle", "look"} = {}
  BY DEF ESType, Who, Checking
<1>0b. events' = events \/ events' = events + 1
  BY DEF Check, ReadHead, copyKey, CheckShort, CheckFull, HeadAgain, Fails, Event, countVars
<1>0. events \in Nat /\ (events' = events \/ events' = events + 1) /\ Who = {"sync", "offer"} /\ Checking \cap {"idle", "look"} = {}
  BY <1>0a, <1>0b
<1>1. events' \in Nat /\ events <= events'
  BY <1>0
<1>2. ASSUME Others(p), job'[p].tag \in {job[p].tag, Nil}, at[p] \in Checking,
             AskedTagsKept
      PROVE  TagInv' /\ TagsKept
  <2>1. TagsKept
    BY <1>0, <1>2 DEF TagsKept, Others
  <2>2. job'["offer"].tag = Nil \/ (job'["offer"].tag = job["offer"].tag /\ (at'["offer"] # "idle" => at["offer"] # "idle"))
    BY <1>0, <1>2 DEF Others
  <2>3. at'["sync"] \in Checking => job'["sync"].tag \in {Nil, 0}
    BY <1>0, <1>2 DEF Others, TagInv
  <2> QED
    BY <1>1, <2>1, <2>2, <2>3, TagFrame
<1>3. CASE ReadHead(p)
  <2>1. at[p] = "head" /\ Others(p) /\ job'[p].tag = job[p].tag /\ asked' = asked
    BY <1>3, ReadHeadJob DEF ReadHead
  <2> QED
    BY <1>2, <2>1 DEF Checking, AskedTagsKept
<1>4. CASE copyKey(p) \/ CheckShort(p) \/ CheckFull(p) \/ HeadAgain(p) \/ Fails(p)
  <2>1. /\ at[p] \in Checking
        /\ \/ /\ \E a, w : /\ Go(p, a, w)
                          /\ \/ \E cp : w = [job[p] EXCEPT !.cp = cp]
                             \/ w = [job[p] EXCEPT !.vhead = log]
                             \/ w = [job[p] EXCEPT !.again = TRUE]
              /\ asked' = asked
           \/ \E v, held, full : Ends(p, job[p], v, held, full)
           \/ Go(p, "idle", Idle) /\ asked' = IF p = "sync" THEN Tail(asked) ELSE asked
    BY <1>4, CheckSteps
  <2>2. asked' = asked => AskedTagsKept
    BY DEF AskedTagsKept
  <2>3. CASE \E a, w : /\ Go(p, a, w)
                       /\ \/ \E cp : w = [job[p] EXCEPT !.cp = cp]
                          \/ w = [job[p] EXCEPT !.vhead = log]
                          \/ w = [job[p] EXCEPT !.again = TRUE]
                       /\ asked' = asked
    <3>1. PICK a, w : /\ Go(p, a, w)
                      /\ \/ \E cp : w = [job[p] EXCEPT !.cp = cp]
                         \/ w = [job[p] EXCEPT !.vhead = log]
                         \/ w = [job[p] EXCEPT !.again = TRUE]
                      /\ asked' = asked
      BY <2>3
    <3>2. Others(p) /\ job'[p] = w /\ w.tag = job[p].tag
      BY <3>1, MoveJob
    <3> QED
      BY <1>2, <2>1, <2>2, <3>1, <3>2
  <2>4. CASE Go(p, "idle", Idle) /\ asked' = IF p = "sync" THEN Tail(asked) ELSE asked
    <3>1. job'[p] = Idle /\ Others(p)
      BY <2>4, Going DEF Others
    <3>2. AskedTagsKept
      BY <1>0, <2>1, <2>2, <2>4, TailTags DEF Busy
    <3> QED
      BY <1>2, <2>1, <3>1, <3>2, IdleFields
  <2>5. CASE \E v, held, full : Ends(p, job[p], v, held, full)
    <3> DEFINE w == job[p]
    <3>1. w \in Jobs(events) /\ job[p].tag = w.tag /\ job[p].added = w.added
      BY DEF ESType
    <3>1a. \E v, held, full : Ends(p, w, v, held, full)
      BY <2>5
    <3> HIDE DEF w
    <3>2. PICK v, held, full : Ends(p, w, v, held, full)
      BY <3>1a
    <3>3. CASE p = "sync"
      <4>1. Others(p) /\ job'[p].tag = w.tag /\ asked' = asked
        BY <3>1, <3>2, <3>3, EndsJob
      <4> QED
        BY <1>2, <2>1, <2>2, <3>1, <4>1
    <3>4. CASE p # "sync"
      <4>1. Others(p) /\ p = "offer" /\ at'["offer"] = "idle" /\ job'["offer"] = Idle
        BY <3>1, <3>2, <3>4, EndsJob
      <4>2. asked' = asked \/ asked' = Append(asked, [kind |-> "keep", added |-> w.added, tag |-> w.tag])
        BY <3>1, <3>2, <3>4, EndsJob
      <4>3. CASE asked' = asked
        BY <1>2, <2>1, <2>2, <4>1, <4>3, IdleFields
      <4>4. CASE asked' = Append(asked, [kind |-> "keep", added |-> w.added, tag |-> w.tag]) /\ asked' # asked
        <5> DEFINE a == [kind |-> "keep", added |-> w.added, tag |-> w.tag]
        <5>1. a \in Asks(events) /\ a.tag = w.tag
          BY <3>1 DEF Asks, Jobs
        <5>2. asked' = Append(asked, a)
          BY <4>4
        <5> HIDE DEF a
        <5>3. \A i \in DOMAIN asked' : asked'[i] = a \/ \E j \in DOMAIN asked : asked'[i] = asked[j]
          BY <5>1, <5>2, AppendTags
        <5>4. w.tag \in OfferTags /\ 1..events \subseteq 1..events'
          BY <1>1, <1>0, <3>1, <4>1 DEF TagInv
        <5>5. \A i \in DOMAIN asked' : asked'[i].tag \in {Nil} \cup 1..events'
          BY <5>1, <5>3, <5>4 DEF TagInv, OfferTags
        <5>6. job'["sync"] = job["sync"] /\ at'["sync"] = at["sync"]
          BY <1>0, <4>1 DEF Others
        <5> QED
          BY <4>1, <4>4, <5>4, <5>5, <5>6, IdleFields DEF TagInv, OfferTags
      <4> QED
        BY <4>2, <4>3, <4>4
    <3> QED
      BY <3>3, <3>4
  <2> QED
    BY <2>1, <2>3, <2>4, <2>5
<1> QED
  BY <1>3, <1>4 DEF Check

LEMMA InitTags == ESInit => TagInv
BY IdleFields, EmptyCopy DEF ESInit, TagInv, OfferTags, Who, Checking

LEMMA StepTags == ESType /\ Busy /\ TagInv /\ [ESNext]_esVars => TagInv'
<1> SUFFICES ASSUME ESType, Busy, TagInv, [ESNext]_esVars PROVE TagInv'
  OBVIOUS
<1>1. CASE World \/ SyncLoads \/ ReadBatch \/ SaveLooks \/ SaveWrites \/ record
  BY <1>1, WorldTags
<1>2. CASE mergeOffered
  BY <1>2, mergeOfferedTags
<1>3. CASE \E p \in Who : Check(p)
  BY <1>3, CheckTags
<1>4. CASE UNCHANGED esVars
  BY <1>4 DEF esVars, countVars, TagInv, OfferTags, Used
<1> QED
  BY <1>1, <1>2, <1>3, <1>4 DEF ESNext

-----------------------------------------------------------------------------
(* No false alarm *)

LEMMA FitsMore ==
  ASSUME NEW e \in Nat, NEW c \in Copies(e), NEW m \in Nat, NEW n \in Nat, m <= n
  PROVE  /\ Inside(c, m) => Inside(c, n)
         /\ \A w : w.links = c /\ w.seen \in Hist /\ Fitting(w, m) => Fitting(w, n)
<1>1. DOMAIN c \subseteq 1..Reach(e) /\ Reach(e) \in Nat
  BY CopyDef, ReachType
<1>2. \A k \in DOMAIN c : k \in Int
  BY <1>1
<1>3. Inside(c, m) => Inside(c, n)
  BY <1>2 DEF Inside
<1>4. ASSUME NEW w, w.links = c, w.seen \in Hist, Fitting(w, m) PROVE Fitting(w, n)
  <2>1. Len(w.seen) \in Nat
    BY <1>4 DEF Hist
  <2> QED
    BY <1>3, <1>4, <2>1 DEF Fitting
<1> QED
  BY <1>3, <1>4

LEMMA InsideMerge ==
  ASSUME NEW c, NEW x, NEW n, Inside(c, n), Inside(x, n)
  PROVE  Inside(Merge(c, x), n)
BY DEF Inside, Merge

\* What fits the head it is checked against does not end "tampered".
LEMMA FitsNotTampered ==
  ASSUME NEW e \in Nat, NEW w \in Jobs(e), Fitting(w, Len(w.vhead)), AllFirst(w.vhead), PointFits(w.cp), NEW held
  PROVE  evaluate(w, held) # "tampered"
<1>1. /\ w.links \in Copies(e) /\ w.vhead \in Hist /\ w.seen \in Hist /\ w.cp \in Hist \cup {Nil}
      /\ Len(w.vhead) \in Nat /\ Len(w.seen) \in Nat
  BY DEF Jobs, Hist
<1> DEFINE links == w.links
           h == w.vhead
           cp == IF hybridOk(w) THEN w.cp ELSE Nil
<1>2. Inside(links, Len(h)) /\ Len(w.seen) <= Len(h) /\ AllFirst(w.seen) /\ AllFirst(h)
  BY DEF Fitting
<1>3. cp = Nil \/ (cp \in Hist /\ Len(cp) <= Len(h) /\ AllFirst(cp))
  BY <1>1 DEF hybridOk, PointFits
<1>4. cp # Nil => Extends(h, cp)
  <2> SUFFICES ASSUME cp # Nil PROVE Extends(h, cp)
    OBVIOUS
  <2> HIDE DEF cp
  <2>1. Len(cp) \in Nat /\ \A i \in 1..Len(cp) : i \in 1..Len(h) /\ h[i] = cp[i]
    BY <1>1, <1>2, <1>3 DEF AllFirst, Hist
  <2> QED
    BY <1>1, <1>3, <2>1, ExtendsDef
<1>5. Extends(h, w.seen)
  <2>1. \A i \in 1..Len(w.seen) : i \in 1..Len(h) /\ h[i] = w.seen[i]
    BY <1>1, <1>2 DEF AllFirst
  <2> QED
    BY <1>1, <1>2, <2>1, ExtendsDef
<1> HIDE DEF links
<1>6. links \in Copies(e)
  BY <1>1 DEF links
<1>7. \A n \in DOMAIN links : n \in 1..Len(h) /\ links[n] = h[n]
  <2>1. \A n \in DOMAIN links : n \in 1..LastSeq(links)
    BY <1>6, LastSeqFacts
  <2>2. LastSeq(links) \in Nat
    BY <1>6, LastSeqFacts, ReachType
  <2> QED
    BY <1>1, <1>2, <2>1, <2>2 DEF Inside, AllFirst
<1>8. LastSeq(links) <= Len(h)
  <2>1. IF DOMAIN links = {} THEN LastSeq(links) = 0 ELSE LastSeq(links) \in DOMAIN links
    BY <1>6, LastSeqFacts
  <2> QED
    BY <1>1, <1>7, <2>1
<1>9. LastSeq(links) \in Nat
  BY <1>6, LastSeqFacts, ReachType
<1> HIDE DEF h, cp
<1>10. Assess(links, h, held, w.seen, cp) \in {"verified", "gap"}
  <2>1. ~(LastSeq(links) > Len(h))
    BY <1>1, <1>8, <1>9 DEF h
  <2> QED
    BY <1>4, <1>5, <1>7, <2>1 DEF Assess
<1> QED
  BY <1>10 DEF evaluate, links, h, cp

\* What a step must show of the job it moves.
JobFits(p) ==
  LET w == job[p] IN
  /\ Len(w.head) <= Len(log) /\ Len(w.vhead) <= Len(log) /\ PointFits(w.cp)
  /\ p = "sync" => Fitting(w, Len(log)) /\ w.verdict # "tampered"
  /\ p = "sync" \/ w.tag = Nil => CheckFits(p)
JobsFit == HeadsFit /\ (\A p \in Who : PointFits(job[p].cp)) /\ SyncFits /\ OfferFits

LEMMA JobsFitEach == JobsFit <=> \A p \in Who : JobFits(p)
<1>1. Who = {"sync", "offer"} /\ "sync" # "offer"
  BY DEF Who
<1>2. ASSUME JobsFit PROVE \A p \in Who : JobFits(p)
  BY <1>1, <1>2 DEF JobsFit, JobFits, HeadsFit, SyncFits, OfferFits
<1>3. ASSUME \A p \in Who : JobFits(p) PROVE JobsFit
  BY <1>1, <1>3 DEF JobsFit, JobFits, HeadsFit, SyncFits, OfferFits
<1> QED
  BY <1>2, <1>3

LEMMA OneJobFits ==
  ASSUME JobsFit, NEW p \in Who, Others(p), log' = log, JobFits(p)'
  PROVE  JobsFit'
<1>1. \A q \in Who : JobFits(q)
  BY JobsFitEach
<1>2. ASSUME NEW q \in Who, q # p PROVE JobFits(q)'
  <2>1. job'[q] = job[q] /\ at'[q] = at[q]
    BY <1>2 DEF Others
  <2> QED
    BY <1>1, <2>1 DEF JobFits, CheckFits
<1>3. \A q \in Who : JobFits(q)'
  BY <1>2
<1>4. Who = {"sync", "offer"} /\ "sync" # "offer"
  BY DEF Who
<1> QED
  BY <1>3, <1>4 DEF JobsFit, JobFits, HeadsFit, SyncFits, OfferFits

LEMMA RestGrows ==
  Grows <=> StoreFits /\ AskedFits /\ JobsFit /\ (\A s \in signed : PointFits(s.cp)) /\ ResultFits /\ ~alarm
BY DEF Grows, JobsFit, PointsFit

LEMMA StoreKept ==
  ASSUME ESType, StoreFits, log' = log, stored' = stored, inMemory' \in {inMemory, Nil, Loaded}
  PROVE  StoreFits' /\ Fitting(Loaded, Len(log))
BY DEF StoreFits, Loaded

LEMMA TailFits == ASSUME ESType, AskedFits, log' = log, asked # <<>>, asked' = Tail(asked) PROVE AskedFits'
<1>1. asked \in Seq(Asks(events))
  BY DEF ESType
<1>2. \A i \in DOMAIN Tail(asked) : i + 1 \in DOMAIN asked /\ Tail(asked)[i] = asked[i + 1]
  BY <1>1, TailFacts
<1> QED
  BY <1>2 DEF AskedFits

LEMMA AppendFits ==
  ASSUME ESType, AskedFits, log' = log, NEW a \in Asks(events), Inside(a.added, Len(log)), asked' = Append(asked, a)
  PROVE  AskedFits'
BY AppendTags DEF AskedFits

\* What was verified stays someone else's when nothing takes its records up.
LEMMA ResultKept ==
  ASSUME ESType, ResultFits, TagsKept, events' \in Nat, events <= events', verifiedNow' \in {verifiedNow, Nil}
  PROVE  ResultFits'
<1>1. events \in Nat /\ Nil \notin Nat /\ 1..events \subseteq 1..events'
  BY NilAssumption DEF ESType
<1>2. SUFFICES ASSUME verifiedNow' # Nil, verifiedNow'.verdict = "tampered"
               PROVE  verifiedNow'.tag \in 1..events' /\ ~Used(verifiedNow.tag)'
  BY DEF ResultFits
<1>3. verifiedNow' = verifiedNow /\ verifiedNow.tag \in 1..events /\ ~Used(verifiedNow.tag)
  BY <1>2 DEF ResultFits
<1>4. PICK t : t = verifiedNow.tag
  OBVIOUS
<1>5. t \notin {Nil, 0}
  BY <1>1, <1>3, <1>4
<1>6. ~Used(t)'
  BY <1>3, <1>4, <1>5, UsedLess
<1> QED
  BY <1>1, <1>3, <1>4, <1>6 DEF Used

LEMMA KeyLinksGrows == ASSUME ESType, Grows, era = First, KeyLinks PROVE Grows'
<1>1. /\ UNCHANGED <<stored, inMemory, asked, at, job, verifiedNow, signed, alarm, events>>
      /\ log' = Append(log, era) /\ log \in Hist /\ era \in {First, Second}
  BY DEF KeyLinks, storeVars, memoVars, pastVars, ESType
<1>2. Len(log) \in Nat /\ Len(log') \in Nat /\ Len(log) <= Len(log')
  <2>1. Append(log, era) \in Seq({First, Second}) /\ Len(Append(log, era)) = Len(log) + 1
    BY <1>1 DEF Hist
  <2> QED
    BY <1>1, <2>1 DEF Hist
<1>e. events \in Nat
  BY DEF ESType
<1> DEFINE m == Len(log)
           n == Len(log')
<1>3. m \in Nat /\ n \in Nat /\ m <= n
  BY <1>2
<1> HIDE DEF m, n
<1>4. ASSUME NEW c \in Copies(events), Inside(c, m) PROVE Inside(c, n)
  BY <1>3, <1>4, <1>e, FitsMore
<1>5. ASSUME NEW w, w.links \in Copies(events), w.seen \in Hist, Fitting(w, m) PROVE Fitting(w, n)
  BY <1>3, <1>5, <1>e, FitsMore
<1>6. StoreFits'
  <2>1. stored \in Texts(events) /\ (inMemory # Nil => inMemory \in Texts(events))
    BY DEF ESType
  <2>2. ASSUME NEW t \in Texts(events), Fitting(t, m) PROVE Fitting(t, n)
    <3>1. t.links \in Copies(events) /\ t.seen \in Hist
      BY DEF Texts, Hist
    <3> QED
      BY <1>5, <2>2, <3>1
  <2>3. Fitting(stored, m) /\ (inMemory # Nil => Fitting(inMemory, m))
    BY DEF Grows, StoreFits, m
  <2>4. Fitting(stored, n) /\ (inMemory # Nil => Fitting(inMemory, n))
    BY <2>1, <2>2, <2>3
  <2> QED
    BY <1>1, <2>4 DEF StoreFits, n
<1>7. AskedFits'
  <2>0. asked \in Seq(Asks(events))
    BY DEF ESType
  <2>1. ASSUME NEW i \in DOMAIN asked PROVE asked[i].added \in Copies(events) /\ Inside(asked[i].added, m)
    <3>1. asked[i] \in Asks(events)
      BY <2>0
    <3> QED
      BY <3>1 DEF Asks, Grows, AskedFits, m
  <2>2. \A i \in DOMAIN asked : Inside(asked[i].added, n)
    BY <1>4, <2>1
  <2> QED
    BY <1>1, <2>2 DEF AskedFits, n
<1>8. HeadsFit'
  <2>1. \A p \in Who : Len(job[p].head) \in Nat /\ Len(job[p].vhead) \in Nat
    <3> SUFFICES ASSUME NEW p \in Who PROVE Len(job[p].head) \in Nat /\ Len(job[p].vhead) \in Nat
      OBVIOUS
    <3>1. job[p] \in Jobs(events)
      BY DEF ESType
    <3> QED
      BY <3>1 DEF Jobs, Hist
  <2>2. \A p \in Who : Len(job[p].head) <= m /\ Len(job[p].vhead) <= m
    BY DEF Grows, HeadsFit, m
  <2>3. \A p \in Who : Len(job[p].head) <= n /\ Len(job[p].vhead) <= n
    BY <1>3, <2>1, <2>2
  <2> QED
    BY <1>1, <2>3 DEF HeadsFit, n
<1>9. ASSUME NEW p \in Who, CheckFits(p) PROVE CheckFits(p)'
  <2>1. job[p] \in Jobs(events)
    BY DEF ESType
  <2>2. job[p].links \in Copies(events) /\ job[p].seen \in Hist
    BY <2>1 DEF Jobs
  <2>3. at[p] = "head" => Fitting(job[p], n)
    BY <1>5, <1>9, <2>2 DEF CheckFits, m
  <2> QED
    BY <1>1, <1>9, <2>3 DEF CheckFits, n
<1>10. SyncFits' /\ OfferFits'
  <2>1. "sync" \in Who /\ "offer" \in Who
    BY DEF Who
  <2>2. job["sync"] \in Jobs(events)
    BY <2>1 DEF ESType
  <2>3. job["sync"].links \in Copies(events) /\ job["sync"].seen \in Hist
    BY <2>2 DEF Jobs
  <2>4. Fitting(job["sync"], n)
    BY <1>5, <2>3 DEF Grows, SyncFits, m
  <2> QED
    BY <1>1, <1>9, <2>1, <2>4 DEF Grows, SyncFits, OfferFits, n
<1>11. PointsFit' /\ ResultFits' /\ ~alarm'
  BY <1>1 DEF Grows, PointsFit, ResultFits, Used
<1> QED
  BY <1>6, <1>7, <1>8, <1>10, <1>11 DEF Grows

LEMMA IdleFits ==
  ASSUME ESType, NEW n \in Nat
  PROVE  Fitting(Idle, n)
BY IdleFields, EmptyCopy, AllFirstEmpty DEF Fitting, Inside

LEMMA IdleJobFits ==
  ASSUME ESType, NEW p \in Who, job'[p] = Idle, at'[p] = "idle", Len(log') \in Nat
  PROVE  JobFits(p)'
BY IdleFits, IdleFields DEF JobFits, CheckFits, Checking, PointFits

LEMMA WorldGrows ==
  ASSUME ESType, Busy, TagInv, Grows, KeyRestarts \/ Restarts \/ sync \/ SyncButton
  PROVE  Grows'
<1>0. /\ log' = log /\ stored' = stored /\ inMemory' \in {inMemory, Nil} /\ verifiedNow' \in {verifiedNow, Nil}
      /\ alarm' = alarm /\ signed' \in {signed, {}} /\ events' \in Nat /\ events <= events' /\ Len(log) \in Nat
  BY DEF KeyRestarts, Restarts, sync, SyncButton, storeVars, memoVars, countVars, pastVars, keyVars, Event, ESType, Hist
<1>1. StoreFits /\ AskedFits /\ JobsFit /\ (\A s \in signed : PointFits(s.cp)) /\ ResultFits /\ ~alarm
  BY RestGrows
<1>2. StoreFits'
  BY <1>0, <1>1, StoreKept
<1>3. ResultFits'
  BY <1>0, <1>1, WorldTags, ResultKept DEF World
<1>4. AskedFits' /\ JobsFit'
  <2>1. CASE KeyRestarts
    <3>1. UNCHANGED <<asked, at, job>>
      BY <2>1 DEF KeyRestarts
    <3> QED
      BY <1>0, <1>1, <3>1 DEF AskedFits, JobsFit, HeadsFit, SyncFits, OfferFits, CheckFits
  <2>2. CASE Restarts
    <3>1. asked' = <<>> /\ \A p \in Who : at'[p] = "idle" /\ job'[p] = Idle
      BY <2>2 DEF Restarts
    <3>2. \A p \in Who : JobFits(p)'
      BY <1>0, <3>1, IdleJobFits
    <3>3. Who = {"sync", "offer"} /\ "sync" # "offer"
      BY DEF Who
    <3> QED
      BY <3>1, <3>2, <3>3, EmptyCopy DEF AskedFits, JobsFit, JobFits, HeadsFit, SyncFits, OfferFits
  <2>3. CASE sync \/ SyncButton
    <3> DEFINE a == [kind |-> "sync", added |-> <<>>, tag |-> Nil]
    <3>1. a \in Asks(events) /\ a.added = <<>>
      BY EmptyCopy DEF Asks, Tags, ESType
    <3>2. asked' = Append(asked, a)
      BY <2>3 DEF sync, SyncButton, Ask
    <3> HIDE DEF a
    <3>3. AskedFits'
      BY <1>0, <1>1, <3>1, <3>2, EmptyCopy, AppendFits DEF Inside
    <3>4. CASE sync
      BY <1>0, <1>1, <3>3, <3>4 DEF sync, JobsFit, HeadsFit, SyncFits, OfferFits, CheckFits
    <3>5. CASE SyncButton
      <4> DEFINE r == job'["sync"]
                 w == job["sync"]
      <4>1. /\ r.seen = w.seen /\ r.verdict = w.verdict /\ r.links = w.links /\ r.head = w.head
            /\ r.vhead = w.vhead /\ r.cp = w.cp /\ job'["offer"] = job["offer"] /\ at' = at
        BY <3>5, SyncButtonJob DEF SameEnd
      <4>2. JobFits("sync") /\ JobFits("offer") /\ Who = {"sync", "offer"} /\ "sync" # "offer"
        BY <1>1, JobsFitEach DEF Who
      <4>3. JobFits("sync")'
        BY <1>0, <4>1, <4>2 DEF JobFits, CheckFits, Fitting
      <4>4. Others("sync") /\ "sync" \in Who
        BY <4>1, <4>2 DEF Others
      <4> QED
        BY <1>0, <1>1, <3>3, <4>3, <4>4, OneJobFits
    <3> QED
      BY <2>3, <3>4, <3>5
  <2> QED
    BY <2>1, <2>2, <2>3
<1> QED
  BY <1>0, <1>1, <1>2, <1>3, <1>4 DEF Grows, JobsFit, PointsFit

LEMMA SyncLoadsGrows == ASSUME ESType, Busy, TagInv, Grows, SyncLoads PROVE Grows'
<1> DEFINE r == job'["sync"]
           j == Head(asked)
<1>1. /\ Others("sync") /\ asked # <<>> /\ Begins(r) /\ inMemory' = Loaded
      /\ \/ /\ at'["sync"] = "head" /\ asked' = asked
            /\ r.links = Loaded.links /\ r.seen = Loaded.seen
         \/ /\ at'["sync"] = "look" /\ asked' = asked
            /\ r.links = Merge(Loaded.links, j.added) /\ r.seen = Loaded.seen
         \/ at'["sync"] = "idle" /\ r = Idle /\ asked' = Tail(asked)
  BY SyncLoadsJob
<1>2. /\ log' = log /\ stored' = stored /\ verifiedNow' = verifiedNow /\ alarm' = alarm /\ signed' = signed
      /\ events' = events /\ events \in Nat /\ Len(log) \in Nat /\ "sync" \in Who
  BY DEF SyncLoads, loadMirror, memoVars, countVars, pastVars, keyVars, ESType, Hist, Who
<1>3. StoreFits /\ AskedFits /\ JobsFit /\ (\A s \in signed : PointFits(s.cp)) /\ ResultFits /\ ~alarm
  BY RestGrows
<1>4. StoreFits' /\ Fitting(Loaded, Len(log))
  BY <1>1, <1>2, <1>3, StoreKept
<1>5. ResultFits'
  BY <1>2, <1>3, WorldTags, ResultKept
<1>6. AskedFits'
  BY <1>1, <1>2, <1>3, TailFits DEF AskedFits
<1>7. JobFits("sync")'
  <2>1. CASE at'["sync"] = "idle" /\ r = Idle
    BY <1>2, <2>1, IdleJobFits
  <2>2. CASE at'["sync"] = "head" /\ r.links = Loaded.links /\ r.seen = Loaded.seen
    <3>1. Fitting(r, Len(log))
      BY <1>4, <2>2 DEF Fitting
    <3> QED
      BY <1>1, <1>2, <2>2, <3>1 DEF JobFits, CheckFits, Begins, PointFits
  <2>3. CASE at'["sync"] = "look" /\ r.links = Merge(Loaded.links, j.added) /\ r.seen = Loaded.seen
    <3>1. 1 \in DOMAIN asked /\ j = asked[1]
      BY <1>1 DEF ESType
    <3>2. Inside(j.added, Len(log))
      BY <1>3, <3>1 DEF AskedFits
    <3>3. Fitting(r, Len(log))
      BY <1>4, <2>3, <3>2, InsideMerge DEF Fitting
    <3> QED
      BY <1>1, <1>2, <2>3, <3>3 DEF JobFits, CheckFits, Begins, PointFits, Checking
  <2> QED
    BY <1>1, <2>1, <2>2, <2>3
<1>8. JobsFit'
  BY <1>1, <1>2, <1>3, <1>7, OneJobFits
<1> QED
  BY <1>2, <1>3, <1>4, <1>5, <1>6, <1>8 DEF Grows, JobsFit, PointsFit

LEMMA mergeOfferedGrows == ASSUME ESType, TagInv, Grows, mergeOffered PROVE Grows'
<1> DEFINE r == job'["offer"]
<1>1. PICK x \in Offers :
        /\ Begins(r) /\ Others("offer") /\ at'["offer"] = "head"
        /\ r.links = Merge(Loaded.links, x) /\ r.seen = Loaded.seen
        /\ r.tag = (IF x = <<>> THEN Nil ELSE events + 1) /\ inMemory' = Loaded
  BY mergeOfferedJob
<1>2. /\ log' = log /\ stored' = stored /\ verifiedNow' = verifiedNow /\ alarm' = alarm /\ signed' = signed
      /\ asked' = asked /\ events' = events + 1 /\ events \in Nat /\ Len(log) \in Nat /\ "offer" \in Who /\ Nil \notin Nat
  BY NilAssumption DEF mergeOffered, Event, loadMirror, memoVars, keyVars, ESType, Hist, Who
<1>2a. events' \in Nat /\ events <= events' /\ events + 1 # Nil
  BY <1>2
<1>3. StoreFits /\ AskedFits /\ JobsFit /\ (\A s \in signed : PointFits(s.cp)) /\ ResultFits /\ ~alarm
  BY RestGrows
<1>4. StoreFits' /\ Fitting(Loaded, Len(log))
  BY <1>1, <1>2, <1>3, StoreKept
<1>5. ResultFits'
  BY <1>2, <1>2a, <1>3, mergeOfferedTags, ResultKept
<1>6. AskedFits'
  BY <1>2, <1>3 DEF AskedFits
<1>7. JobFits("offer")'
  <2>1. r.tag = Nil => Fitting(r, Len(log))
    <3> SUFFICES ASSUME r.tag = Nil PROVE Fitting(r, Len(log))
      OBVIOUS
    <3>1. x = <<>>
      BY <1>1, <1>2a
    <3>2. Inside(x, Len(log))
      BY <3>1, EmptyCopy DEF Inside
    <3> QED
      BY <1>1, <1>4, <3>2, InsideMerge DEF Fitting
  <2> QED
    BY <1>1, <1>2, <2>1 DEF JobFits, CheckFits, Begins, PointFits
<1>8. JobsFit'
  BY <1>1, <1>2, <1>3, <1>7, OneJobFits
<1> QED
  BY <1>2, <1>3, <1>4, <1>5, <1>6, <1>8 DEF Grows, JobsFit, PointsFit

\* A step of a check that goes on.
LEMMA MoveGrows ==
  ASSUME ESType, Grows, NEW p \in Who, Others(p), JobFits(p)', TagsKept,
         UNCHANGED <<log, stored, inMemory, alarm>>, asked' = asked \/ (asked # <<>> /\ asked' = Tail(asked)),
         \A s \in signed' : PointFits(s.cp), verifiedNow' \in {verifiedNow, Nil}, events' \in Nat, events <= events'
  PROVE  Grows'
<1>3. StoreFits /\ AskedFits /\ JobsFit /\ (\A s \in signed : PointFits(s.cp)) /\ ResultFits /\ ~alarm
  BY RestGrows
<1>4. StoreFits' /\ ResultFits'
  BY <1>3, StoreKept, ResultKept
<1>6. AskedFits'
  BY <1>3, TailFits DEF AskedFits
<1>8. JobsFit'
  BY <1>3, OneJobFits
<1> QED
  BY <1>3, <1>4, <1>6, <1>8 DEF Grows, JobsFit, PointsFit

LEMMA ReadBatchGrows ==
  ASSUME ESType, Busy, TagInv, Grows, AllFirst(log), ReadBatch
  PROVE  Grows'
<1> DEFINE r == job'["sync"]
           w == job["sync"]
<1>1. /\ at["sync"] = "read" /\ at'["sync"] \in {"read", "key"} /\ Others("sync")
      /\ r.seen = w.seen /\ r.verdict = w.verdict
      /\ r.head = w.head /\ r.vhead = w.vhead /\ r.cp = w.cp
      /\ \A n \in DOMAIN w.links : r.links[n] = w.links[n]
      /\ \A n \in DOMAIN r.links \ DOMAIN w.links :
           n \in 1..Len(log) /\ n <= Len(w.head) /\ r.links[n] = log[n]
  BY ReadBatchJob DEF SameEnd
<1>2. /\ UNCHANGED <<log, stored, inMemory, alarm, asked, signed, verifiedNow, events>>
      /\ events \in Nat /\ "sync" \in Who /\ w \in Jobs(events) /\ Len(log) \in Nat
  BY DEF ReadBatch, storeVars, memoVars, countVars, pastVars, keyVars, ESType, Who, Hist
<1>3. JobFits("sync") /\ \A s \in signed : PointFits(s.cp)
  BY <1>2, RestGrows, JobsFitEach
<1>4. Len(w.head) \in Nat /\ Len(w.vhead) \in Nat
  BY <1>2 DEF Jobs, Hist
<1>5. Fitting(w, Len(log)) /\ Fitting(w, Len(w.vhead)) /\ Len(w.head) <= Len(w.vhead)
  BY <1>1, <1>3 DEF JobFits, CheckFits, Checking
<1>6. \A n \in DOMAIN r.links \ DOMAIN w.links : n <= Len(log) /\ n <= Len(w.vhead) /\ r.links[n] = First
  BY <1>1, <1>2, <1>4, <1>5 DEF AllFirst
<1> HIDE DEF r, w
<1>7. Fitting(r, Len(log)) /\ Fitting(r, Len(w.vhead))
  BY <1>1, <1>5, <1>6 DEF Fitting, Inside
<1>8. JobFits("sync")'
  BY <1>1, <1>2, <1>3, <1>5, <1>7 DEF JobFits, CheckFits, Checking, r, w
<1>9. TagsKept
  BY WorldTags
<1> QED
  BY <1>1, <1>2, <1>3, <1>8, <1>9, MoveGrows

LEMMA ReadHeadGrows ==
  ASSUME ESType, Busy, TagInv, Grows, NEW p \in Who, ReadHead(p)
  PROVE  Grows'
<1> DEFINE r == job'[p]
           w == job[p]
<1>1. /\ at[p] = "head" /\ Others(p) /\ r.seen = w.seen /\ r.verdict = w.verdict
      /\ r.head = log /\ r.vhead = log /\ r.cp = w.cp /\ r.tag = w.tag
      /\ DOMAIN r.links \subseteq DOMAIN w.links /\ \A n \in DOMAIN r.links : r.links[n] = w.links[n]
  BY ReadHeadJob DEF SameEnd
<1>2. /\ UNCHANGED <<log, stored, inMemory, alarm, asked, signed, verifiedNow, events>>
      /\ events \in Nat /\ Len(log) \in Nat
  BY DEF ReadHead, storeVars, memoVars, countVars, pastVars, keyVars, ESType, Hist
<1>3. JobFits(p) /\ \A s \in signed : PointFits(s.cp)
  BY RestGrows, JobsFitEach
<1>4. JobFits(p)'
  <2>1. p = "sync" \/ w.tag = Nil => Fitting(w, Len(log))
    BY <1>1, <1>3 DEF JobFits, CheckFits
  <2> HIDE DEF r, w
  <2>2. Fitting(w, Len(log)) => Fitting(r, Len(log))
    BY <1>1 DEF Fitting, Inside
  <2>3. JobFits(p)' <=> /\ Len(r.head) <= Len(log') /\ Len(r.vhead) <= Len(log') /\ PointFits(r.cp)
                        /\ p = "sync" => Fitting(r, Len(log')) /\ r.verdict # "tampered"
                        /\ p = "sync" \/ r.tag = Nil => CheckFits(p)'
    BY DEF JobFits, r
  <2>4. CheckFits(p)' <=> /\ at'[p] = "head" => Fitting(r, Len(log'))
                          /\ at'[p] \in Checking \ {"head"} => Fitting(r, Len(r.vhead)) /\ Len(r.head) <= Len(r.vhead)
    BY DEF CheckFits, r
  <2>5. PointFits(w.cp) /\ (p = "sync" => w.verdict # "tampered")
    BY <1>3 DEF JobFits, w
  <2> QED
    BY <1>1, <1>2, <2>1, <2>2, <2>3, <2>4, <2>5
<1>5. Check(p)
  BY DEF Check
<1>6. TagsKept
  BY <1>2, <1>5, CheckTags
<1> QED
  BY <1>1, <1>2, <1>3, <1>4, <1>6, MoveGrows

\* ... and one that only asks for a checkpoint or once more for the head.
LEMMA AskGrows ==
  ASSUME ESType, Busy, TagInv, Grows, NEW p \in Who, Check(p), at[p] \in Checking \ {"head"},
         NEW a \in Checking \ {"head"}, NEW w, Go(p, a, w),
         \/ \E cp : PointFits(cp) /\ w = [job[p] EXCEPT !.cp = cp]
         \/ w = [job[p] EXCEPT !.vhead = log]
         \/ w = [job[p] EXCEPT !.again = TRUE],
         UNCHANGED <<log, stored, inMemory, alarm, asked, events>>,
         \A s \in signed' : PointFits(s.cp), verifiedNow' \in {verifiedNow, Nil}
  PROVE  Grows'
<1> DEFINE u == job[p]
<1>1. /\ at'[p] = a /\ job'[p] = w /\ Others(p) /\ w.seen = u.seen /\ w.verdict = u.verdict
      /\ w.links = u.links /\ w.head = u.head /\ w.tag = u.tag
  BY MoveJob DEF SameEnd
<1>2. /\ events \in Nat /\ Len(log) \in Nat /\ u \in Jobs(events)
  BY DEF ESType, Hist
<1>2a. Len(u.vhead) \in Nat /\ Len(u.head) \in Nat /\ u.links \in Copies(events) /\ u.seen \in Hist
  BY <1>2 DEF Jobs, Hist
<1>3. JobFits(p)
  BY RestGrows, JobsFitEach
<1>4. PointFits(w.cp) /\ w.vhead \in {u.vhead, log}
  <2>1. CASE \E cp : PointFits(cp) /\ w = [job[p] EXCEPT !.cp = cp]
    <3>1. PICK cp : PointFits(cp) /\ w = [job[p] EXCEPT !.cp = cp]
      BY <2>1
    <3>2. w.cp = cp /\ w.vhead = u.vhead
      BY <1>2, <3>1 DEF Jobs
    <3> QED
      BY <3>1, <3>2
  <2>2. CASE w = [job[p] EXCEPT !.vhead = log]
    BY <1>2, <1>3, <2>2 DEF Jobs, JobFits
  <2>3. CASE w = [job[p] EXCEPT !.again = TRUE]
    BY <1>2, <1>3, <2>3 DEF Jobs, JobFits
  <2> QED
    BY <2>1, <2>2, <2>3
<1>5. /\ Len(u.head) <= Len(log) /\ Len(u.vhead) <= Len(log)
      /\ p = "sync" => Fitting(u, Len(log)) /\ u.verdict # "tampered"
      /\ p = "sync" \/ u.tag = Nil => Fitting(u, Len(u.vhead)) /\ Len(u.head) <= Len(u.vhead)
  BY <1>3 DEF JobFits, CheckFits
<1> HIDE DEF u
<1>6. Len(w.vhead) \in Nat /\ Len(u.vhead) <= Len(w.vhead) /\ Len(w.vhead) <= Len(log)
  BY <1>2, <1>2a, <1>4, <1>5
<1>7. ASSUME NEW n, Fitting(u, n) PROVE Fitting(w, n)
  BY <1>1, <1>7 DEF Fitting
<1>8. Fitting(u, Len(u.vhead)) => Fitting(u, Len(w.vhead))
  BY <1>2, <1>2a, <1>6, FitsMore
<1>9. Len(u.head) <= Len(u.vhead) => Len(w.head) <= Len(w.vhead)
  BY <1>1, <1>2a, <1>6
<1>10. JobFits(p)'
  <2>3. JobFits(p)' <=> /\ Len(w.head) <= Len(log') /\ Len(w.vhead) <= Len(log') /\ PointFits(w.cp)
                        /\ p = "sync" => Fitting(w, Len(log')) /\ w.verdict # "tampered"
                        /\ p = "sync" \/ w.tag = Nil => CheckFits(p)'
    BY <1>1 DEF JobFits
  <2>4. CheckFits(p)' <=> /\ at'[p] = "head" => Fitting(w, Len(log'))
                          /\ at'[p] \in Checking \ {"head"} => Fitting(w, Len(w.vhead)) /\ Len(w.head) <= Len(w.vhead)
    BY <1>1 DEF CheckFits
  <2> QED
    BY <1>1, <1>4, <1>5, <1>6, <1>7, <1>8, <1>9, <2>3, <2>4
<1>11. TagsKept
  BY CheckTags
<1> QED
  BY <1>1, <1>2, <1>10, <1>11, MoveGrows

LEMMA CheckpointFits ==
  ASSUME ESType, AllFirst(log), \A s \in signed : PointFits(s.cp), NEW w, NEW cp \in Checkpoints(w)
  PROVE  PointFits(cp)
BY DEF Checkpoints, PointFits

LEMMA FailsGrows ==
  ASSUME ESType, Busy, TagInv, Grows, NEW p \in Who, Fails(p)
  PROVE  Grows'
<1>1. /\ Go(p, "idle", Idle) /\ asked' = (IF p = "sync" THEN Tail(asked) ELSE asked)
      /\ UNCHANGED <<log, stored, inMemory, alarm, signed, verifiedNow>>
      /\ events' = events + 1 /\ events \in Nat /\ at[p] # "idle" /\ Len(log) \in Nat
  BY DEF Fails, Done, Event, storeVars, memoVars, pastVars, keyVars, ESType, Hist
<1>2. job'[p] = Idle /\ at'[p] = "idle" /\ Others(p)
  BY <1>1, Going DEF Others
<1>3. JobFits(p)'
  BY <1>1, <1>2, IdleJobFits
<1>4. asked' = asked \/ (asked # <<>> /\ asked' = Tail(asked))
  BY <1>1 DEF Busy
<1>5. TagsKept
  BY <1>1, CheckTags DEF Check
<1>6. \A s \in signed' : PointFits(s.cp)
  BY <1>1, RestGrows
<1> QED
  BY <1>1, <1>2, <1>3, <1>4, <1>5, <1>6, MoveGrows

LEMMA EndsGrows ==
  ASSUME ESType, Busy, TagInv, OfferLinks, Grows, NEW p \in Who, Check(p), at[p] \in Checking,
         AllFirst(job[p].head), AllFirst(job[p].vhead),
         NEW v, NEW held, NEW full, Ends(p, job[p], v, held, full), Sound(job[p], held, v),
         p = "sync" => v # "tampered",
         \/ verifiedNow' = Nil
         \/ verifiedNow' = verifiedNow /\ (verifiedNow # Nil => verifiedNow.verdict = v)
         \/ remember(job[p], v) /\ (v = "tampered" => job[p].tag # Nil),
         UNCHANGED <<log, stored, inMemory, alarm, events>>, \A s \in signed' : PointFits(s.cp)
  PROVE  Grows'
<1> DEFINE w == job[p]
<1>1. /\ w \in Jobs(events) /\ w.links = job[p].links /\ w.added = job[p].added /\ Ends(p, w, v, held, full)
      /\ Sound(w, held, v) /\ AllFirst(w.head) /\ AllFirst(w.vhead) /\ w.tag = job[p].tag
      /\ events \in Nat /\ Len(log) \in Nat /\ Len(w.vhead) \in Nat
  BY DEF ESType, Jobs, Hist
<1>2. StoreFits /\ AskedFits /\ JobsFit /\ ResultFits /\ ~alarm /\ JobFits(p)
  BY RestGrows, JobsFitEach
<1>3. /\ Len(w.head) <= Len(log) /\ Len(w.vhead) <= Len(log) /\ PointFits(w.cp)
      /\ p = "sync" => Fitting(w, Len(log))
  BY <1>2 DEF JobFits
<1>4. \/ verifiedNow' = Nil
      \/ verifiedNow' = verifiedNow /\ (verifiedNow # Nil => verifiedNow.verdict = v)
      \/ remember(w, v) /\ (v = "tampered" => w.tag # Nil)
  OBVIOUS
<1>5. p # "sync" => p = "offer"
  BY DEF Who
<1>6. p # "sync" => (w.tag # Nil => w.tag \in 1..events /\ ~Used(w.tag))
  BY <1>5 DEF TagInv, OfferTags, Checking
<1> HIDE DEF w
<1>7. Others(p)
  BY <1>1, EndsJob
<1>8. JobFits(p)'
  <2>1. CASE p = "sync"
    <3>1. /\ at'["sync"] = "look" /\ job'["sync"].links = w.links /\ job'["sync"].seen = SeenAfter(w, v)
          /\ job'["sync"].verdict = v /\ job'["sync"].head = w.head /\ job'["sync"].vhead = w.vhead
          /\ job'["sync"].cp = w.cp
      <4> DEFINE r == [w EXCEPT !.seen = SeenAfter(w, v), !.verdict = v]
      <4>1. /\ r.links = w.links /\ r.seen = SeenAfter(w, v) /\ r.verdict = v /\ r.head = w.head
            /\ r.vhead = w.vhead /\ r.cp = w.cp
        BY <1>1 DEF Jobs
      <4>2. Go("sync", "look", r) /\ "sync" \in Who
        BY <1>1, <2>1 DEF Ends
      <4> HIDE DEF r
      <4>3. job'["sync"] = r /\ at'["sync"] = "look"
        BY <4>2, Going
      <4> QED
        BY <4>1, <4>3
    <3>2. SeenAfter(w, v) \in {w.head, w.seen}
      BY DEF SeenAfter
    <3>3. Fitting(job'["sync"], Len(log))
      BY <1>1, <1>3, <2>1, <3>1, <3>2 DEF Fitting
    <3> QED
      BY <1>3, <2>1, <3>1, <3>3 DEF JobFits, CheckFits, Checking
  <2>2. CASE p # "sync"
    <3>1. job'[p] = Idle /\ at'[p] = "idle"
      BY <1>1, <2>2, EndsJob
    <3> QED
      BY <1>1, <3>1, IdleJobFits
  <2> QED
    BY <2>1, <2>2
<1>9. JobsFit'
  BY <1>2, <1>7, <1>8, OneJobFits
<1>10. StoreFits'
  BY <1>2, StoreKept
<1>11. \/ asked' = asked
       \/ /\ v \in Good /\ asked' = Append(asked, [kind |-> "keep", added |-> w.added, tag |-> w.tag])
          /\ \A n \in DOMAIN w.added : n \in 1..Len(w.vhead) /\ w.added[n] = w.vhead[n]
  BY <1>1, EndsSound
<1>12. AskedFits'
  <2>1. CASE asked' = asked
    BY <1>2, <2>1 DEF AskedFits
  <2>2. CASE /\ asked' = Append(asked, [kind |-> "keep", added |-> w.added, tag |-> w.tag])
             /\ \A n \in DOMAIN w.added : n \in 1..Len(w.vhead) /\ w.added[n] = w.vhead[n]
    <3> DEFINE a == [kind |-> "keep", added |-> w.added, tag |-> w.tag]
    <3>1. a \in Asks(events) /\ a.added = w.added
      BY <1>1 DEF Asks, Jobs
    <3>2. asked' = Append(asked, a)
      BY <2>2
    <3> HIDE DEF a
    <3>3. Inside(w.added, Len(log))
      BY <1>1, <1>3, <2>2 DEF Inside, AllFirst
    <3> QED
      BY <1>2, <3>1, <3>2, <3>3, AppendFits
  <2> QED
    BY <1>11, <2>1, <2>2
<1>13. ResultFits'
  <2>1. SUFFICES ASSUME verifiedNow' # Nil, verifiedNow'.verdict = "tampered"
                 PROVE  verifiedNow'.tag \in 1..events' /\ ~Used(verifiedNow.tag)'
    BY DEF ResultFits
  <2>2. v = "tampered"
    BY <1>4, <2>1 DEF remember
  <2>3. asked' = asked /\ p # "sync"
    BY <1>11, <2>2 DEF Good
  <2>4. TagsKept
    BY <2>3, CheckTags
  <2>5. verifiedNow'.tag \in 1..events /\ ~Used(verifiedNow'.tag)
    BY <1>2, <1>4, <1>6, <2>1, <2>2, <2>3 DEF ResultFits, remember
  <2>6. PICK t : t = verifiedNow'.tag
    OBVIOUS
  <2>7. t \in 1..events /\ ~Used(t) /\ t \notin {Nil, 0}
    BY <1>1, <2>5, <2>6, NilAssumption
  <2>8. ~Used(t)'
    BY <2>4, <2>7, UsedLess
  <2> QED
    BY <2>5, <2>6, <2>8 DEF Used
<1> QED
  BY <1>2, <1>9, <1>10, <1>12, <1>13 DEF Grows, JobsFit, PointsFit

LEMMA SaveGrows ==
  ASSUME ESType, Busy, TagInv, Grows, SaveLooks \/ SaveWrites
  PROVE  Grows'
<1> DEFINE w == job["sync"]
<1>1. /\ job' = job /\ Others("sync") /\ "sync" \in Who
      /\ SaveLooks => at["sync"] = "look" /\ at'["sync"] \in {"record", "write"}
      /\ SaveWrites => at["sync"] = "write" /\ at'["sync"] = "record"
  BY SaveJob
<1>2. /\ UNCHANGED <<log, asked, alarm, signed, events>> /\ events \in Nat /\ Nil \notin Nat
  BY NilAssumption DEF SaveLooks, SaveWrites, keyVars, countVars, ESType
<1>3. /\ StoreFits /\ AskedFits /\ JobsFit /\ (\A s \in signed : PointFits(s.cp)) /\ ResultFits /\ ~alarm
      /\ JobFits("sync") /\ Fitting(w, Len(log))
  BY <1>1, RestGrows, JobsFitEach DEF SyncFits, JobsFit
<1>4. Text(w).links = w.links /\ Text(w).seen = w.seen
  BY DEF Text
<1>5. Fitting(Text(w), Len(log))
  BY <1>3, <1>4 DEF Fitting
<1>6. stored' \in {stored, Text(w)} /\ inMemory' \in {inMemory, Nil, Text(w)}
  BY DEF SaveLooks, SaveWrites
<1>7. StoreFits'
  BY <1>2, <1>3, <1>5, <1>6 DEF StoreFits
<1>8. JobsFit'
  BY <1>1, <1>2, <1>3, OneJobFits DEF JobFits, CheckFits, Checking
<1>9. TagsKept
  BY WorldTags
<1>10. ResultFits'
  <2>1. CASE verifiedNow' \in {verifiedNow, Nil}
    BY <1>2, <1>3, <1>9, <2>1, ResultKept
  <2>2. CASE verifiedNow' \notin {verifiedNow, Nil}
    <3>1. verifiedNow # Nil /\ verifiedNow.tag = w.tag /\ verifiedNow' = [verifiedNow EXCEPT !.tag = Nil]
      BY <2>2 DEF SaveLooks, SaveWrites, memoVars
    <3>2. verifiedNow \in Results(events)
      BY <3>1 DEF ESType
    <3>3. verifiedNow'.verdict = verifiedNow.verdict
      BY <3>1, <3>2 DEF Results
    <3>4. Used(verifiedNow.tag)
      BY <3>1 DEF Used
    <3> QED
      BY <1>3, <3>1, <3>3, <3>4 DEF ResultFits
  <2> QED
    BY <2>1, <2>2
<1> QED
  BY <1>2, <1>3, <1>7, <1>8, <1>10 DEF Grows, JobsFit, PointsFit, AskedFits

LEMMA recordGrows ==
  ASSUME ESType, Busy, TagInv, Grows, record
  PROVE  Grows'
<1>1. at["sync"] = "record" /\ at'["sync"] = "idle" /\ job'["sync"] = Idle /\ Others("sync") /\ "sync" \in Who
  BY recordJob DEF Who
<1>2. /\ UNCHANGED <<log, stored, inMemory, signed, verifiedNow, events>> /\ events \in Nat /\ Len(log) \in Nat
      /\ asked' = Tail(asked) /\ asked # <<>>
  BY <1>1 DEF record, keyVars, storeVars, countVars, ESType, Hist, Busy
<1>3. alarm' = alarm
  <2>1. job["sync"].verdict # "tampered" /\ ~alarm /\ alarm \in BOOLEAN
    BY DEF Grows, SyncFits, ESType
  <2> QED
    BY <2>1 DEF record
<1>4. JobFits("sync")'
  BY <1>1, <1>2, IdleJobFits
<1>5. TagsKept
  BY WorldTags
<1>6. \A s \in signed' : PointFits(s.cp)
  BY <1>2, RestGrows
<1> QED
  BY <1>1, <1>2, <1>3, <1>4, <1>5, <1>6, MoveGrows

LEMMA ShortGrows ==
  ASSUME ESType, Busy, TagInv, CheckInv, Grows, NEW p \in Who, Check(p), at[p] \in Checking,
         AllFirst(job[p].head), AllFirst(job[p].vhead), NEW held, Short(p, job[p], held),
         UNCHANGED <<log, stored, inMemory, alarm, events>>
  PROVE  Grows'
<1>1. job[p] \in Jobs(events) /\ ResultMatches /\ OfferLinks /\ \A s \in signed : PointFits(s.cp)
  BY RestGrows DEF ESType, CheckInv
<1> DEFINE w == job[p]
<1>2. w \in Jobs(events) /\ Short(p, w, held)
  BY <1>1
<1>3. \/ /\ Skips(w) /\ Ends(p, w, verifiedNow.verdict, {}, FALSE) /\ verifiedNow' = verifiedNow /\ signed' = signed
         /\ Sound(w, {}, verifiedNow.verdict)
      \/ /\ Ends(p, w, "verified", held, FALSE)
         /\ remember(w, "verified") /\ signed' = signed
         /\ Sound(w, held, "verified")
  <2> HIDE DEF w
  <2> QED
    BY <1>1, <1>2, ShortSound
<1>4. CASE /\ Skips(w) /\ Ends(p, w, verifiedNow.verdict, {}, FALSE) /\ verifiedNow' = verifiedNow /\ signed' = signed
           /\ Sound(w, {}, verifiedNow.verdict)
  <2>1. p = "sync" => w.tag \in {Nil, 0}
    BY DEF TagInv
  <2>2. verifiedNow # Nil /\ verifiedNow.tag = w.tag
    BY <1>4 DEF Skips
  <2>3. Nil \notin Nat /\ events \in Nat
    BY NilAssumption DEF ESType
  <2>4. p = "sync" => verifiedNow.verdict # "tampered"
    BY <2>1, <2>2, <2>3 DEF Grows, ResultFits
  <2> QED
    BY <1>1, <1>4, <2>4, EndsGrows
<1>5. CASE /\ Ends(p, w, "verified", held, FALSE)
           /\ remember(w, "verified") /\ signed' = signed
           /\ Sound(w, held, "verified")
  BY <1>1, <1>5, EndsGrows
<1> QED
  BY <1>3, <1>4, <1>5

LEMMA CheckGrows ==
  ASSUME ESType, Busy, TagInv, CheckInv, LogInv, era = First, Grows, NEW p \in Who, Check(p)
  PROVE  Grows'
<1>1. /\ AllFirst(log) /\ \A q \in Who : AllFirst(job[q].head) /\ AllFirst(job[q].vhead)
      /\ \A s \in signed : PointFits(s.cp)
  BY RestGrows DEF LogInv, IsPast, PastOf, First, Second
<1>2. {"key", "check", "ring", "again"} \subseteq Checking \ {"head"} /\ job[p] \in Jobs(events)
  BY DEF Checking, ESType
<1>3. CASE ReadHead(p)
  BY <1>3, ReadHeadGrows
<1>4. CASE Fails(p)
  BY <1>4, FailsGrows
<1>5. CASE copyKey(p)
  <2> DEFINE a == IF job[p].again THEN "ring" ELSE "check"
  <2>1. PICK cp \in Checkpoints(job[p]) : Go(p, a, [job[p] EXCEPT !.cp = cp])
    BY <1>5 DEF copyKey
  <2>2. /\ a \in Checking \ {"head"} /\ at[p] \in Checking \ {"head"}
        /\ UNCHANGED <<log, stored, inMemory, alarm, asked, events, signed, verifiedNow>>
    BY <1>2, <1>5 DEF copyKey, keyVars, storeVars, memoVars, countVars, pastVars
  <2>3. PointFits(cp)
    BY <1>1, CheckpointFits
  <2> HIDE DEF a
  <2> QED
    BY <1>1, <2>1, <2>2, <2>3, AskGrows
<1>6. CASE HeadAgain(p)
  <2>1. /\ at[p] \in Checking \ {"head"} /\ "key" \in Checking \ {"head"}
        /\ Go(p, "key", [job[p] EXCEPT !.vhead = log])
        /\ UNCHANGED <<log, stored, inMemory, alarm, asked, events, signed, verifiedNow>>
    BY <1>2, <1>6 DEF HeadAgain, keyVars, storeVars, memoVars, countVars, pastVars
  <2> QED
    BY <1>1, <2>1, AskGrows
<1>7. CASE CheckShort(p)
  <2>1. /\ at[p] \in Checking /\ at[p] \in Checking \ {"head"} /\ UNCHANGED <<log, stored, inMemory, alarm, events>>
        /\ \/ Short(p, job[p], {})
           \/ /\ verifiedNow' \in {verifiedNow, Nil} /\ UNCHANGED <<asked, signed>>
              /\ \E cp \in Checkpoints(job[p]) \cup {job[p].cp} : Go(p, "ring", [job[p] EXCEPT !.cp = cp])
    BY <1>2, <1>7 DEF CheckShort, keyVars, storeVars, countVars
  <2>2. CASE Short(p, job[p], {})
    BY <1>1, <2>1, <2>2, ShortGrows
  <2>3. CASE /\ verifiedNow' \in {verifiedNow, Nil} /\ UNCHANGED <<asked, signed>>
             /\ \E cp \in Checkpoints(job[p]) \cup {job[p].cp} : Go(p, "ring", [job[p] EXCEPT !.cp = cp])
    <3>1. PICK cp \in Checkpoints(job[p]) \cup {job[p].cp} : Go(p, "ring", [job[p] EXCEPT !.cp = cp])
      BY <2>3
    <3>2. PointFits(job[p].cp)
      BY DEF Grows, PointsFit
    <3>3. PointFits(cp)
      BY <1>1, <3>2, CheckpointFits
    <3> QED
      BY <1>1, <1>2, <2>1, <2>3, <3>1, <3>3, AskGrows
  <2> QED
    BY <2>1, <2>2, <2>3
<1>8. CASE CheckFull(p)
  <2> DEFINE w == job[p]
             held == {n \in oldest..Len(log) : n <= Len(w.vhead) /\ log[n] = w.vhead[n]}
             v == evaluate(w, held)
  <2>1. /\ \/ Short(p, w, held)
           \/ /\ verifiedNow' = Nil /\ UNCHANGED <<asked, signed>>
              /\ Go(p, "again", [w EXCEPT !.again = TRUE])
           \/ /\ IF v = "unsigned" THEN verifiedNow' = Nil ELSE remember(w, v)
              /\ signed' \in {signed, signed \cup {Vouched(w)}}
              /\ Ends(p, w, v, held, TRUE)
        /\ at[p] \in Checking /\ at[p] = "ring" /\ at[p] \in Checking \ {"head"}
        /\ UNCHANGED <<log, stored, inMemory, alarm, events>>
    BY <1>2, <1>8 DEF CheckFull, keyVars, storeVars, countVars
  <2> HIDE DEF held
  <2>2. CASE Short(p, w, held)
    BY <1>1, <2>1, <2>2, ShortGrows
  <2>3. CASE verifiedNow' = Nil /\ UNCHANGED <<asked, signed>> /\ Go(p, "again", [w EXCEPT !.again = TRUE])
    BY <1>1, <1>2, <2>1, <2>3, AskGrows
  <2>4. CASE /\ IF v = "unsigned" THEN verifiedNow' = Nil ELSE remember(w, v)
             /\ signed' \in {signed, signed \cup {Vouched(w)}}
             /\ Ends(p, w, v, held, TRUE)
    <3>1. PointFits(w.cp) /\ (p = "sync" \/ w.tag = Nil => Fitting(w, Len(w.vhead)))
      <4>1. JobFits(p)
        BY RestGrows, JobsFitEach
      <4> QED
        BY <2>1, <4>1 DEF JobFits, CheckFits, Checking
    <3>2. \A s \in signed' : PointFits(s.cp)
      <4>1. Vouched(w).cp = w.cp
        BY DEF Vouched
      <4> HIDE DEF w, v
      <4> QED
        BY <1>1, <2>4, <3>1, <4>1
    <3>3. w \in Jobs(events) /\ events \in Nat /\ AllFirst(w.vhead)
      BY <1>1, <1>2 DEF ESType
    <3>4. (p = "sync" \/ w.tag = Nil => v # "tampered") /\ Sound(w, held, v)
      <4> HIDE DEF w
      <4> QED
        BY <3>1, <3>3, FitsNotTampered, FullSound
    <3>5. OfferLinks /\ (verifiedNow' = Nil \/ remember(w, v))
      BY <2>4 DEF CheckInv
    <3> HIDE DEF v
    <3> QED
      BY <1>1, <2>1, <2>4, <3>2, <3>4, <3>5, EndsGrows
  <2> QED
    BY <2>1, <2>2, <2>3, <2>4
<1> QED
  BY <1>3, <1>4, <1>5, <1>6, <1>7, <1>8 DEF Check

LEMMA InitGrows == ESInit => GrowInv
<1> SUFFICES ASSUME ESInit PROVE Grows
  BY DEF GrowInv
<1>1. ESType
  BY InitType
<1>1a. Len(log) \in Nat
  BY <1>1 DEF ESType, Hist
<1>2. /\ stored = Empty0 /\ inMemory = Nil /\ asked = <<>> /\ signed = {} /\ verifiedNow = Nil /\ ~alarm
      /\ at = [p \in Who |-> "idle"] /\ job = [p \in Who |-> Idle] /\ Len(log) \in Nat
  BY <1>1a DEF ESInit
<1>3. \A n \in Nat : Fitting(Idle, n)
  BY <1>1, IdleFits
<1>4. Empty0.links = Idle.links /\ Empty0.seen = Idle.seen
  BY IdleFields DEF Empty0
<1>5. StoreFits
  BY <1>2, <1>3, <1>4 DEF StoreFits, Fitting
<1>6. \A p \in Who : at[p] = "idle" /\ job[p] = Idle
  BY <1>2
<1>7. \A p \in Who : JobFits(p)
  BY <1>2, <1>3, <1>6, IdleFields DEF JobFits, CheckFits, Checking, PointFits
<1>8. JobsFit
  BY <1>7, JobsFitEach
<1>9. AskedFits /\ ResultFits /\ \A s \in signed : PointFits(s.cp)
  BY <1>2, EmptyCopy DEF AskedFits, ResultFits
<1> QED
  BY <1>2, <1>5, <1>8, <1>9, RestGrows

LEMMA StepGrows ==
  ESType /\ Busy /\ CheckInv /\ HeadInv /\ TagInv /\ GrowInv /\ [ESNext]_esVars => GrowInv'
<1> SUFFICES ASSUME ESType, Busy, CheckInv, HeadInv, TagInv, GrowInv, [ESNext]_esVars, edits' = 0, era' = First
             PROVE  Grows'
  BY DEF GrowInv
<1>1. CASE UNCHANGED esVars
  <2>1. UNCHANGED <<log, era, stored, inMemory, verifiedNow, asked, at, job, events, edits, signed, alarm>>
    BY <1>1 DEF esVars, keyVars, storeVars, memoVars, countVars, pastVars
  <2>2. Grows
    BY <2>1 DEF GrowInv
  <2> QED
    BY <2>1, <2>2 DEF Grows, StoreFits, AskedFits, HeadsFit, PointsFit, SyncFits, OfferFits, CheckFits, ResultFits, Used
<1>2. CASE ESNext
  <2>1. ~KeyPutBack /\ ~Edit
    BY DEF KeyPutBack, Edit, First, Second, ESType
  <2>2. edits' = edits /\ era' = era
    BY <1>2, <2>1 DEF ESNext, World, KeyLinks, KeyRestarts, Restarts, sync, SyncButton, SyncLoads, mergeOffered, ReadBatch,
       SaveLooks, SaveWrites, record, Check, ReadHead, copyKey, CheckShort, CheckFull, HeadAgain, Fails, keyVars, pastVars
  <2>3. Grows /\ era = First /\ LogInv /\ AllFirst(log)
    BY <2>2 DEF GrowInv, HeadInv, LogInv
  <2>4. CASE KeyLinks
    BY <2>3, <2>4, KeyLinksGrows
  <2>5. CASE KeyRestarts \/ Restarts \/ sync \/ SyncButton
    BY <2>3, <2>5, WorldGrows
  <2>6. CASE SyncLoads
    BY <2>3, <2>6, SyncLoadsGrows
  <2>7. CASE mergeOffered
    BY <2>3, <2>7, mergeOfferedGrows
  <2>8. CASE ReadBatch
    BY <2>3, <2>8, ReadBatchGrows
  <2>9. CASE SaveLooks \/ SaveWrites
    BY <2>3, <2>9, SaveGrows
  <2>10. CASE record
    BY <2>3, <2>10, recordGrows
  <2>11. ASSUME NEW p \in Who, Check(p) PROVE Grows'
    BY <2>3, <2>11, CheckGrows
  <2> QED
    BY <1>2, <2>1, <2>4, <2>5, <2>6, <2>7, <2>8, <2>9, <2>10, <2>11 DEF ESNext, World
<1> QED
  BY <1>1, <1>2

LEMMA GrowAlways == ESSpec => [](TagInv /\ GrowInv)
<1>1. ESInit => TagInv /\ GrowInv
  BY InitTags, InitGrows
<1>2. ESType /\ Busy /\ CheckInv /\ HeadInv /\ TagInv /\ GrowInv /\ [ESNext]_esVars => TagInv' /\ GrowInv'
  BY StepTags, StepGrows
<1> QED
  BY <1>1, <1>2, TypeAlways, HeadAlways, PTL DEF ESSpec

(***************************************************************************)
(* evaluateWith, record: while the key only grows and nothing edits the    *)
(* copy, no race of the key's links with a check's reads, no restart and   *)
(* no offer - one that a fork ends "tampered" included - makes a sync end  *)
(* "tampered".                                                             *)
(***************************************************************************)
THEOREM AlarmsAreTrue == ESSpec => []NoFalseAlarm
<1>1. GrowInv => NoFalseAlarm
  BY DEF GrowInv, Grows, NoFalseAlarm
<1> QED
  BY <1>1, GrowAlways, PTL
=============================================================================
