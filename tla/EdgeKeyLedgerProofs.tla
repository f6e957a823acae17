------------------------ MODULE EdgeKeyLedgerProofs ------------------------
(***************************************************************************)
(* The budgets of the Edge key against its chain, for any values of the    *)
(* constants: every budget in RAM is the one its chain tells of, and every *)
(* link the key writes is one the ledger allows.                           *)
(***************************************************************************)
EXTENDS EdgeKeyProofs, FiniteSetTheorems

-----------------------------------------------------------------------------
(***************************************************************************)
(* Adding up caps.  What SumCaps returns is shown by the least position at *)
(* which a statement about its partial sums would fail.                    *)
(***************************************************************************)

(* The partial sums that SumCaps ends with. *)
SumTo(s) ==
  LET sum[n \in 0 .. Len(s)] == IF n = 0 THEN 0 ELSE sum[n - 1] + s[n].cap
  IN  sum

IsSum(f, s, m) ==
  /\ f \in [0 .. m -> Nat] /\ f[0] = 0
  /\ \A n \in 1 .. m : f[n] = f[n - 1] + s[n].cap

Capped(s) == /\ Len(s) \in Nat /\ DOMAIN s = 1 .. Len(s)
             /\ \A n \in 1 .. Len(s) : s[n].cap \in Nat

(* A statement about the positions of a sequence that fails, fails first    *)
(* somewhere.                                                               *)
LEMMA FirstFailure ==
  ASSUME NEW S \in SUBSET Nat, S # {}
  PROVE  \E m \in S : m = 0 \/ (m - 1 \in Nat /\ m - 1 \notin S)
<1>1. First(S) \in S /\ \A k \in S : First(S) <= k
  BY FirstType
<1> DEFINE m == First(S)
<1>2. m \in Nat /\ m \in S /\ \A k \in S : m <= k
  BY <1>1
<1> HIDE DEF m
<1>3. ASSUME m # 0 PROVE m - 1 \in Nat /\ m - 1 \notin S
  <2>1. m - 1 \in Nat /\ ~(m <= m - 1)
    BY <1>2, <1>3
  <2> QED BY <1>2, <2>1
<1> QED BY <1>2, <1>3

LEMMA SumExists ==
  ASSUME NEW s, Capped(s), NEW n \in 0 .. Len(s)
  PROVE  \E f : IsSum(f, s, n)
<1> DEFINE Bad == {k \in 0 .. Len(s) : ~\E f : IsSum(f, s, k)}
<1> SUFFICES ASSUME Bad # {} PROVE FALSE
  OBVIOUS
<1>0. Bad \subseteq Nat /\ Len(s) \in Nat
  BY DEF Capped
<1>1. PICK m \in Bad : m = 0 \/ (m - 1 \in Nat /\ m - 1 \notin Bad)
  BY <1>0, FirstFailure
<1>2. CASE m = 0
  <2>1. IsSum([k \in 0 .. 0 |-> 0], s, 0)
    BY DEF IsSum
  <2> QED BY <1>2, <2>1
<1>3. CASE m - 1 \in Nat /\ m - 1 \notin Bad
  <2>1. m \in 1 .. Len(s) /\ m - 1 \in 0 .. Len(s) /\ s[m].cap \in Nat
    BY <1>0, <1>3 DEF Capped
  <2>2. PICK f : IsSum(f, s, m - 1)
    BY <1>3, <2>1
  <2> DEFINE g == [k \in 0 .. m |-> IF k = m THEN f[m - 1] + s[m].cap ELSE f[k]]
  <2>3. f[m - 1] \in Nat
    BY <2>1, <2>2 DEF IsSum
  <2>4. g \in [0 .. m -> Nat] /\ g[0] = 0
    BY <2>1, <2>2, <2>3 DEF IsSum
  <2>5. ASSUME NEW k \in 1 .. m PROVE g[k] = g[k - 1] + s[k].cap
    <3>1. CASE k = m
      BY <2>1, <3>1
    <3>2. CASE k # m
      <4>1. k \in 1 .. (m - 1) /\ k - 1 \in 0 .. m /\ k - 1 # m
        BY <2>1, <3>2
      <4> QED BY <2>2, <4>1, <3>2 DEF IsSum
    <3> QED BY <3>1, <3>2
  <2>6. IsSum(g, s, m)
    BY <2>4, <2>5 DEF IsSum
  <2> QED BY <2>6
<1> QED BY <1>1, <1>2, <1>3

LEMMA SumToIs ==
  ASSUME NEW s, Capped(s)
  PROVE  IsSum(SumTo(s), s, Len(s)) /\ SumCaps(s) = SumTo(s)[Len(s)]
<1> DEFINE Is(f) == f = [n \in 0 .. Len(s) |-> IF n = 0 THEN 0 ELSE f[n - 1] + s[n].cap]
<1>0. Len(s) \in Nat
  BY DEF Capped
<1>1. PICK f : IsSum(f, s, Len(s))
  BY <1>0, SumExists
<1>2. Is(f)
  BY <1>0, <1>1 DEF IsSum
<1>3. SumTo(s) = CHOOSE g : Is(g)
  BY DEF SumTo
<1>4. SumCaps(s) = (CHOOSE g : Is(g))[Len(s)]
  BY DEF SumCaps
<1>5. Is(SumTo(s))
  BY <1>2, <1>3
<1> DEFINE t == SumTo(s)
           Bad == {n \in 0 .. Len(s) : t[n] # f[n]}
<1> HIDE DEF t
<1>6. t = [n \in 0 .. Len(s) |-> IF n = 0 THEN 0 ELSE t[n - 1] + s[n].cap]
  BY <1>5 DEF t
<1>7. Bad = {}
  <2> SUFFICES ASSUME Bad # {} PROVE FALSE
    OBVIOUS
  <2>0. Bad \in SUBSET Nat
    BY <1>0
  <2> HIDE DEF Bad
  <2>1. PICK m \in Bad : m = 0 \/ (m - 1 \in Nat /\ m - 1 \notin Bad)
    BY <2>0, FirstFailure
  <2> USE DEF Bad
  <2>2. m = 0 => t[m] = f[m]
    BY <1>0, <1>1, <1>6 DEF IsSum
  <2>3. CASE m - 1 \in Nat /\ m - 1 \notin Bad
    <3>1. m - 1 \in 0 .. Len(s) /\ m \in 1 .. Len(s)
      BY <1>0, <2>3
    <3>2. t[m - 1] = f[m - 1]
      BY <2>3, <3>1
    <3>3. t[m] = t[m - 1] + s[m].cap /\ f[m] = f[m - 1] + s[m].cap
      BY <1>0, <1>1, <1>6, <3>1 DEF IsSum
    <3> QED BY <3>2, <3>3
  <2> QED BY <2>1, <2>2, <2>3
<1>8. t = f
  <2>1. \A n \in 0 .. Len(s) : t[n] = f[n]
    BY <1>7
  <2>2. t \in [0 .. Len(s) -> Nat] /\ f \in [0 .. Len(s) -> Nat]
    BY <1>1, <1>6, <2>1 DEF IsSum
  <2> HIDE DEF t
  <2> QED BY <2>1, <2>2
<1>9. SumCaps(s) = t[Len(s)]
  BY <1>3, <1>4 DEF t
<1> QED BY <1>1, <1>8, <1>9 DEF t

(* Up to place m the running sum f of s is below the running sum g of t, or *)
(* equals it with equal caps.                                               *)
SameUpTo(s, t, m) == \A n \in 1 .. m : s[n].cap = t[n].cap
NoMore(f, g, s, t, m) == f[m] < g[m] \/ (f[m] = g[m] /\ SameUpTo(s, t, m))

(* Caps one by one no larger add up to no more, and to as much only when    *)
(* they are equal.                                                          *)
LEMMA SumBounded ==
  ASSUME NEW s, NEW t, Capped(s), Capped(t), Len(s) = Len(t),
         \A n \in 1 .. Len(s) : s[n].cap <= t[n].cap
  PROVE  /\ SumCaps(s) \in Nat /\ SumCaps(t) \in Nat /\ SumCaps(s) <= SumCaps(t)
         /\ SumCaps(s) >= SumCaps(t) => \A n \in 1 .. Len(s) : s[n].cap = t[n].cap
<1> DEFINE f == SumTo(s)
           g == SumTo(t)
           L == Len(s)
           Bad == {m \in 0 .. L : ~NoMore(f, g, s, t, m)}
<1>1. L \in Nat /\ \A n \in 1 .. L : s[n].cap \in Nat /\ t[n].cap \in Nat
  BY DEF Capped
<1>2. IsSum(f, s, L) /\ IsSum(g, t, L) /\ SumCaps(s) = f[L] /\ SumCaps(t) = g[L]
  BY SumToIs
<1>0. \A n \in 1 .. L : s[n].cap <= t[n].cap
  OBVIOUS
<1> HIDE DEF f, g, L
<1>3. \A m \in 0 .. L : f[m] \in Nat /\ g[m] \in Nat
  BY <1>1, <1>2 DEF IsSum
<1>4. Bad = {}
  <2> SUFFICES ASSUME Bad # {} PROVE FALSE
    OBVIOUS
  <2>0. Bad \in SUBSET Nat
    BY <1>1
  <2> HIDE DEF Bad
  <2>1. PICK m \in Bad : m = 0 \/ (m - 1 \in Nat /\ m - 1 \notin Bad)
    BY <2>0, FirstFailure
  <2>2. m \in 0 .. L /\ ~NoMore(f, g, s, t, m)
    BY <2>1 DEF Bad
  <2>3. m # 0
    <3>1. m = 0 => f[m] = 0 /\ g[m] = 0 /\ 1 .. m = {}
      BY <1>2 DEF IsSum
    <3> QED BY <2>2, <3>1 DEF NoMore, SameUpTo
  <2>4. m - 1 \in 0 .. L /\ m \in 1 .. L /\ m \in Nat
    BY <1>1, <2>1, <2>2, <2>3
  <2>5. NoMore(f, g, s, t, m - 1)
    BY <2>1, <2>3, <2>4 DEF Bad
  <2>6. f[m] = f[m - 1] + s[m].cap /\ g[m] = g[m - 1] + t[m].cap
    BY <1>1, <1>2, <2>4 DEF IsSum
  <2>7. s[m].cap <= t[m].cap
    BY <1>0, <2>4
  <2>8. f[m - 1] \in Nat /\ g[m - 1] \in Nat /\ s[m].cap \in Nat /\ t[m].cap \in Nat
    BY <1>1, <1>3, <2>4
  <2>9. \/ f[m - 1] < g[m - 1] /\ f[m] < g[m]
        \/ s[m].cap < t[m].cap /\ f[m] < g[m]
        \/ SameUpTo(s, t, m - 1) /\ s[m].cap = t[m].cap /\ f[m] = g[m]
    BY <2>5, <2>6, <2>7, <2>8 DEF NoMore
  <2>10. ~(f[m] < g[m]) /\ ~(f[m] = g[m] /\ SameUpTo(s, t, m))
    BY <2>2 DEF NoMore
  <2>11. \A n \in 1 .. m : n = m \/ n \in 1 .. (m - 1)
    BY <2>4
  <2>12. SameUpTo(s, t, m - 1) /\ s[m].cap = t[m].cap => SameUpTo(s, t, m)
    BY <2>11 DEF SameUpTo
  <2> QED BY <2>9, <2>10, <2>12
<1>5. NoMore(f, g, s, t, L)
  BY <1>1, <1>4
<1>6. f[L] \in Nat /\ g[L] \in Nat
  BY <1>1, <1>3
<1>7. f[L] < g[L] \/ (f[L] = g[L] /\ SameUpTo(s, t, L))
  BY <1>5 DEF NoMore
<1>8. f[L] <= g[L] /\ (f[L] >= g[L] => SameUpTo(s, t, L))
  BY <1>6, <1>7
<1> QED BY <1>2, <1>6, <1>8 DEF L, SameUpTo

LEMMA SumsEqual ==
  ASSUME NEW s, NEW t, Capped(s), Capped(t), Len(s) = Len(t),
         \A n \in 1 .. Len(s) : s[n].cap = t[n].cap
  PROVE  SumCaps(s) = SumCaps(t) /\ SumCaps(s) \in Nat
<1>1. \A n \in 1 .. Len(s) : s[n].cap <= t[n].cap /\ t[n].cap <= s[n].cap
  BY DEF Capped
<1>2. SumCaps(s) <= SumCaps(t) /\ SumCaps(s) \in Nat /\ SumCaps(t) \in Nat
  BY <1>1, SumBounded
<1>3. SumCaps(t) <= SumCaps(s)
  BY <1>1, SumBounded
<1> QED BY <1>2, <1>3

(* One more in one place is one more in the sum. *)
LEMMA SumPlusOne ==
  ASSUME NEW s, NEW t, Capped(s), Capped(t), Len(s) = Len(t),
         NEW j \in 1 .. Len(s), t[j].cap = s[j].cap + 1,
         \A n \in 1 .. Len(s) : n # j => t[n].cap = s[n].cap
  PROVE  SumCaps(t) = SumCaps(s) + 1
<1> DEFINE f == SumTo(s)
           g == SumTo(t)
           L == Len(s)
           More(m) == g[m] = f[m] + (IF j <= m THEN 1 ELSE 0)
           Bad == {m \in 0 .. L : ~More(m)}
<1>1. L \in Nat /\ j \in 1 .. L
      /\ \A n \in 1 .. L : s[n].cap \in Nat /\ t[n].cap \in Nat
  BY DEF Capped
<1>2. IsSum(f, s, L) /\ IsSum(g, t, L) /\ SumCaps(s) = f[L] /\ SumCaps(t) = g[L]
  BY SumToIs
<1>3. \A n \in 1 .. L : n # j => t[n].cap = s[n].cap
  OBVIOUS
<1> HIDE DEF f, g, L
<1>4. \A m \in 0 .. L : f[m] \in Nat /\ g[m] \in Nat
  BY <1>1, <1>2 DEF IsSum
<1>5. Bad = {}
  <2> SUFFICES ASSUME Bad # {} PROVE FALSE
    OBVIOUS
  <2>0. Bad \in SUBSET Nat
    BY <1>1
  <2> HIDE DEF Bad
  <2>1. PICK m \in Bad : m = 0 \/ (m - 1 \in Nat /\ m - 1 \notin Bad)
    BY <2>0, FirstFailure
  <2> USE DEF Bad
  <2>2. m = 0 => More(m)
    BY <1>1, <1>2 DEF IsSum
  <2>3. CASE m - 1 \in Nat /\ m - 1 \notin Bad
    <3>1. m - 1 \in 0 .. L /\ m \in 1 .. L /\ m \in Nat
      BY <1>1, <2>3
    <3>2. More(m - 1)
      BY <2>3, <3>1
    <3>3. f[m] = f[m - 1] + s[m].cap /\ g[m] = g[m - 1] + t[m].cap
      BY <1>1, <1>2, <3>1 DEF IsSum
    <3>4. /\ f[m - 1] \in Nat /\ s[m].cap \in Nat
          /\ j <= m <=> (j <= m - 1 \/ m = j)
      <4> HIDE DEF More, Bad
      <4> QED BY <1>1, <1>4, <3>1
    <3>5. More(m)
      <4>1. CASE m = j
        <5>1. t[m].cap = s[m].cap + 1 /\ ~(j <= m - 1)
          BY <3>1, <4>1
        <5> QED BY <3>2, <3>3, <3>4, <4>1, <5>1
      <4>2. CASE m # j
        <5>1. t[m].cap = s[m].cap
          BY <1>3, <3>1, <4>2
        <5> QED BY <3>2, <3>3, <3>4, <4>2, <5>1
      <4> QED BY <4>1, <4>2
    <3> QED BY <3>5
  <2> QED BY <2>1, <2>2, <2>3
<1>6. More(L)
  BY <1>1, <1>5
<1> QED BY <1>1, <1>2, <1>4, <1>6

LEMMA SumOfZeros ==
  ASSUME NEW s, Capped(s), \A n \in 1 .. Len(s) : s[n].cap = 0
  PROVE  SumCaps(s) = 0
<1> DEFINE f == SumTo(s)
           Bad == {m \in 0 .. Len(s) : f[m] # 0}
<1>1. Len(s) \in Nat
  BY DEF Capped
<1>2. IsSum(f, s, Len(s)) /\ SumCaps(s) = f[Len(s)]
  BY SumToIs
<1> HIDE DEF f
<1>3. Bad = {}
  <2> SUFFICES ASSUME Bad # {} PROVE FALSE
    OBVIOUS
  <2>0. Bad \in SUBSET Nat
    BY <1>1
  <2> HIDE DEF Bad
  <2>1. PICK m \in Bad : m = 0 \/ (m - 1 \in Nat /\ m - 1 \notin Bad)
    BY <2>0, FirstFailure
  <2> USE DEF Bad
  <2>2. m # 0
    BY <1>1, <1>2 DEF IsSum
  <2>3. m \in 1 .. Len(s) /\ f[m - 1] = 0
    BY <1>1, <2>1, <2>2
  <2>4. f[m] = f[m - 1] + s[m].cap
    BY <1>2, <2>3 DEF IsSum
  <2> QED BY <2>1, <2>3, <2>4
<1> QED BY <1>1, <1>2, <1>3

-----------------------------------------------------------------------------
(***************************************************************************)
(* The invariant.  BudgetsMatchChain is not inductive: a new budget takes  *)
(* the next position as its id, so no two slots and no earlier link may    *)
(* carry it; a budget that ends as completed must have filled every scope, *)
(* so its two counters must agree with those of its scopes; and a grant    *)
(* that waits for its press already has the sum it is opened with.         *)
(***************************************************************************)

(* What the scopes of a budget were used for, to be added up as caps are. *)
UsedAsCaps(scopes) == [j \in DOMAIN scopes |-> [cap |-> scopes[j].used]]

Counted(b) ==
  /\ b.uses = SumCaps(b.scopes) /\ b.used = SumCaps(UsedAsCaps(b.scopes))
  /\ \A j \in DOMAIN b.scopes : b.scopes[j].used <= b.scopes[j].cap

Matches(log, b) ==
  /\ Open(log, b.id)
  /\ b.used = Cardinality(UsesOf(log, b.id))
  /\ b.onHold = OnHold(log, b.id)
  /\ Len(b.scopes) = Len(log[b.id].scopes)
  /\ \A j \in DOMAIN b.scopes :
       /\ b.scopes[j].used = Cardinality(UsesOfScope(log, b.id, j))
       /\ [b.scopes[j] EXCEPT !.used = 0] = log[b.id].scopes[j]

SlotsMatch(log, bs) ==
  /\ \A i \in 1 .. MaxLive : bs[i].id # 0 => Matches(log, bs[i]) /\ Counted(bs[i])
  /\ \A i, k \in 1 .. MaxLive : bs[i].id # 0 /\ bs[i].id = bs[k].id => i = k

(* A use or a hold names a position before its own. *)
IdsPast(log) ==
  \A k \in DOMAIN log : log[k].op \in {"use", "hold"} => log[k].id < k

(* A grant that waits for its press is unused, and its uses are its caps.   *)
GrantCounted(p) ==
  p.what = "grant" =>
    /\ p.uses = SumCaps(p.scopes)
    /\ \A j \in DOMAIN p.scopes : p.scopes[j].used = 0

LedgerInv ==
  /\ SlotsMatch(st.log, budgets)
  /\ IdsPast(st.log) /\ IdsPast(backup.log)
  /\ GrantCounted(press)
  /\ busy = "settling" => st.debt # 0
  /\ st.cont => st.log # << >>

-----------------------------------------------------------------------------
(* What a link does to what a chain says of a grant. *)
LEMMA OpenAfter ==
  ASSUME NEW log \in Logs, NEW l \in LinkRecords, NEW g, Open(log, g),
         l.op # "continue", ~(l.op = "end" /\ l.id = g)
  PROVE  Open(Append(log, l), g) /\ g \in 1 .. Len(log) /\ Append(log, l)[g] = log[g]
BY AppendedLog DEF Open, At

LEMMA OpenedNow ==
  ASSUME NEW log \in Logs, NEW l \in LinkRecords, l.op = "create"
  PROVE  Open(Append(log, l), Len(log) + 1)
BY AppendedLog DEF Open, At

LEMMA UsesAfter ==
  ASSUME NEW log \in Logs, NEW l \in LinkRecords, NEW g
  PROVE  /\ ~(l.op = "use" /\ l.id = g) => UsesOf(Append(log, l), g) = UsesOf(log, g)
         /\ l.op = "use" /\ l.id = g =>
              UsesOf(Append(log, l), g) = UsesOf(log, g) \union {Len(log) + 1}
<1> DEFINE new == Append(log, l)
           n   == Len(log)
<1>1. n \in Nat /\ DOMAIN log = 1 .. n /\ DOMAIN new = 1 .. n + 1
      /\ new[n + 1] = l /\ \A k \in 1 .. n : new[k] = log[k]
  BY AppendedLog
<1> HIDE DEF new, n
<1>2. \A k : k \in UsesOf(new, g) <=>
               k \in UsesOf(log, g) \/ (k = n + 1 /\ l.op = "use" /\ l.id = g)
  BY <1>1 DEF UsesOf, At
<1> QED BY <1>2 DEF new, n

LEMMA ScopeUsesAfter ==
  ASSUME NEW log \in Logs, NEW l \in LinkRecords, NEW g, NEW j
  PROVE  /\ ~(l.op = "use" /\ l.id = g /\ l.scope = j) =>
              UsesOfScope(Append(log, l), g, j) = UsesOfScope(log, g, j)
         /\ l.op = "use" /\ l.id = g /\ l.scope = j =>
              UsesOfScope(Append(log, l), g, j)
                = UsesOfScope(log, g, j) \union {Len(log) + 1}
<1> DEFINE new == Append(log, l)
           n   == Len(log)
<1>1. n \in Nat /\ DOMAIN log = 1 .. n /\ DOMAIN new = 1 .. n + 1
      /\ new[n + 1] = l /\ \A k \in 1 .. n : new[k] = log[k]
  BY AppendedLog
<1> HIDE DEF new, n
<1>2. \A k : k \in UsesOfScope(new, g, j) <=>
               \/ k \in UsesOfScope(log, g, j)
               \/ k = n + 1 /\ l.op = "use" /\ l.id = g /\ l.scope = j
  BY <1>1 DEF UsesOfScope, UsesOf, At
<1> QED BY <1>2 DEF new, n

(* Positions of a chain are finitely many; the next one is new. *)
LEMMA PositionsFinite ==
  ASSUME NEW log \in Logs, NEW S \in SUBSET DOMAIN log
  PROVE  /\ IsFiniteSet(S) /\ Cardinality(S) \in Nat
         /\ Cardinality(S \union {Len(log) + 1}) = Cardinality(S) + 1
<1>1. Len(log) \in Nat /\ DOMAIN log = 1 .. Len(log)
  BY AppendedLog, BareLinkType DEF Logs
<1>2. IsFiniteSet(1 .. Len(log))
  BY <1>1, FS_Interval
<1>3. IsFiniteSet(S)
  BY <1>1, <1>2, FS_Subset
<1>4. Len(log) + 1 \notin S
  BY <1>1
<1> QED BY <1>3, <1>4, FS_CardinalityType, FS_AddElement

LEMMA UsesInLog ==
  ASSUME NEW log \in Logs, NEW g, NEW j
  PROVE  UsesOf(log, g) \in SUBSET DOMAIN log /\ UsesOfScope(log, g, j) \in SUBSET DOMAIN log
BY DEF UsesOf, UsesOfScope, At

LEMMA OnHoldAfter ==
  ASSUME NEW log \in Logs, NEW l \in LinkRecords, NEW g
  PROVE  /\ l.op = "hold" /\ l.id = g => OnHold(Append(log, l), g)
         /\ l.op = "resume" /\ l.id = g => ~OnHold(Append(log, l), g)
         /\ ~(l.op \in {"hold", "resume"} /\ l.id = g) =>
              (OnHold(Append(log, l), g) <=> OnHold(log, g))
<1> DEFINE new == Append(log, l)
           n   == Len(log)
<1>1. n \in Nat /\ DOMAIN log = 1 .. n /\ DOMAIN new = 1 .. n + 1
      /\ new[n + 1] = l /\ \A k \in 1 .. n : new[k] = log[k]
  BY AppendedLog
<1> HIDE DEF new, n
<1>2. OnHold(new, g) <=>
        \E h \in 1 .. n + 1 : /\ new[h].op = "hold" /\ new[h].id = g
                              /\ \A k \in 1 .. n + 1 :
                                   new[k].op = "resume" /\ k > h => new[k].id # g
  BY <1>1 DEF OnHold, At
<1>3. OnHold(log, g) <=>
        \E h \in 1 .. n : /\ log[h].op = "hold" /\ log[h].id = g
                          /\ \A k \in 1 .. n :
                               log[k].op = "resume" /\ k > h => log[k].id # g
  BY <1>1 DEF OnHold, At
<1>4. CASE l.op = "hold" /\ l.id = g
  <2>1. ~(l.op = "resume")
    BY <1>4
  <2>2. \A k \in 1 .. n + 1 : ~(k > n + 1)
    BY <1>1
  <2>3. OnHold(new, g)
    BY <1>1, <1>2, <1>4, <2>2
  <2> QED BY <2>1, <2>3, <1>4 DEF new
<1>5. CASE l.op = "resume" /\ l.id = g
  <2>1. \A h \in 1 .. n + 1 : h = n + 1 \/ n + 1 > h
    BY <1>1
  <2>2. ~OnHold(new, g)
    BY <1>1, <1>2, <1>5, <2>1
  <2> QED BY <1>5, <2>2 DEF new
<1>6. CASE ~(l.op \in {"hold", "resume"} /\ l.id = g)
  <2>1. ASSUME OnHold(new, g) PROVE OnHold(log, g)
    <3>1. PICK h \in 1 .. n + 1 :
            /\ new[h].op = "hold" /\ new[h].id = g
            /\ \A k \in 1 .. n + 1 : new[k].op = "resume" /\ k > h => new[k].id # g
      BY <1>2, <2>1
    <3>2. h # n + 1
      BY <1>1, <1>6, <3>1
    <3> QED BY <1>1, <1>3, <3>1, <3>2
  <2>2. ASSUME OnHold(log, g) PROVE OnHold(new, g)
    <3>1. PICK h \in 1 .. n :
            /\ log[h].op = "hold" /\ log[h].id = g
            /\ \A k \in 1 .. n : log[k].op = "resume" /\ k > h => log[k].id # g
      BY <1>3, <2>2
    <3>2. \A k \in 1 .. n + 1 : new[k].op = "resume" /\ k > h => new[k].id # g
      BY <1>1, <1>6, <3>1
    <3> QED BY <1>1, <1>2, <3>1, <3>2
  <2> QED BY <1>6, <2>1, <2>2 DEF new
<1> QED BY <1>4, <1>5, <1>6

(* What a link does to a budget that matches the chain before it. *)
LEMMA MatchesStays ==
  ASSUME NEW log \in Logs, NEW l \in LinkRecords, NEW b, Matches(log, b),
         l.op # "continue", ~(l.op \in {"end", "use", "hold", "resume"} /\ l.id = b.id)
  PROVE  Matches(Append(log, l), b)
<1> DEFINE new == Append(log, l)
<1>1. Open(new, b.id) /\ new[b.id] = log[b.id]
  BY OpenAfter DEF Matches
<1>2. UsesOf(new, b.id) = UsesOf(log, b.id)
  BY UsesAfter
<1>3. \A j : UsesOfScope(new, b.id, j) = UsesOfScope(log, b.id, j)
  BY ScopeUsesAfter
<1>4. OnHold(new, b.id) <=> OnHold(log, b.id)
  BY OnHoldAfter
<1>5. OnHold(new, b.id) = OnHold(log, b.id)
  BY <1>4 DEF OnHold
<1> HIDE DEF new
<1>6. Matches(new, b)
  BY <1>1, <1>2, <1>3, <1>5 DEF Matches
<1> QED BY <1>6 DEF new

LEMMA MatchesHeld ==
  ASSUME NEW log \in Logs, NEW l \in LinkRecords, NEW b \in BudgetRecords,
         Matches(log, b), l.op \in {"hold", "resume"}, l.id = b.id
  PROVE  Matches(Append(log, l), [b EXCEPT !.onHold = (l.op = "hold")])
<1> DEFINE new == Append(log, l)
           c   == [b EXCEPT !.onHold = (l.op = "hold")]
<1>0. c.id = b.id /\ c.used = b.used /\ c.scopes = b.scopes /\ c.onHold = (l.op = "hold")
  BY DEF BudgetRecords
<1>1. Open(new, b.id) /\ new[b.id] = log[b.id]
  BY OpenAfter DEF Matches
<1>2. UsesOf(new, b.id) = UsesOf(log, b.id)
  BY UsesAfter
<1>3. \A j : UsesOfScope(new, b.id, j) = UsesOfScope(log, b.id, j)
  BY ScopeUsesAfter
<1>4. OnHold(new, b.id) = (l.op = "hold")
  <2>1. OnHold(new, b.id) <=> l.op = "hold"
    BY OnHoldAfter
  <2> QED BY <2>1 DEF OnHold
<1> HIDE DEF new, c
<1>5. Matches(new, c)
  BY <1>0, <1>1, <1>2, <1>3, <1>4 DEF Matches
<1> QED BY <1>5 DEF new, c

LEMMA MatchesSpent ==
  ASSUME NEW log \in Logs, NEW l \in LinkRecords, NEW b \in BudgetRecords,
         NEW j \in DOMAIN b.scopes, Matches(log, b),
         l.op = "use", l.id = b.id, l.scope = j
  PROVE  Matches(Append(log, l), Spent(b, j))
<1> DEFINE new == Append(log, l)
           c   == Spent(b, j)
           s   == [b.scopes[j] EXCEPT !.used = b.scopes[j].used + 1]
<1>1. c = [b EXCEPT !.used = b.used + 1, !.scopes = [b.scopes EXCEPT ![j] = s]]
      /\ b.scopes \in Seq(ScopeRecords)
  BY SpentType DEF BudgetRecords
<1>2. b.scopes[j] \in ScopeRecords
  BY <1>1, ElementType
<1>3. s.used = b.scopes[j].used + 1 /\ [s EXCEPT !.used = 0] = [b.scopes[j] EXCEPT !.used = 0]
  BY <1>2 DEF ScopeRecords
<1> HIDE DEF s
<1>4. /\ c.id = b.id /\ c.used = b.used + 1 /\ c.onHold = b.onHold
      /\ c.scopes = [b.scopes EXCEPT ![j] = s]
  BY <1>1 DEF BudgetRecords
<1>5. /\ Len(c.scopes) = Len(b.scopes) /\ DOMAIN c.scopes = DOMAIN b.scopes
      /\ c.scopes[j] = s /\ \A k \in DOMAIN b.scopes : k # j => c.scopes[k] = b.scopes[k]
  BY <1>1, <1>4
<1>6. Open(new, b.id) /\ new[b.id] = log[b.id]
  BY OpenAfter DEF Matches
<1>7. OnHold(new, b.id) = OnHold(log, b.id)
  <2>1. OnHold(new, b.id) <=> OnHold(log, b.id)
    BY OnHoldAfter
  <2> QED BY <2>1 DEF OnHold
<1>8. Cardinality(UsesOf(new, b.id)) = Cardinality(UsesOf(log, b.id)) + 1
  <2>1. UsesOf(new, b.id) = UsesOf(log, b.id) \union {Len(log) + 1}
    BY UsesAfter
  <2>2. UsesOf(log, b.id) \in SUBSET DOMAIN log
    BY UsesInLog
  <2> QED BY <2>1, <2>2, PositionsFinite
<1>9. Cardinality(UsesOfScope(new, b.id, j)) = Cardinality(UsesOfScope(log, b.id, j)) + 1
  <2>1. UsesOfScope(new, b.id, j) = UsesOfScope(log, b.id, j) \union {Len(log) + 1}
    BY ScopeUsesAfter
  <2>2. UsesOfScope(log, b.id, j) \in SUBSET DOMAIN log
    BY UsesInLog
  <2> QED BY <2>1, <2>2, PositionsFinite
<1>10. \A k : k # j => UsesOfScope(new, b.id, k) = UsesOfScope(log, b.id, k)
  BY ScopeUsesAfter
<1> HIDE DEF new, c
<1>11. ASSUME NEW k \in DOMAIN c.scopes
       PROVE  /\ c.scopes[k].used = Cardinality(UsesOfScope(new, b.id, k))
              /\ [c.scopes[k] EXCEPT !.used = 0] = new[b.id].scopes[k]
  <2>1. CASE k = j
    BY <1>3, <1>5, <1>6, <1>9, <2>1 DEF Matches
  <2>2. CASE k # j
    BY <1>5, <1>6, <1>10, <2>2 DEF Matches
  <2> QED BY <2>1, <2>2
<1>12. Open(new, c.id) /\ c.used = Cardinality(UsesOf(new, c.id))
       /\ c.onHold = OnHold(new, c.id) /\ Len(c.scopes) = Len(new[c.id].scopes)
  BY <1>4, <1>5, <1>6, <1>7, <1>8 DEF Matches
<1>13. Matches(new, c)
  BY <1>4, <1>11, <1>12 DEF Matches
<1> QED BY <1>13 DEF new, c

LEMMA MatchesOpened ==
  ASSUME NEW log \in Logs, NEW l \in LinkRecords, NEW b, IdsPast(log),
         l.op = "create", l.scopes = b.scopes,
         b.id = Len(log) + 1, b.used = 0, b.onHold = FALSE,
         b.scopes \in Seq(ScopeRecords), \A j \in DOMAIN b.scopes : b.scopes[j].used = 0
  PROVE  Matches(Append(log, l), b)
<1> DEFINE new == Append(log, l)
           g   == Len(log) + 1
<1>1. Open(new, g) /\ new[g] = l
  BY OpenedNow, AppendedLog
<1>2. Len(log) \in Nat /\ DOMAIN log = 1 .. Len(log)
  BY AppendedLog
<1>3. \A k \in DOMAIN log : log[k].op \in {"use", "hold"} => log[k].id # g
  BY <1>2 DEF IdsPast
<1>4. UsesOf(new, g) = {} /\ \A j : UsesOfScope(new, g, j) = {}
  <2>1. UsesOf(log, g) = {} /\ \A j : UsesOfScope(log, g, j) = {}
    BY <1>3 DEF UsesOf, UsesOfScope, At
  <2>2. UsesOf(new, g) = UsesOf(log, g)
    BY UsesAfter
  <2>3. \A j : UsesOfScope(new, g, j) = UsesOfScope(log, g, j)
    BY ScopeUsesAfter
  <2> QED BY <2>1, <2>2, <2>3
<1>5. OnHold(new, g) = FALSE
  <2>1. ~OnHold(log, g)
    BY <1>3 DEF OnHold, At
  <2>2. OnHold(new, g) <=> OnHold(log, g)
    BY OnHoldAfter
  <2> QED BY <2>1, <2>2 DEF OnHold
<1>6. Cardinality({}) = 0
  BY FS_EmptySet
<1>7. ASSUME NEW j \in DOMAIN b.scopes
      PROVE  [b.scopes[j] EXCEPT !.used = 0] = l.scopes[j]
  <2>1. b.scopes[j] \in ScopeRecords
    BY ElementType
  <2> QED BY <2>1 DEF ScopeRecords
<1> HIDE DEF new, g
<1>8. b.id = g
  BY DEF g
<1>9. Matches(new, b)
  BY <1>1, <1>4, <1>5, <1>6, <1>7, <1>8 DEF Matches
<1> QED BY <1>9 DEF new

LEMMA FunctionIsSeq ==
  ASSUME NEW S, NEW n \in Nat, NEW u \in [1 .. n -> S]
  PROVE  u \in Seq(S) /\ Len(u) = n
OBVIOUS

(* The counters of a budget. *)
LEMMA ScopesCapped ==
  ASSUME NEW s \in Seq(ScopeRecords)
  PROVE  /\ Capped(s) /\ Capped(UsedAsCaps(s)) /\ Len(UsedAsCaps(s)) = Len(s)
         /\ \A j \in DOMAIN s : UsedAsCaps(s)[j].cap = s[j].used
<1>1. Len(s) \in Nat /\ DOMAIN s = 1 .. Len(s) /\ \A j \in DOMAIN s : s[j] \in ScopeRecords
  OBVIOUS
<1>2. \A j \in DOMAIN s : s[j].cap \in Nat /\ s[j].used \in Nat
  BY <1>1 DEF ScopeRecords
<1>3. UsedAsCaps(s) \in [1 .. Len(s) -> [cap : Nat]]
  BY <1>1, <1>2 DEF UsedAsCaps
<1>4. UsedAsCaps(s) \in Seq([cap : Nat]) /\ Len(UsedAsCaps(s)) = Len(s)
  <2> DEFINE u == UsedAsCaps(s)
             n == Len(s)
  <2>1. u \in [1 .. n -> [cap : Nat]] /\ n \in Nat
    BY <1>1, <1>3
  <2> HIDE DEF u, n
  <2>2. u \in Seq([cap : Nat]) /\ Len(u) = n
    BY <2>1, FunctionIsSeq
  <2> QED BY <2>2 DEF u, n
<1>5. \A j \in DOMAIN s : UsedAsCaps(s)[j].cap = s[j].used
  BY <1>1 DEF UsedAsCaps
<1> QED BY <1>1, <1>2, <1>4, <1>5 DEF Capped

LEMMA CountedSpent ==
  ASSUME NEW b \in BudgetRecords, NEW j \in DOMAIN b.scopes, Counted(b),
         b.scopes[j].used < b.scopes[j].cap
  PROVE  Counted(Spent(b, j))
<1> DEFINE c == Spent(b, j)
           s == [b.scopes[j] EXCEPT !.used = b.scopes[j].used + 1]
<1>1. c = [b EXCEPT !.used = b.used + 1, !.scopes = [b.scopes EXCEPT ![j] = s]]
      /\ b.scopes \in Seq(ScopeRecords) /\ c \in BudgetRecords
  BY SpentType DEF BudgetRecords
<1>2. b.scopes[j] \in ScopeRecords
  BY <1>1, ElementType
<1>3. s.used = b.scopes[j].used + 1 /\ s.cap = b.scopes[j].cap
      /\ s.cap \in Nat /\ b.scopes[j].used \in Nat
  BY <1>2 DEF ScopeRecords
<1> HIDE DEF s
<1>4. /\ c.used = b.used + 1 /\ c.uses = b.uses
      /\ c.scopes = [b.scopes EXCEPT ![j] = s] /\ c.scopes \in Seq(ScopeRecords)
  BY <1>1 DEF BudgetRecords
<1>5. /\ Len(c.scopes) = Len(b.scopes) /\ DOMAIN c.scopes = DOMAIN b.scopes
      /\ c.scopes[j] = s /\ \A k \in DOMAIN b.scopes : k # j => c.scopes[k] = b.scopes[k]
      /\ DOMAIN b.scopes = 1 .. Len(b.scopes)
  BY <1>1, <1>4
<1> HIDE DEF c
<1>6. SumCaps(c.scopes) = SumCaps(b.scopes)
  <2>1. Capped(c.scopes) /\ Capped(b.scopes)
    BY <1>1, <1>4, ScopesCapped
  <2>2. \A k \in 1 .. Len(c.scopes) : c.scopes[k].cap = b.scopes[k].cap
    BY <1>3, <1>5
  <2> QED BY <1>5, <2>1, <2>2, SumsEqual
<1>7. SumCaps(UsedAsCaps(c.scopes)) = SumCaps(UsedAsCaps(b.scopes)) + 1
  <2> DEFINE x == UsedAsCaps(b.scopes)
             y == UsedAsCaps(c.scopes)
  <2>1. /\ Capped(x) /\ Capped(y) /\ Len(x) = Len(b.scopes) /\ Len(y) = Len(c.scopes)
        /\ \A k \in DOMAIN b.scopes : x[k].cap = b.scopes[k].used
        /\ \A k \in DOMAIN c.scopes : y[k].cap = c.scopes[k].used
    BY <1>1, <1>4, ScopesCapped
  <2> HIDE DEF x, y
  <2>2. j \in 1 .. Len(x) /\ Len(x) = Len(y) /\ y[j].cap = x[j].cap + 1
        /\ \A k \in 1 .. Len(x) : k # j => y[k].cap = x[k].cap
    BY <1>3, <1>5, <2>1
  <2>3. SumCaps(y) = SumCaps(x) + 1
    BY <2>1, <2>2, SumPlusOne
  <2> QED BY <2>3 DEF x, y
<1>8. \A k \in DOMAIN c.scopes : c.scopes[k].used <= c.scopes[k].cap
  BY <1>3, <1>5 DEF Counted
<1>9. Counted(c)
  BY <1>4, <1>6, <1>7, <1>8 DEF Counted
<1> QED BY <1>9 DEF c

LEMMA CountedOpened ==
  ASSUME NEW b, b.scopes \in Seq(ScopeRecords), b.uses = SumCaps(b.scopes), b.used = 0,
         \A j \in DOMAIN b.scopes : b.scopes[j].used = 0
  PROVE  Counted(b)
<1> DEFINE x == UsedAsCaps(b.scopes)
<1>1. Capped(x) /\ Len(x) = Len(b.scopes) /\ \A k \in DOMAIN b.scopes : x[k].cap = 0
      /\ DOMAIN b.scopes = 1 .. Len(b.scopes)
  BY ScopesCapped
<1> HIDE DEF x
<1>2. SumCaps(x) = 0
  BY <1>1, SumOfZeros
<1>3. \A j \in DOMAIN b.scopes : b.scopes[j].cap \in Nat
  BY ScopesCapped, <1>1 DEF Capped
<1> QED BY <1>2, <1>3 DEF Counted, x

(* A budget whose uses are all made has filled every scope. *)
LEMMA UsedUp ==
  ASSUME NEW b \in BudgetRecords, Counted(b), b.used >= b.uses
  PROVE  \A j \in DOMAIN b.scopes : b.scopes[j].used = b.scopes[j].cap
<1> DEFINE x == UsedAsCaps(b.scopes)
           t == b.scopes
<1>0. t \in Seq(ScopeRecords)
  BY DEF BudgetRecords
<1>1. Capped(x) /\ Capped(t) /\ Len(x) = Len(t) /\ DOMAIN t = 1 .. Len(t)
      /\ \A k \in DOMAIN t : x[k].cap = t[k].used
  BY <1>0, ScopesCapped
<1>2. SumCaps(x) >= SumCaps(t) /\ \A k \in DOMAIN t : t[k].used <= t[k].cap
  BY DEF Counted
<1> HIDE DEF x, t
<1>3. \A n \in 1 .. Len(x) : x[n].cap <= t[n].cap
  BY <1>1, <1>2
<1>4. \A n \in 1 .. Len(x) : x[n].cap = t[n].cap
  BY <1>1, <1>2, <1>3, SumBounded
<1>5. \A j \in DOMAIN t : t[j].used = t[j].cap
  BY <1>1, <1>4
<1> QED BY <1>5 DEF t

(* The slots after a link that changed at most one of them. *)
LEMMA SlotsWelded ==
  ASSUME NEW log \in Logs, NEW l \in LinkRecords,
         NEW bs \in [1 .. MaxLive -> BudgetRecords], SlotsMatch(log, bs),
         l.op # "continue", NEW i \in 1 .. MaxLive, NEW c,
         \/ c.id = 0
         \/ /\ Matches(Append(log, l), c) /\ Counted(c)
            /\ c.id = bs[i].id \/ c.id = Len(log) + 1,
         \A k \in 1 .. MaxLive : k # i /\ bs[k].id # 0 =>
           ~(l.op \in {"end", "use", "hold", "resume"} /\ l.id = bs[k].id)
  PROVE  SlotsMatch(Append(log, l), [bs EXCEPT ![i] = c])
<1> DEFINE new == Append(log, l)
           cs  == [bs EXCEPT ![i] = c]
<1>1. cs[i] = c /\ \A k \in 1 .. MaxLive : k # i => cs[k] = bs[k]
  OBVIOUS
<1>2. ASSUME NEW k \in 1 .. MaxLive, cs[k].id # 0
      PROVE  Matches(new, cs[k]) /\ Counted(cs[k])
  <2>1. CASE k = i
    BY <1>1, <1>2, <2>1
  <2>2. CASE k # i
    BY <1>1, <1>2, <2>2, MatchesStays DEF SlotsMatch
  <2> QED BY <2>1, <2>2
<1>3. \A k \in 1 .. MaxLive : bs[k].id # 0 => bs[k].id # Len(log) + 1
  BY AppendedLog DEF SlotsMatch, Matches, Open, At
<1>4. ASSUME NEW k \in 1 .. MaxLive, NEW m \in 1 .. MaxLive,
             cs[k].id # 0, cs[k].id = cs[m].id
      PROVE  k = m
  <2>1. CASE k # i /\ m # i
    BY <1>1, <1>4, <2>1 DEF SlotsMatch
  <2>2. CASE k = i /\ m # i
    BY <1>1, <1>3, <1>4, <2>2 DEF SlotsMatch
  <2>3. CASE k # i /\ m = i
    BY <1>1, <1>3, <1>4, <2>3 DEF SlotsMatch
  <2> QED BY <2>1, <2>2, <2>3
<1> HIDE DEF new, cs
<1>5. SlotsMatch(new, cs)
  BY <1>2, <1>4 DEF SlotsMatch
<1> QED BY <1>5 DEF new, cs

LEMMA SlotsStay ==
  ASSUME NEW log \in Logs, NEW l \in LinkRecords, NEW bs, SlotsMatch(log, bs),
         l.op \in {"receipt", "loss"}
  PROVE  SlotsMatch(Append(log, l), bs)
BY MatchesStays DEF SlotsMatch

LEMMA SlotsEmpty == ASSUME NEW log PROVE SlotsMatch(log, NoBudgets)
BY DEF SlotsMatch, NoBudgets, NoBudget

LEMMA IdsPastAfter ==
  ASSUME NEW log \in Logs, NEW l \in LinkRecords, IdsPast(log),
         l.op \in {"use", "hold"} => l.id \in DOMAIN log
  PROVE  IdsPast(Append(log, l))
BY AppendedLog DEF IdsPast

-----------------------------------------------------------------------------
(* What is shown of every step: the invariant is kept, and the chain does   *)
(* what the ledger allows.                                                  *)
StepOK == LedgerInv' /\ [Ledger!LedgerNext]_<<st.log, backup.log>>

LEMMA QuietOK ==
  ASSUME LedgerInv, UNCHANGED <<st, backup>>, budgets' = budgets \/ budgets' = NoBudgets,
         GrantCounted(press'), busy' = "settling" => st.debt # 0
  PROVE  StepOK
<1>1. SlotsMatch(st.log, budgets')
  BY SlotsEmpty DEF LedgerInv
<1> QED BY <1>1 DEF StepOK, LedgerInv

LEMMA WeldOK ==
  ASSUME TypeOK, DebtInv, LedgerInv, NEW l \in LinkRecords, weld_in(l), UNCHANGED backup,
         SlotsMatch(Append(st.log, l), budgets'),
         l.op \in {"use", "hold"} => l.id \in DOMAIN st.log,
         GrantCounted(press'), busy' = "settling" => st'.debt # 0,
         Ledger!MayFollow(l)
  PROVE  StepOK
<1>1. st.log \in Logs /\ st'.log = Append(st.log, l)
  BY WeldLinks DEF TypeOK, EdgeRecords, Links
<1>2. IdsPast(Append(st.log, l))
  BY <1>1, IdsPastAfter DEF LedgerInv
<1>3. Len(st'.log) = Len(st.log) + 1 /\ st'.log[Len(st'.log)] = l /\ Len(st.log) \in Nat
  BY <1>1, AppendedLog
<1>4. st'.log # << >>
  BY <1>3
<1>5. LedgerInv'
  BY <1>1, <1>2, <1>4 DEF LedgerInv
<1>6. Ledger!Extend
  BY <1>1, <1>3 DEF Ledger!Extend
<1> QED BY <1>5, <1>6 DEF StepOK, Ledger!LedgerNext

LEMMA SameCount == \A S : Ledger!Cardinality(S) = Cardinality(S)
BY DEF Ledger!Cardinality, Cardinality

(* The ledger reads a chain as the key does. *)
LEMMA SameWords ==
  /\ \A log : Ledger!Unpaid(log) = Unpaid(log)
  /\ \A log, g : Ledger!Open(log, g) <=> Open(log, g)
  /\ \A log, g : Ledger!OnHold(log, g) <=> OnHold(log, g)
  /\ \A log, g : Ledger!UsesOf(log, g) = UsesOf(log, g)
  /\ \A log, g, j : Ledger!UsesOfScope(log, g, j) = UsesOfScope(log, g, j)
  /\ \A scope, req : Ledger!Covers(scope, req) <=> Covers(scope, req)
<1>1. \A log, op : Ledger!At(log, op) = At(log, op)
  BY DEF Ledger!At, At
<1>2. \A log, i, hi : Ledger!PaidBefore(log, i, hi) <=> PaidBefore(log, i, hi)
  BY DEF Ledger!PaidBefore, PaidBefore
<1>3. \A log : Ledger!Unpaid(log) = Unpaid(log)
  BY <1>1, <1>2 DEF Ledger!Unpaid, Unpaid
<1>4. \A log, g : Ledger!UsesOf(log, g) = UsesOf(log, g)
  BY <1>1 DEF Ledger!UsesOf, UsesOf
<1>5. \A log, g : Ledger!Open(log, g) <=> Open(log, g)
  BY <1>1 DEF Ledger!Open, Open
<1>6. \A log, g : Ledger!OnHold(log, g) <=> OnHold(log, g)
  BY <1>1 DEF Ledger!OnHold, OnHold
<1>7. \A log, g, j : Ledger!UsesOfScope(log, g, j) = UsesOfScope(log, g, j)
  BY <1>4 DEF Ledger!UsesOfScope, UsesOfScope
<1>8. \A scope, req : Ledger!Covers(scope, req) <=> Covers(scope, req)
  BY DEF Ledger!Covers, Covers
<1> QED BY <1>3, <1>4, <1>5, <1>6, <1>7, <1>8

LEMMA NothingOwed == ASSUME DebtInv, st.debt = 0 PROVE Ledger!NoneOwed
BY SameWords DEF DebtInv, DebtIs, Ledger!NoneOwed

LEMMA SomethingOwed == ASSUME DebtInv, st.debt # 0 PROVE ~Ledger!NoneOwed
BY SameWords DEF DebtInv, DebtIs, Ledger!NoneOwed

(* The scope of a budget and the one its grant was linked with. *)
LEMMA SameScope ==
  ASSUME NEW b \in BudgetRecords, NEW log \in Logs, Matches(log, b), NEW j \in DOMAIN b.scopes
  PROVE  /\ b.id \in DOMAIN log /\ j \in DOMAIN log[b.id].scopes
         /\ log[b.id].scopes[j].cap = b.scopes[j].cap
         /\ \A req : Covers(log[b.id].scopes[j], req) <=> Covers(b.scopes[j], req)
<1>1. b.id \in DOMAIN log
  BY DEF Matches, Open, At
<1>2. log[b.id] \in LinkRecords
  BY <1>1, ElementType DEF Logs
<1>3. log[b.id].scopes \in Seq(ScopeRecords) /\ b.scopes \in Seq(ScopeRecords)
  BY <1>2 DEF LinkRecords, BudgetRecords
<1>4. DOMAIN log[b.id].scopes = DOMAIN b.scopes
  BY <1>3 DEF Matches
<1>5. b.scopes[j] \in ScopeRecords
  BY <1>3, ElementType
<1>6. log[b.id].scopes[j] = [b.scopes[j] EXCEPT !.used = 0]
  BY DEF Matches
<1>7. /\ log[b.id].scopes[j].cap = b.scopes[j].cap
      /\ log[b.id].scopes[j].code = b.scopes[j].code
      /\ log[b.id].scopes[j].label = b.scopes[j].label
  BY <1>5, <1>6 DEF ScopeRecords
<1> QED BY <1>1, <1>4, <1>7 DEF Covers

LEMMA BudgetFulfilled ==
  ASSUME NEW b \in BudgetRecords, st.log \in Logs, Matches(st.log, b), Counted(b),
         b.used >= b.uses
  PROVE  Ledger!Fulfilled(b.id)
<1>0. \A j : Ledger!UsesOfScope(st.log, b.id, j) = UsesOfScope(st.log, b.id, j)
  BY SameWords
<1> SUFFICES ASSUME NEW j \in DOMAIN st.log[b.id].scopes
             PROVE  Cardinality(UsesOfScope(st.log, b.id, j)) = st.log[b.id].scopes[j].cap
  BY <1>0, SameCount DEF Ledger!Fulfilled
<1>1. b.id \in DOMAIN st.log
  BY DEF Matches, Open, At
<1>2. st.log[b.id] \in LinkRecords
  BY <1>1, ElementType DEF Logs
<1>3. st.log[b.id].scopes \in Seq(ScopeRecords) /\ b.scopes \in Seq(ScopeRecords)
  BY <1>2 DEF LinkRecords, BudgetRecords
<1>4. j \in DOMAIN b.scopes
  BY <1>3 DEF Matches
<1>5. st.log[b.id].scopes[j].cap = b.scopes[j].cap
  BY <1>4, SameScope
<1>6. b.scopes[j].used = b.scopes[j].cap
  BY <1>4, UsedUp
<1> QED BY <1>4, <1>5, <1>6 DEF Matches

-----------------------------------------------------------------------------
(* The links, one by one. *)

LEMMA EndOK ==
  ASSUME TypeOK, DebtInv, LedgerInv, NEW i \in 1 .. MaxLive, budgets[i].id # 0,
         NEW how \in Hows, end_budget(i, how), UNCHANGED backup,
         GrantCounted(press'), busy' = "settling" => st.debt # 0,
         \/ how = "revoked"
         \/ how = "settled" /\ st.debt # 0
         \/ how = "completed" /\ st.debt = 0 /\ budgets[i].used >= budgets[i].uses
  PROVE  StepOK
<1> DEFINE l == [append("end") EXCEPT !.id = budgets[i].id, !.how = how]
<1>1. append("end") \in LinkRecords /\ budgets[i] \in BudgetRecords /\ budgets[i].id \in Nat
  BY BareLinkType DEF LinkOps, TypeOK, BudgetRecords
<1>2. l \in LinkRecords /\ l.op = "end" /\ l.id = budgets[i].id /\ l.how = how
  BY <1>1 DEF LinkRecords, append
<1>3. weld_in(l) /\ budgets' = [budgets EXCEPT ![i] = NoBudget]
  BY DEF end_budget
<1> HIDE DEF l
<1>4. st \in EdgeRecords /\ st.log \in Logs /\ budgets \in [1 .. MaxLive -> BudgetRecords]
  BY DEF TypeOK, EdgeRecords
<1>5. SlotsMatch(Append(st.log, l), budgets')
  <2>1. NoBudget.id = 0
    BY DEF NoBudget
  <2>2. \A k \in 1 .. MaxLive : k # i /\ budgets[k].id # 0 => l.id # budgets[k].id
    BY <1>2 DEF LedgerInv, SlotsMatch
  <2> QED BY <1>2, <1>3, <1>4, <2>1, <2>2, SlotsWelded DEF LedgerInv
<1>6. Matches(st.log, budgets[i]) /\ Counted(budgets[i])
  BY DEF LedgerInv, SlotsMatch
<1>7. Ledger!MayEnd(l)
  <2>1. Open(st.log, l.id)
    BY <1>2, <1>6 DEF Matches
  <2>2. how = "completed" => Ledger!NoneOwed /\ Ledger!Fulfilled(l.id)
    BY <1>1, <1>2, <1>4, <1>6, BudgetFulfilled, NothingOwed
  <2>3. how = "settled" => ~Ledger!NoneOwed
    BY SomethingOwed
  <2> QED BY <1>2, <2>1, <2>2, <2>3, SameWords DEF Ledger!MayEnd
<1>8. st'.debt = st.debt
  BY <1>2, <1>3, <1>4, WeldType DEF weld_in, state_save, DebtAfter
<1> QED BY <1>2, <1>3, <1>5, <1>7, <1>8, WeldOK DEF Ledger!MayFollow

LEMMA UseOK ==
  ASSUME TypeOK, DebtInv, LedgerInv, pend.budget # 0, budget_for(pend.req) = pend.budget,
         SpendBudget, UNCHANGED <<backup, press>>, busy' # "settling"
  PROVE  StepOK
<1> DEFINE b == budgets[pend.budget]
           j == First(PayingScopes(b, pend.req))
           l == [append("use") EXCEPT !.id = b.id, !.step = b.used + 1,
                   !.scope = j, !.req = pend.req]
<1>1. pend.budget \in 1 .. MaxLive /\ b \in BudgetRecords /\ j \in DOMAIN b.scopes
      /\ l \in LinkRecords
  BY SpendLinkType
<1>2. l.op = "use" /\ l.id = b.id /\ l.step = b.used + 1 /\ l.scope = j /\ l.req = pend.req
  BY DEF append
<1>3. weld_in(l) /\ budgets' = [budgets EXCEPT ![pend.budget] = Spent(b, j)]
  BY DEF SpendBudget
<1>4. st.debt = 0 /\ Payable_now(b) /\ PayingScopes(b, pend.req) # {}
  <2> DEFINE payers == {k \in 1 .. MaxLive :
               Payable_now(budgets[k]) /\ PayingScopes(budgets[k], pend.req) # {}}
  <2>1. payers # {} /\ First(payers) = pend.budget /\ st.debt = 0
    BY DEF budget_for, owes
  <2>2. First(payers) \in payers
    BY <2>1, SlotType
  <2> QED BY <2>1, <2>2
<1>5. j \in PayingScopes(b, pend.req)
  <2>1. b.scopes \in Seq(ScopeRecords)
    BY <1>1 DEF BudgetRecords
  <2>2. PayingScopes(b, pend.req) \in SUBSET Nat
    BY <2>1 DEF PayingScopes
  <2> QED BY <1>4, <2>2, FirstType
<1>6. b.id # 0 /\ b.onHold = FALSE
  BY <1>1, <1>4 DEF Payable_now, alive, BudgetRecords
<1>7. Covers(b.scopes[j], pend.req) /\ b.scopes[j].used < b.scopes[j].cap
  BY <1>5 DEF PayingScopes
<1> HIDE DEF l, j, b
<1>8. Matches(st.log, b) /\ Counted(b)
  BY <1>1, <1>6 DEF LedgerInv, SlotsMatch, b
<1>9. st.log \in Logs /\ budgets \in [1 .. MaxLive -> BudgetRecords]
  BY DEF TypeOK, EdgeRecords
<1>10. SlotsMatch(Append(st.log, l), budgets')
  <2> DEFINE c == Spent(b, j)
  <2>1. Matches(Append(st.log, l), c) /\ Counted(c)
    BY <1>1, <1>2, <1>7, <1>8, <1>9, MatchesSpent, CountedSpent
  <2>2. c.id = budgets[pend.budget].id
    <3>1. Spent(b, j) = [b EXCEPT !.used = b.used + 1,
                            !.scopes = [b.scopes EXCEPT ![j] =
                              [b.scopes[j] EXCEPT !.used = b.scopes[j].used + 1]]]
      BY <1>1, SpentType
    <3> QED BY <1>1, <3>1 DEF BudgetRecords, b
  <2> HIDE DEF c
  <2>3. \A k \in 1 .. MaxLive : k # pend.budget /\ budgets[k].id # 0 => l.id # budgets[k].id
    BY <1>1, <1>2 DEF LedgerInv, SlotsMatch, b
  <2>4. SlotsMatch(Append(st.log, l), [budgets EXCEPT ![pend.budget] = c])
    BY <1>1, <1>2, <1>9, <2>1, <2>2, <2>3, SlotsWelded DEF LedgerInv
  <2> QED BY <1>3, <2>4 DEF c
<1>11. Ledger!MaySpend(l)
  <2>1. /\ b.id \in DOMAIN st.log /\ j \in DOMAIN st.log[b.id].scopes
        /\ st.log[b.id].scopes[j].cap = b.scopes[j].cap
        /\ Covers(st.log[b.id].scopes[j], pend.req)
    BY <1>1, <1>7, <1>8, <1>9, SameScope
  <2>2. Open(st.log, b.id) /\ ~OnHold(st.log, b.id)
    BY <1>6, <1>8 DEF Matches
  <2>3. b.used = Cardinality(UsesOf(st.log, b.id))
        /\ b.scopes[j].used = Cardinality(UsesOfScope(st.log, b.id, j))
    BY <1>1, <1>8 DEF Matches
  <2>4. Ledger!NoneOwed /\ Ledger!Open(st.log, b.id) /\ ~Ledger!OnHold(st.log, b.id)
    BY <1>4, <2>2, NothingOwed, SameWords
  <2>5. l.step = Ledger!Cardinality(Ledger!UsesOf(st.log, b.id)) + 1
    BY <1>2, <2>3, SameWords, SameCount
  <2>6. Ledger!Covers(st.log[b.id].scopes[j], pend.req)
    BY <2>1, SameWords
  <2>7. Ledger!UsesOfScope(st.log, b.id, j) = UsesOfScope(st.log, b.id, j)
    BY SameWords
  <2>8. Ledger!Cardinality(Ledger!UsesOfScope(st.log, b.id, j)) < st.log[b.id].scopes[j].cap
    BY <1>7, <2>1, <2>3, <2>7, SameCount
  <2> QED BY <1>2, <2>1, <2>4, <2>5, <2>6, <2>8 DEF Ledger!MaySpend
<1>12. l.id \in DOMAIN st.log
  BY <1>2, <1>8 DEF Matches, Open, At
<1>13. GrantCounted(press')
  BY DEF LedgerInv
<1> QED BY <1>1, <1>2, <1>3, <1>10, <1>11, <1>12, <1>13, WeldOK DEF Ledger!MayFollow

(* A hold or a resume of the budget in slot i. *)
LEMMA HoldOK ==
  ASSUME TypeOK, DebtInv, LedgerInv, NEW i \in 1 .. MaxLive, budgets[i].id # 0,
         NEW op \in {"hold", "resume"},
         weld_in([append(op) EXCEPT !.id = budgets[i].id]),
         budgets' = [budgets EXCEPT ![i].onHold = (op = "hold")],
         UNCHANGED backup, GrantCounted(press'), busy' # "settling",
         op = "hold" => ~budgets[i].onHold,
         op = "resume" => budgets[i].onHold /\ st.debt = 0
  PROVE  StepOK
<1> DEFINE b == budgets[i]
           l == [append(op) EXCEPT !.id = b.id]
           c == [b EXCEPT !.onHold = (op = "hold")]
<1>1. append(op) \in LinkRecords /\ b \in BudgetRecords /\ b.id \in Nat
      /\ budgets \in [1 .. MaxLive -> BudgetRecords]
      /\ st.log \in Logs
  BY BareLinkType DEF LinkOps, TypeOK, BudgetRecords, EdgeRecords
<1>2. l \in LinkRecords /\ l.op = op /\ l.id = b.id /\ weld_in(l)
  BY <1>1 DEF LinkRecords, append
<1>3. budgets' = [budgets EXCEPT ![i] = c]
  BY <1>1
<1>4. c.id = b.id /\ c.scopes = b.scopes /\ c.uses = b.uses /\ c.used = b.used
  BY <1>1 DEF BudgetRecords
<1>5. Matches(st.log, b) /\ Counted(b)
  BY DEF LedgerInv, SlotsMatch
<1>6. Counted(c)
  BY <1>4, <1>5 DEF Counted
<1>7. Matches(Append(st.log, l), c)
  <2> HIDE DEF l, b
  <2> QED BY <1>1, <1>2, <1>5, MatchesHeld
<1>8. \A k \in 1 .. MaxLive : k # i /\ budgets[k].id # 0 => l.id # budgets[k].id
  BY <1>2 DEF LedgerInv, SlotsMatch
<1> HIDE DEF l, b, c
<1>9. c.id = budgets[i].id
  BY <1>4 DEF b
<1>10. SlotsMatch(Append(st.log, l), budgets')
  <2>1. l.op # "continue" /\ SlotsMatch(st.log, budgets)
    BY <1>2 DEF LedgerInv
  <2>2. SlotsMatch(Append(st.log, l), [budgets EXCEPT ![i] = c])
    BY <1>1, <1>2, <1>6, <1>7, <1>8, <1>9, <2>1, SlotsWelded
  <2> QED BY <1>3, <2>2
<1>11. Open(st.log, l.id) /\ OnHold(st.log, l.id) = budgets[i].onHold /\ l.id \in DOMAIN st.log
  BY <1>2, <1>5 DEF Matches, Open, At, b
<1>12. Ledger!Open(st.log, l.id) /\ (Ledger!OnHold(st.log, l.id) <=> budgets[i].onHold)
  BY <1>11, SameWords
<1>13. Ledger!MayFollow(l)
  BY <1>2, <1>12, NothingOwed DEF Ledger!MayFollow
<1> QED BY <1>2, <1>10, <1>11, <1>13, WeldOK

LEMMA NoGrant == GrantCounted(NoPress)
BY DEF GrantCounted, NoPress

LEMMA KeptGrant == ASSUME LedgerInv PROVE GrantCounted(PressKept)
BY NoGrant DEF PressKept, LedgerInv

LEMMA GrantOK == TypeOK /\ DebtInv /\ LedgerInv /\ grant_pressed => StepOK
<1> SUFFICES ASSUME TypeOK, DebtInv, LedgerInv, grant_pressed PROVE StepOK
  OBVIOUS
<1> DEFINE id == Len(st.log) + 1
           l  == [append("create") EXCEPT !.id = id, !.scopes = press.scopes]
           b  == [id |-> id, scopes |-> press.scopes, uses |-> press.uses,
                  used |-> 0, onHold |-> FALSE, opened |-> millis,
                  life |-> press.life, openedAt |-> now]
           i  == First(FreeSlots)
<1>1. id \in Nat /\ press \in PressRecords /\ append("create") \in LinkRecords
      /\ st.log \in Logs /\ budgets \in [1 .. MaxLive -> BudgetRecords]
  BY LogLength, BareLinkType DEF TypeOK, LinkOps, EdgeRecords
<1>2. press.scopes \in Seq(ScopeRecords)
  BY <1>1 DEF PressRecords
<1>3. l \in LinkRecords /\ l.op = "create" /\ l.id = id /\ l.scopes = press.scopes
  <2> HIDE DEF id
  <2> QED BY <1>1, <1>2 DEF LinkRecords, append
<1>4. weld_in(l) /\ budgets' = [budgets EXCEPT ![i] = b] /\ st.debt = 0
      /\ UNCHANGED <<backup, busy>> /\ busy = "idle" /\ press' = NoPress
      /\ press.what = "grant" /\ FreeSlots # {}
  BY DEF grant_pressed, GrantStands, owes, Deciding, Pressed, outside
<1>5. i \in 1 .. MaxLive
  BY <1>4, SlotType DEF FreeSlots
<1>6. press.uses = SumCaps(press.scopes)
      /\ \A j \in DOMAIN press.scopes : press.scopes[j].used = 0
  BY <1>4 DEF LedgerInv, GrantCounted
<1>7. b.id = id /\ b.scopes = press.scopes /\ b.uses = press.uses /\ b.used = 0
      /\ b.onHold = FALSE
  OBVIOUS
<1>8. Matches(Append(st.log, l), b) /\ Counted(b)
  <2> HIDE DEF l, b
  <2>1. IdsPast(st.log)
    BY DEF LedgerInv
  <2> QED BY <1>1, <1>2, <1>3, <1>6, <1>7, <2>1, MatchesOpened, CountedOpened
<1> HIDE DEF l, b, i
<1>9. SlotsMatch(Append(st.log, l), budgets')
  <2>1. l.op \notin {"end", "use", "hold", "resume"} /\ l.op # "continue"
    BY <1>3
  <2> QED BY <1>1, <1>3, <1>4, <1>5, <1>7, <1>8, <2>1, SlotsWelded DEF LedgerInv
<1>10. Ledger!MayFollow(l)
  BY <1>3, <1>4, NothingOwed DEF Ledger!MayFollow
<1> QED BY <1>3, <1>4, <1>9, <1>10, NoGrant, WeldOK

LEMMA ReceiptOK ==
  ASSUME TypeOK, DebtInv, LedgerInv, NEW how \in {"answered", "settled"},
         weld_in([append("receipt") EXCEPT !.id = st.debt, !.how = how]), st.debt # 0,
         UNCHANGED <<backup, budgets>>, GrantCounted(press'), busy' # "settling"
  PROVE  StepOK
<1> DEFINE l == [append("receipt") EXCEPT !.id = st.debt, !.how = how]
<1>1. append("receipt") \in LinkRecords /\ st.debt \in Nat /\ how \in Hows /\ st.log \in Logs
  BY BareLinkType DEF LinkOps, TypeOK, EdgeRecords, Hows
<1>2. l \in LinkRecords /\ l.op = "receipt" /\ l.id = st.debt /\ weld_in(l)
  BY <1>1 DEF LinkRecords, append
<1> HIDE DEF l
<1>3. SlotsMatch(Append(st.log, l), budgets')
  BY <1>1, <1>2, SlotsStay DEF LedgerInv
<1>4. st.debt \in Unpaid(st.log)
  BY DEF DebtInv, DebtIs
<1>5. Ledger!MayFollow(l)
  BY <1>2, <1>4, SameWords DEF Ledger!MayFollow
<1> QED BY <1>2, <1>3, <1>5, WeldOK

LEMMA LossOK == TypeOK /\ DebtInv /\ LedgerInv /\ loss_pressed => StepOK
<1> SUFFICES ASSUME TypeOK, DebtInv, LedgerInv, loss_pressed PROVE StepOK
  OBVIOUS
<1> DEFINE n == loss_subject(press.to)
           l == [append("loss") EXCEPT !.id = press.id, !.step = n]
<1>1. append("loss") \in LinkRecords /\ press.id \in Nat /\ st.log \in Logs
      /\ press.to \in Nat /\ Len(st.log) \in Nat /\ DOMAIN st.log = 1 .. Len(st.log)
  BY LogLength, BareLinkType DEF LinkOps, TypeOK, EdgeRecords, PressRecords, Logs
<1>2. n \in Nat /\ n \in {0} \union DOMAIN st.log
  BY <1>1 DEF loss_subject
<1> HIDE DEF n
<1>3. l \in LinkRecords /\ l.op = "loss" /\ l.step = n
  BY <1>1, <1>2 DEF LinkRecords, append
<1>4. weld_in(l) /\ UNCHANGED <<backup, budgets, busy>> /\ press' = NoPress /\ busy = "idle"
  BY DEF loss_pressed, outside, n, Deciding
<1> HIDE DEF l
<1>5. SlotsMatch(Append(st.log, l), budgets')
  BY <1>1, <1>3, <1>4, SlotsStay DEF LedgerInv
<1>6. Ledger!MayFollow(l)
  BY <1>2, <1>3 DEF Ledger!MayFollow
<1> QED BY <1>3, <1>4, <1>5, <1>6, NoGrant, WeldOK

-----------------------------------------------------------------------------
(* Every step. *)

LEMMA CreateAsked ==
  ASSUME TypeOK, LedgerInv, NEW g \in Grants, NEW h \in HostHeads, grant_create(g, h)
  PROVE  GrantCounted(press')
<1> DEFINE p == [NoPress EXCEPT !.what = "grant", !.since = millis, !.verified = h,
                   !.scopes = ScopesOf(g), !.uses = g.uses, !.life = g.life]
<1>1. CASE press' = NoPress
  BY <1>1, NoGrant
<1>2. CASE GrantAllowed(g) /\ press' = p
  <2>1. g.scopes \in Seq([code : Codes, cap : Nat]) /\ g.uses = SumCaps(g.scopes)
    BY GrantsAssumption
  <2>2. Len(ScopesOf(g)) = Len(g.scopes) /\ ScopesOf(g) \in Seq(ScopeRecords)
    BY <1>2, ScopesOfType
  <2>3. \A j \in DOMAIN g.scopes : ScopesOf(g)[j].cap = g.scopes[j].cap /\ ScopesOf(g)[j].used = 0
    BY DEF ScopesOf
  <2>4. DOMAIN g.scopes = 1 .. Len(g.scopes) /\ Len(g.scopes) \in Nat
        /\ \A j \in DOMAIN g.scopes : g.scopes[j].cap \in Nat
    <3>1. \A j \in DOMAIN g.scopes : g.scopes[j] \in [code : Codes, cap : Nat]
      BY <2>1, ElementType
    <3> QED BY <2>1, <3>1
  <2>5. Capped(g.scopes) /\ Capped(ScopesOf(g))
    BY <2>2, <2>4, ScopesCapped DEF Capped
  <2>6. SumCaps(ScopesOf(g)) = SumCaps(g.scopes)
    BY <2>2, <2>3, <2>4, <2>5, SumsEqual
  <2>7. press'.uses = g.uses /\ press'.scopes = ScopesOf(g)
    BY <1>2 DEF NoPress
  <2>8. DOMAIN ScopesOf(g) = DOMAIN g.scopes
    BY DEF ScopesOf
  <2> QED BY <2>1, <2>3, <2>6, <2>7, <2>8 DEF GrantCounted
<1> QED BY <1>1, <1>2 DEF grant_create, press_wait

LEMMA RequestOK == TypeOK /\ DebtInv /\ LedgerInv /\ Request => StepOK
<1> SUFFICES ASSUME TypeOK, DebtInv, LedgerInv, Request PROVE StepOK
  OBVIOUS
<1>1. ASSUME NEW i \in 1 .. MaxLive, grant_revoke(i) PROVE StepOK
  <2>1. /\ end_budget(i, "revoked") /\ budgets[i].id # 0 /\ UNCHANGED <<backup, busy>>
        /\ press' = PressKept /\ busy = "idle" /\ "revoked" \in Hows
    BY <1>1 DEF grant_revoke, alive, outside, Recv, Hows
  <2> QED BY <2>1, EndOK, KeptGrant
<1>2. ASSUME NEW i \in 1 .. MaxLive, grant_hold(i) PROVE StepOK
  <2>1. /\ weld_in([append("hold") EXCEPT !.id = budgets[i].id]) /\ budgets[i].id # 0
        /\ UNCHANGED <<backup, busy>> /\ press' = PressKept /\ busy = "idle"
        /\ ~budgets[i].onHold
    BY <1>2 DEF grant_hold, alive, outside, Recv
  <2>2. budgets' = [budgets EXCEPT ![i].onHold = ("hold" = "hold")]
    BY <1>2 DEF grant_hold
  <2> QED BY <2>1, <2>2, HoldOK, KeptGrant
<1>3. CASE receipt
  <2>1. /\ weld_in([append("receipt") EXCEPT !.id = st.debt, !.how = "answered"])
        /\ st.debt # 0 /\ UNCHANGED <<backup, budgets>> /\ press' = PressKept
        /\ busy' # "settling"
    BY <1>3 DEF receipt, outside, owes
  <2> QED BY <2>1, ReceiptOK, KeptGrant
<1>4. ASSUME NEW g \in Grants, NEW h \in HostHeads, grant_create(g, h) PROVE StepOK
  <2>1. UNCHANGED <<st, backup, budgets, busy>> /\ busy = "idle"
    BY <1>4 DEF grant_create, record, outside, Recv
  <2> QED BY <1>4, <2>1, CreateAsked, QuietOK
<1>5. CASE \/ Query \/ settle \/ primed_other
           \/ \E j \in 1 .. MaxScopes, l \in Labels : grant_label(j, l)
           \/ \E i \in 1 .. MaxLive, h \in HostHeads : grant_resume(budgets[i].id, h)
           \/ \E h \in HostHeads, r \in Requests : tx_start(h, r)
           \/ \E r \in Ranges : loss(r)
           \/ \E r \in Requests, asks \in BOOLEAN : okplugin_edge_primed(r, asks)
  <2>1. UNCHANGED <<st, backup, budgets, busy>> /\ busy = "idle"
    BY <1>5 DEF Query, settle, primed_other, grant_label, grant_resume, tx_start, loss,
                okplugin_edge_primed, record, outside, Recv
  <2>2. press' \in {press, PressKept} \/ press'.what # "grant"
    <3>1. CASE Query \/ primed_other \/ (\E j \in 1 .. MaxScopes, l \in Labels : grant_label(j, l))
               \/ (\E h \in HostHeads, r \in Requests : tx_start(h, r))
               \/ (\E r \in Requests, asks \in BOOLEAN : okplugin_edge_primed(r, asks))
      BY <3>1 DEF Query, primed_other, grant_label, tx_start, okplugin_edge_primed
    <3>2. CASE settle
      <4> DEFINE p == [NoPress EXCEPT !.what = "settle", !.since = millis]
      <4>1. p.what = "settle" /\ NoPress.what = "none"
        BY DEF NoPress
      <4> HIDE DEF p
      <4>2. press' = p \/ press' = NoPress
        BY <3>2 DEF settle, press_wait, p
      <4> QED BY <4>1, <4>2
    <3>3. ASSUME NEW i \in 1 .. MaxLive, NEW h \in HostHeads, grant_resume(budgets[i].id, h)
          PROVE  press'.what # "grant"
      <4> DEFINE p == [NoPress EXCEPT !.what = "resume", !.since = millis, !.verified = h,
                         !.id = budgets[i].id]
      <4>1. p.what = "resume" /\ NoPress.what = "none"
        BY DEF NoPress
      <4> HIDE DEF p
      <4>2. press' = p \/ press' = NoPress
        BY <3>3 DEF grant_resume, press_wait, p
      <4> QED BY <4>1, <4>2
    <3>4. ASSUME NEW r \in Ranges, loss(r) PROVE press'.what # "grant"
      <4> DEFINE p == [NoPress EXCEPT !.what = "loss", !.since = millis,
                         !.id = r.from, !.to = r.to]
      <4>1. p.what = "loss" /\ NoPress.what = "none"
        BY DEF NoPress
      <4> HIDE DEF p
      <4>2. press' = p \/ press' = NoPress
        BY <3>4 DEF loss, press_wait, p
      <4> QED BY <4>1, <4>2
    <3> QED BY <1>5, <3>1, <3>2, <3>3, <3>4
  <2>3. GrantCounted(press')
    BY <2>2, KeptGrant DEF GrantCounted, LedgerInv
  <2> QED BY <2>1, <2>3, QuietOK
<1> QED BY <1>1, <1>2, <1>3, <1>4, <1>5 DEF Request

LEMMA ResumeOK == TypeOK /\ DebtInv /\ LedgerInv /\ resume_pressed => StepOK
<1> SUFFICES ASSUME TypeOK, DebtInv, LedgerInv, resume_pressed PROVE StepOK
  OBVIOUS
<1> DEFINE i == First(live_budget(press.id))
<1>1. live_budget(press.id) # {} /\ st.debt = 0 /\ budgets[i].onHold
      /\ budgets' = [budgets EXCEPT ![i].onHold = FALSE]
      /\ weld_in([append("resume") EXCEPT !.id = press.id])
      /\ press' = NoPress /\ UNCHANGED <<backup, busy>> /\ busy = "idle"
  BY DEF resume_pressed, ResumeStands, owes, Deciding, outside
<1>2. live_budget(press.id) \in SUBSET (1 .. MaxLive)
  BY DEF live_budget, AliveSlots
<1>3. i \in live_budget(press.id) /\ i \in 1 .. MaxLive
  BY <1>1, <1>2, SlotType
<1>4. budgets[i].id = press.id /\ budgets[i].id # 0
  BY <1>3 DEF live_budget, AliveSlots, alive
<1> HIDE DEF i
<1>5. budgets' = [budgets EXCEPT ![i].onHold = ("resume" = "hold")]
  BY <1>1
<1>6. weld_in([append("resume") EXCEPT !.id = budgets[i].id])
  BY <1>1, <1>4
<1> QED BY <1>1, <1>3, <1>4, <1>5, <1>6, HoldOK, NoGrant

LEMMA DecisionOK == TypeOK /\ DebtInv /\ LedgerInv /\ Decision => StepOK
<1> SUFFICES ASSUME TypeOK, DebtInv, LedgerInv, Decision PROVE StepOK
  OBVIOUS
<1>1. CASE RunUnpressed
  <2>0. UNCHANGED <<backup, press>> /\ busy' # "settling"
    BY <1>1 DEF RunUnpressed, outside
  <2>1. CASE pend.budget # 0 /\ budget_for(pend.req) = pend.budget /\ SpendBudget
    BY <2>0, <2>1, UseOK
  <2>2. CASE UNCHANGED <<st, budgets>>
    BY <2>0, <2>2, QuietOK DEF LedgerInv
  <2> QED BY <1>1, <2>1, <2>2 DEF RunUnpressed, SpendBudget, record
<1>2. CASE settle_pressed
  <2>1. UNCHANGED <<st, backup, budgets>> /\ press' = NoPress /\ st.debt # 0
    BY <1>2 DEF settle_pressed, record, outside, owes
  <2> QED BY <2>1, QuietOK, NoGrant
<1>3. CASE DecideOrdinary \/ DropDecision
  <2>1. UNCHANGED <<st, backup, budgets, busy>> /\ press' \in {press, NoPress} /\ busy = "idle"
    BY <1>3 DEF DecideOrdinary, DropDecision, record, outside
  <2> QED BY <2>1, QuietOK, NoGrant DEF LedgerInv
<1> QED BY <1>1, <1>2, <1>3, GrantOK, ResumeOK, LossOK DEF Decision

LEMMA ContinuationOK == TypeOK /\ DebtInv /\ LedgerInv /\ Continuation => StepOK
<1> SUFFICES ASSUME TypeOK, DebtInv, LedgerInv, Continuation PROVE StepOK
  OBVIOUS
<1>0. GrantCounted(press)
  BY DEF LedgerInv
<1>1. CASE complete_fulfilled
  <2>0. UNCHANGED <<backup, press>> /\ busy' # "settling"
    BY <1>1 DEF complete_fulfilled, outside
  <2>1. CASE ~owes /\ FulfilledSlots # {} /\ end_budget(First(FulfilledSlots), "completed")
    <3> DEFINE i == First(FulfilledSlots)
    <3>1. i \in FulfilledSlots /\ i \in 1 .. MaxLive /\ "completed" \in Hows
      BY <2>1, SlotType DEF FulfilledSlots, AliveSlots, Hows
    <3>2. budgets[i].id # 0 /\ budgets[i].used >= budgets[i].uses /\ st.debt = 0
      BY <2>1, <3>1 DEF FulfilledSlots, AliveSlots, alive, owes
    <3> HIDE DEF i
    <3>3. end_budget(i, "completed")
      BY <2>1 DEF i
    <3> QED BY <1>0, <2>0, <3>1, <3>2, <3>3, EndOK
  <2>2. CASE UNCHANGED <<st, budgets>>
    BY <1>0, <2>0, <2>2, QuietOK
  <2> QED BY <1>1, <2>1, <2>2 DEF complete_fulfilled, record
<1>2. CASE SettleStep
  <2>0. UNCHANGED <<backup, press>> /\ st.debt # 0
    BY <1>2 DEF SettleStep, outside, LedgerInv
  <2>1. CASE AliveSlots # {} /\ end_budget(First(AliveSlots), "settled")
    <3> DEFINE i == First(AliveSlots)
    <3>1. i \in AliveSlots /\ i \in 1 .. MaxLive /\ "settled" \in Hows
      BY <2>1, SlotType DEF AliveSlots, Hows
    <3>2. budgets[i].id # 0
      BY <3>1 DEF AliveSlots, alive
    <3> HIDE DEF i
    <3>3. end_budget(i, "settled")
      BY <2>1 DEF i
    <3> QED BY <1>0, <2>0, <3>1, <3>2, <3>3, EndOK
  <2>2. CASE /\ weld_in([append("receipt") EXCEPT !.id = st.debt, !.how = "settled"])
             /\ busy' = "idle" /\ UNCHANGED budgets
    BY <1>0, <2>0, <2>2, ReceiptOK
  <2> QED BY <1>2, <2>1, <2>2 DEF SettleStep
<1>3. CASE Release
  <2>1. UNCHANGED <<st, backup, budgets, press>> /\ busy' # "settling"
    BY <1>3 DEF Release, record, outside
  <2> QED BY <1>0, <2>1, QuietOK
<1> QED BY <1>1, <1>2, <1>3 DEF Continuation

LEMMA LifecycleOK == TypeOK /\ DebtInv /\ LedgerInv /\ Lifecycle => StepOK
<1> SUFFICES ASSUME TypeOK, DebtInv, LedgerInv, Lifecycle PROVE StepOK
  OBVIOUS
<1>0. st \in EdgeRecords /\ st.log \in Logs
  BY DEF TypeOK, EdgeRecords
<1>1. CASE DrawSalt
  <2>1. /\ st'.log = st.log /\ st'.debt = st.debt /\ busy' # "settling"
        /\ st'.cont = st.cont
        /\ UNCHANGED <<backup, budgets, press>>
    BY <1>0, <1>1 DEF DrawSalt, state_save, EdgeRecords
  <2> QED BY <2>1 DEF StepOK, LedgerInv
<1>2. CASE Identify
  <2>0. UNCHANGED <<backup, press>> /\ busy' = "idle"
    BY <1>2 DEF Identify, outside
  <2>1. CASE UNCHANGED <<st, budgets>>
    BY <2>0, <2>1, QuietOK DEF LedgerInv
  <2>2. CASE st.cont /\ write_continue
    <3> DEFINE l == [append("continue") EXCEPT !.id = IF owes THEN 1 ELSE 0]
    <3>1. append("continue") \in LinkRecords
      BY BareLinkType DEF LinkOps
    <3>2. l \in LinkRecords /\ l.op = "continue"
      BY <3>1 DEF LinkRecords, append
    <3>3. st' = [Weld(st, l) EXCEPT !.cont = FALSE] /\ budgets' = NoBudgets
      BY <2>2 DEF write_continue, state_save
    <3> HIDE DEF l
    <3>4. st'.log = Append(st.log, l)
      BY <1>0, <3>2, <3>3, WeldType DEF EdgeRecords
    <3>5. IdsPast(Append(st.log, l))
      BY <1>0, <3>2, IdsPastAfter DEF LedgerInv
    <3>6. Len(st'.log) = Len(st.log) + 1 /\ st'.log[Len(st'.log)] = l
          /\ Len(st.log) \in Nat
      BY <1>0, <3>2, <3>4, AppendedLog
    <3>7. LedgerInv'
      <4>1. st'.log # << >>
        BY <3>6
      <4> QED BY <2>0, <3>3, <3>4, <3>5, <4>1, SlotsEmpty DEF LedgerInv
    <3>8. Ledger!MayFollow(l)
      BY <2>2, <3>2 DEF Ledger!MayFollow, LedgerInv
    <3>9. Ledger!Extend
      BY <2>0, <3>4, <3>6, <3>8 DEF Ledger!Extend
    <3> QED BY <3>7, <3>9 DEF StepOK, Ledger!LedgerNext
  <2> QED BY <1>2, <2>1, <2>2 DEF Identify, record
<1>3. CASE okplugin_edge_backup
  <2>1. backup'.log = st.log /\ UNCHANGED <<st, budgets, press, busy>>
    BY <1>3 DEF okplugin_edge_backup, record
  <2>2. LedgerInv'
    BY <2>1 DEF LedgerInv
  <2>3. Ledger!Save
    BY <2>1 DEF Ledger!Save
  <2> QED BY <2>2, <2>3 DEF StepOK, Ledger!LedgerNext
<1>4. CASE okplugin_edge_restore
  <2>1. st'.log = backup.log /\ backup.log # << >> /\ budgets' = NoBudgets /\ UNCHANGED <<backup, press>>
        /\ busy' = "idle"
    BY <1>4 DEF okplugin_edge_restore, state_save, outside
  <2>2. LedgerInv'
    BY <2>1, SlotsEmpty DEF LedgerInv
  <2>3. Ledger!Resume
    BY <2>1 DEF Ledger!Resume
  <2> QED BY <2>2, <2>3 DEF StepOK, Ledger!LedgerNext
<1>5. CASE okplugin_edge_wipe
  <2>1. st'.log = << >> /\ st'.cont = FALSE /\ budgets' = NoBudgets /\ UNCHANGED backup /\ press' = NoPress
        /\ busy' = "idle"
    BY <1>5 DEF okplugin_edge_wipe, state_save, Boot, EmptyRecord
  <2>2. LedgerInv'
    BY <2>1, SlotsEmpty, NoGrant DEF LedgerInv, IdsPast
  <2>3. Ledger!Forget
    BY <2>1 DEF Ledger!Forget
  <2> QED BY <2>2, <2>3 DEF StepOK, Ledger!LedgerNext
<1>6. CASE Restart
  <2>1. UNCHANGED <<st, backup>> /\ budgets' = NoBudgets /\ press' = NoPress /\ busy' = "idle"
    BY <1>6 DEF Restart, Boot, DebtInv
  <2> QED BY <2>1, QuietOK, NoGrant
<1>7. CASE Unlock \/ EnterConfig
  <2>1. UNCHANGED <<st, backup, budgets, press, busy>>
    BY <1>7 DEF Unlock, EnterConfig, record, outside
  <2> QED BY <2>1, QuietOK DEF LedgerInv
<1> QED BY <1>1, <1>2, <1>3, <1>4, <1>5, <1>6, <1>7 DEF Lifecycle

LEMMA StepLedger == TypeOK /\ DebtInv /\ LedgerInv /\ [Next]_vars => StepOK
<1>1. LedgerInv /\ (Tick \/ UNCHANGED vars) => StepOK
  <2>1. Tick \/ UNCHANGED vars => UNCHANGED <<st, backup, budgets, press, busy>>
    BY DEF Tick, vars
  <2> QED BY <2>1, QuietOK DEF LedgerInv
<1> QED BY <1>1, RequestOK, DecisionOK, ContinuationOK, LifecycleOK DEF Next

LEMMA InitLedger == Init => LedgerInv /\ Ledger!LedgerInit
BY SlotsEmpty, NoGrant
   DEF Init, LedgerInv, EmptyRecord, NoBackup, IdsPast, Ledger!LedgerInit

LEMMA LedgerAlways == Spec => []LedgerInv
<1>1. TypeOK /\ DebtInv /\ LedgerInv /\ [Next]_vars => LedgerInv'
  BY StepLedger DEF StepOK
<1> QED BY <1>1, InitLedger, DebtTyped, PTL DEF Spec

(* However requests, presses, crashes and restores interleave, every budget *)
(* in RAM is the one its chain tells of: opened there, still open, with the *)
(* uses - in all and by scope - and the hold that the links since show.     *)
THEOREM BudgetsAreTheChains == Spec => []BudgetsMatchChain
<1>1. LedgerInv => BudgetsMatchChain
  BY DEF LedgerInv, SlotsMatch, Matches, BudgetsMatchChain, BudgetMatchesChain
<1> QED BY <1>1, LedgerAlways, PTL

(* The key implements the ledger: each step of it adds one link the rules   *)
(* of the chain allow, saves, restores or forgets a chain, or leaves both.  *)
THEOREM LedgerIsKept == Spec => LedgerKept
<1>1. TypeOK /\ DebtInv /\ LedgerInv /\ [Next]_vars
        => [Ledger!LedgerNext]_Ledger!ledgerVars
  BY StepLedger DEF StepOK, Ledger!ledgerVars
<1> QED BY <1>1, InitLedger, LedgerAlways, DebtTyped, PTL
        DEF Spec, LedgerKept, Ledger!LedgerSpec

-----------------------------------------------------------------------------
(***************************************************************************)
(* Only narrow budgets open: what waits for its press was checked when it  *)
(* was asked for, and what is linked is what waited.                       *)
(***************************************************************************)

Narrow(scopes) ==
  /\ Len(scopes) \in 1 .. MaxScopes /\ SumCaps(scopes) <= MaxUses
  /\ \A j \in DOMAIN scopes :
       /\ scopes[j].code \in Payable /\ scopes[j].cap >= 1
       /\ scopes[j].code \in Derived => scopes[j].label # NoLabel

NarrowLog(log) == \A k \in At(log, "create") : Narrow(log[k].scopes)

NarrowInv ==
  /\ NarrowLog(st.log) /\ NarrowLog(backup.log)
  /\ press.what = "grant" => Narrow(press.scopes)

LEMMA NarrowAsked ==
  ASSUME TypeOK, LedgerInv, NEW g \in Grants, NEW h \in HostHeads, grant_create(g, h)
  PROVE  press'.what = "grant" => Narrow(press'.scopes)
<1> DEFINE p == [NoPress EXCEPT !.what = "grant", !.since = millis, !.verified = h,
                   !.scopes = ScopesOf(g), !.uses = g.uses, !.life = g.life]
<1>1. CASE press' = NoPress
  BY <1>1 DEF NoPress
<1>2. CASE GrantAllowed(g) /\ press' = p
  <2>1. press'.uses = g.uses /\ press'.scopes = ScopesOf(g) /\ press'.what = "grant"
    BY <1>2 DEF NoPress
  <2>2. Len(ScopesOf(g)) = Len(g.scopes)
    BY <1>2, ScopesOfType
  <2>3. SumCaps(ScopesOf(g)) <= MaxUses
    BY <1>2, <2>1, CreateAsked DEF GrantCounted, GrantAllowed
  <2>4. DOMAIN ScopesOf(g) = DOMAIN g.scopes
        /\ \A j \in DOMAIN g.scopes :
             /\ ScopesOf(g)[j].code = g.scopes[j].code
             /\ ScopesOf(g)[j].cap = g.scopes[j].cap
             /\ g.scopes[j].code \in Derived => ScopesOf(g)[j].label = staged.labels[j]
    BY DEF ScopesOf
  <2>5. /\ Len(g.scopes) \in 1 .. MaxScopes
        /\ \A j \in DOMAIN g.scopes :
             /\ g.scopes[j].code \in Payable /\ g.scopes[j].cap >= 1
             /\ g.scopes[j].code \in Derived => staged.labels[j] # NoLabel
    BY <1>2 DEF GrantAllowed
  <2> QED BY <2>1, <2>2, <2>3, <2>4, <2>5 DEF Narrow
<1> QED BY <1>1, <1>2 DEF grant_create, press_wait

LEMMA NarrowPress ==
  TypeOK /\ LedgerInv /\ NarrowInv /\ [Next]_vars =>
    (press'.what = "grant" => Narrow(press'.scopes))
<1> SUFFICES ASSUME TypeOK, LedgerInv, NarrowInv, [Next]_vars
             PROVE  press'.what = "grant" => Narrow(press'.scopes)
  OBVIOUS
<1>1. ASSUME press' = press \/ press'.what # "grant"
      PROVE  press'.what = "grant" => Narrow(press'.scopes)
  BY <1>1 DEF NarrowInv
<1>2. NoPress.what # "grant" /\ (PressKept = press \/ PressKept = NoPress)
  BY DEF NoPress, PressKept
<1>3. CASE Request
  <2>1. ASSUME NEW g \in Grants, NEW h \in HostHeads, grant_create(g, h)
        PROVE  press'.what = "grant" => Narrow(press'.scopes)
    BY <2>1, NarrowAsked
  <2>2. CASE \/ Query \/ settle \/ primed_other \/ receipt
             \/ \E j \in 1 .. MaxScopes, l \in Labels : grant_label(j, l)
             \/ \E i \in 1 .. MaxLive : grant_revoke(i) \/ grant_hold(i)
             \/ \E i \in 1 .. MaxLive, h \in HostHeads : grant_resume(budgets[i].id, h)
             \/ \E h \in HostHeads, r \in Requests : tx_start(h, r)
             \/ \E r \in Ranges : loss(r)
             \/ \E r \in Requests, asks \in BOOLEAN : okplugin_edge_primed(r, asks)
    <3>1. \/ press' \in {press, NoPress, PressKept}
          \/ press'.what \in {"resume", "settle", "loss"}
      BY <2>2 DEF Query, settle, primed_other, receipt, grant_label, grant_revoke,
                  grant_hold, grant_resume, tx_start, loss, okplugin_edge_primed,
                  press_wait, NoPress
    <3> QED BY <1>1, <1>2, <3>1
  <2> QED BY <1>3, <2>1, <2>2 DEF Request
<1>4. CASE Decision \/ Continuation
  <2>1. press' \in {press, NoPress}
    BY <1>4 DEF Decision, Continuation, RunUnpressed, DecideOrdinary, grant_pressed,
                resume_pressed, settle_pressed, loss_pressed, DropDecision,
                complete_fulfilled, SettleStep, Release
  <2> QED BY <1>1, <1>2, <2>1
<1>5. CASE Lifecycle \/ Tick \/ UNCHANGED vars
  <2>1. press' \in {press, NoPress}
    BY <1>5 DEF Lifecycle, DrawSalt, Identify, okplugin_edge_backup,
                okplugin_edge_restore, okplugin_edge_wipe, Restart, Boot, Unlock,
                EnterConfig, Tick, vars
  <2> QED BY <1>1, <1>2, <2>1
<1> QED BY <1>3, <1>4, <1>5 DEF Next

LEMMA BackupStep ==
  [Next]_vars => backup'.log = backup.log \/ backup'.log = st.log
<1> SUFFICES ASSUME [Next]_vars PROVE backup'.log = backup.log \/ backup'.log = st.log
  OBVIOUS
<1>1. Request => UNCHANGED backup
  BY DEF Request, outside, Query, receipt, settle, primed_other, grant_label,
         grant_create, grant_revoke, grant_hold, grant_resume, tx_start, loss,
         okplugin_edge_primed
<1>2. Decision \/ Continuation => UNCHANGED backup
  BY DEF Decision, Continuation, outside, RunUnpressed, DecideOrdinary, grant_pressed,
         resume_pressed, settle_pressed, loss_pressed, DropDecision,
         complete_fulfilled, SettleStep, Release
<1>3. Lifecycle \/ Tick \/ UNCHANGED vars => UNCHANGED backup \/ backup'.log = st.log
  BY DEF Lifecycle, DrawSalt, Identify, okplugin_edge_backup, okplugin_edge_restore,
         okplugin_edge_wipe, Restart, Unlock, EnterConfig, Tick, vars, outside
<1> QED BY <1>1, <1>2, <1>3 DEF Next

LEMMA StepNarrow ==
  TypeOK /\ DebtInv /\ LedgerInv /\ NarrowInv /\ [Next]_vars => NarrowInv'
<1> SUFFICES ASSUME TypeOK, DebtInv, LedgerInv, NarrowInv, [Next]_vars PROVE NarrowInv'
  OBVIOUS
<1>1. NarrowLog(backup'.log)
  BY BackupStep DEF NarrowInv
<1>2. NarrowLog(st'.log)
  <2>1. CASE st'.log \in {st.log, << >>, backup.log}
    BY <2>1 DEF NarrowInv, NarrowLog, At
  <2>2. ASSUME NEW l \in LinkRecords, LinksWell(l) PROVE NarrowLog(st'.log)
    <3>1. st.log \in Logs /\ st'.log = Append(st.log, l) /\ NarrowLog(st.log)
      BY <2>2 DEF LinksWell, Links, TypeOK, EdgeRecords, NarrowInv
    <3>2. l.op = "create" => Narrow(l.scopes)
      BY <2>2 DEF LinksWell, NarrowInv
    <3>3. ASSUME NEW k \in At(st'.log, "create") PROVE Narrow(st'.log[k].scopes)
      <4>1. k \in 1 .. Len(st.log) + 1 /\ st'.log[k].op = "create"
        BY <3>1, AppendedLog DEF At
      <4>2. CASE k = Len(st.log) + 1
        BY <3>1, <3>2, <4>1, <4>2, AppendedLog
      <4>3. CASE k \in 1 .. Len(st.log)
        <5>1. st'.log[k] = st.log[k] /\ k \in DOMAIN st.log
          BY <3>1, <4>3, AppendedLog
        <5> QED BY <3>1, <4>1, <5>1 DEF NarrowLog, At
      <4>4. Len(st.log) \in Nat
        BY <3>1 DEF Logs
      <4> QED BY <4>1, <4>2, <4>3, <4>4
    <3> QED BY <3>3 DEF NarrowLog
  <2> QED BY <2>1, <2>2, StepLinks DEF NewDevice, NoDevice
<1> QED BY <1>1, <1>2, NarrowPress DEF NarrowInv

LEMMA NarrowAlways == Spec => []NarrowInv
<1>1. Init => NarrowInv
  BY DEF Init, NarrowInv, NarrowLog, At, EmptyRecord, NoBackup, NoPress
<1> QED BY <1>1, StepNarrow, LedgerAlways, DebtTyped, PTL DEF Spec

(* However labels are staged, grants asked for and presses awaited, only    *)
(* narrow budgets open: spendable codes, a named identity on a derived one, *)
(* at least one use and no more than allowed.                               *)
THEOREM BudgetsAreNarrow == Spec => []OnlyNarrowBudgetsOpen
<1>1. NarrowInv => OnlyNarrowBudgetsOpen
  BY DEF NarrowInv, NarrowLog, Narrow, OnlyNarrowBudgetsOpen
<1> QED BY <1>1, NarrowAlways, PTL

-----------------------------------------------------------------------------
(***************************************************************************)
(* Lifetimes.  A budget's age is counted in milliseconds modulo Wrap, so a *)
(* budget that died is alive again once the clock has gone round: what     *)
(* follows is proved for a key that does not stay up that long (2^32 ms is *)
(* 49.7 days), and EdgeKeyWrap shows what becomes of it otherwise.         *)
(***************************************************************************)
NoWrap == MaxNow \in 1 .. Wrap - 1

LEMMA SmallRemainder ==
  ASSUME NEW w \in Nat \ {0}, NEW x \in Nat, x < w PROVE x % w = x
<1> DEFINE q == x \div w
           r == x % w
<1>1. x = w * q + r /\ q \in Nat /\ r \in 0 .. w - 1
  BY Division
<1> HIDE DEF q, r
<1>2. 0 < w * q => FALSE
  BY <1>1, Gap
<1> QED BY <1>1, <1>2 DEF r

AliveAt(n, b) == b.id # 0 /\ ((n % Wrap) - b.opened) % Wrap <= b.life

LEMMA AliveNow == \A b : alive(b) <=> AliveAt(now, b)
BY DEF alive, AliveAt, Since32, millis

(* With no wrap, alive is what it should be. *)
LEMMA AliveIs ==
  ASSUME NoWrap, NEW n \in 1 .. MaxNow, NEW b \in BudgetRecords, b.opened <= n
  PROVE  AliveAt(n, b) <=> b.id # 0 /\ n - b.opened <= b.life
<1>1. /\ Wrap \in Nat \ {0} /\ MaxNow \in Nat /\ n \in Nat /\ n < Wrap
      /\ b.opened \in Nat /\ b.life \in Nat
      /\ n - b.opened \in Nat /\ n - b.opened < Wrap
  BY SizesAssumption DEF NoWrap, BudgetRecords
<1>2. n % Wrap = n /\ (n - b.opened) % Wrap = n - b.opened
  BY <1>1, SmallRemainder
<1> QED BY <1>2 DEF AliveAt

ClockInv ==
  /\ now \in 1 .. MaxNow
  /\ \A i \in 1 .. MaxLive : budgets[i].opened <= now /\ budgets[i].openedAt = budgets[i].opened

(* What a step leaves alive was alive, or opens now. *)
Stays(i) ==
  /\ alive(budgets[i]) /\ budgets'[i].id = budgets[i].id
  /\ budgets'[i].uses = budgets[i].uses
  /\ budgets'[i].used = budgets[i].used \/ st'.debt # 0

Opened(i) ==
  /\ grant_pressed /\ budgets'[i].id = Len(st.log) + 1
  /\ budgets'[i].used = 0 /\ budgets'[i].uses = press.uses

(* A budget a step leaves in its slot: as it was, but for uses and holds.   *)
SameBudget(i) ==
  /\ budgets'[i].id = budgets[i].id /\ budgets'[i].uses = budgets[i].uses
  /\ budgets'[i].opened = budgets[i].opened /\ budgets'[i].life = budgets[i].life
  /\ budgets'[i].openedAt = budgets[i].openedAt
  /\ budgets'[i].used = budgets[i].used \/ st'.debt # 0

SlotStep(i) ==
  \/ SameBudget(i)
  \/ budgets'[i] = NoBudget
  \/ /\ Opened(i) /\ budgets'[i].opened = now % Wrap /\ budgets'[i].openedAt = now

LEMMA QuietSlots ==
  ASSUME UNCHANGED budgets \/ budgets' = NoBudgets, NEW i \in 1 .. MaxLive PROVE SlotStep(i)
BY DEF SlotStep, SameBudget, NoBudgets

LEMMA EndSlots ==
  ASSUME TypeOK, NEW k \in 1 .. MaxLive, NEW how, end_budget(k, how),
         NEW i \in 1 .. MaxLive
  PROVE  SlotStep(i)
BY DEF end_budget, SlotStep, SameBudget, TypeOK

LEMMA HoldSlots ==
  ASSUME TypeOK, NEW k \in 1 .. MaxLive, NEW h \in BOOLEAN,
         budgets' = [budgets EXCEPT ![k].onHold = h], NEW i \in 1 .. MaxLive
  PROVE  SlotStep(i)
<1>1. budgets[i] \in BudgetRecords /\ budgets[k] \in BudgetRecords
  BY DEF TypeOK
<1> DEFINE b == [budgets[i] EXCEPT !.onHold = h]
<1>2. budgets'[i] = IF i = k THEN b ELSE budgets[i]
  BY DEF TypeOK
<1>3. /\ b.id = budgets[i].id /\ b.uses = budgets[i].uses /\ b.used = budgets[i].used
      /\ b.opened = budgets[i].opened /\ b.life = budgets[i].life
      /\ b.openedAt = budgets[i].openedAt
  BY <1>1 DEF BudgetRecords
<1> HIDE DEF b
<1> QED BY <1>2, <1>3 DEF SlotStep, SameBudget

LEMMA SpendSlots ==
  ASSUME TypeOK, RunUnpressed, NEW i \in 1 .. MaxLive PROVE SlotStep(i)
<1> DEFINE b == budgets[pend.budget]
           j == First(PayingScopes(b, pend.req))
<1>1. CASE UNCHANGED budgets
  BY <1>1, QuietSlots
<1>2. CASE /\ pend.budget # 0 /\ budget_for(pend.req) = pend.budget /\ SpendBudget
           /\ budgets' = [budgets EXCEPT ![pend.budget] = Spent(b, j)]
  <2>1. PICK l \in LinkRecords : l.op = "use" /\ weld_in(l)
    BY <1>2, UseLinks
  <2>2. st' = Weld(st, l) /\ st \in EdgeRecords /\ Len(st.log) \in Nat
    BY <2>1, LogLength DEF weld_in, state_save, TypeOK
  <2>3. st'.debt # 0
    BY <2>1, <2>2, WeldType DEF DebtAfter
  <2>4. pend.budget \in 1 .. MaxLive /\ b \in BudgetRecords
    BY <1>2, SizesAssumption DEF TypeOK, PendRecords
  <2>5. b.id = Spent(b, j).id /\ b.uses = Spent(b, j).uses /\ b.life = Spent(b, j).life
        /\ b.opened = Spent(b, j).opened /\ b.openedAt = Spent(b, j).openedAt
    BY <2>4 DEF Spent, BudgetRecords
  <2> HIDE DEF b, j
  <2>6. budgets'[i] = IF i = pend.budget THEN Spent(b, j) ELSE budgets[i]
    BY <1>2 DEF TypeOK
  <2> QED BY <2>3, <2>5, <2>6 DEF SlotStep, SameBudget, b
<1> QED BY <1>1, <1>2 DEF RunUnpressed, SpendBudget, record

LEMMA GrantSlots ==
  ASSUME TypeOK, grant_pressed, NEW i \in 1 .. MaxLive PROVE SlotStep(i)
<1> DEFINE n == [id |-> Len(st.log) + 1, scopes |-> press.scopes, uses |-> press.uses,
                 used |-> 0, onHold |-> FALSE, opened |-> millis,
                 life |-> press.life, openedAt |-> now]
<1>1. budgets' = [budgets EXCEPT ![First(FreeSlots)] = n]
  BY DEF grant_pressed
<1>2. n.id = Len(st.log) + 1 /\ n.uses = press.uses /\ n.used = 0 /\ n.opened = now % Wrap
      /\ n.openedAt = now
  BY DEF millis
<1> HIDE DEF n
<1>3. budgets'[i] = n \/ budgets'[i] = budgets[i]
  BY <1>1 DEF TypeOK
<1> QED BY <1>2, <1>3 DEF SlotStep, SameBudget, Opened

LEMMA SlotsStep ==
  ASSUME TypeOK, [Next]_vars, NEW i \in 1 .. MaxLive PROVE SlotStep(i)
<1>1. CASE Request
  <2>1. ASSUME NEW k \in 1 .. MaxLive, grant_revoke(k) PROVE SlotStep(i)
    BY <2>1, EndSlots DEF grant_revoke
  <2>2. ASSUME NEW k \in 1 .. MaxLive, grant_hold(k) PROVE SlotStep(i)
    BY <2>2, HoldSlots DEF grant_hold
  <2>3. CASE \/ Query \/ settle \/ primed_other \/ receipt
             \/ \E j \in 1 .. MaxScopes, l \in Labels : grant_label(j, l)
             \/ \E g \in Grants, h \in HostHeads : grant_create(g, h)
             \/ \E k \in 1 .. MaxLive, h \in HostHeads : grant_resume(budgets[k].id, h)
             \/ \E h \in HostHeads, r \in Requests : tx_start(h, r)
             \/ \E r \in Ranges : loss(r)
             \/ \E r \in Requests, asks \in BOOLEAN : okplugin_edge_primed(r, asks)
    <3>1. UNCHANGED budgets
      BY <2>3 DEF Query, settle, primed_other, receipt, grant_label, grant_create,
                  grant_resume, tx_start, loss, okplugin_edge_primed
    <3> QED BY <3>1, QuietSlots
  <2> QED BY <1>1, <2>1, <2>2, <2>3 DEF Request
<1>2. CASE Decision
  <2>1. CASE resume_pressed
    <3>1. live_budget(press.id) \in SUBSET (1 .. MaxLive) /\ live_budget(press.id) # {}
      BY <2>1 DEF resume_pressed, ResumeStands, live_budget, AliveSlots
    <3>2. First(live_budget(press.id)) \in 1 .. MaxLive
      BY <3>1, SlotType
    <3> QED BY <2>1, <3>2, HoldSlots DEF resume_pressed
  <2>2. CASE DecideOrdinary \/ settle_pressed \/ loss_pressed \/ DropDecision
    BY <2>2, QuietSlots DEF DecideOrdinary, settle_pressed, loss_pressed, DropDecision
  <2> QED BY <1>2, <2>1, <2>2, SpendSlots, GrantSlots DEF Decision
<1>3. CASE Continuation
  <2>1. CASE FulfilledSlots # {} /\ end_budget(First(FulfilledSlots), "completed")
    <3>1. First(FulfilledSlots) \in 1 .. MaxLive
      BY <2>1, SlotType DEF FulfilledSlots, AliveSlots
    <3> QED BY <2>1, <3>1, EndSlots
  <2>2. CASE AliveSlots # {} /\ end_budget(First(AliveSlots), "settled")
    <3>1. First(AliveSlots) \in 1 .. MaxLive
      BY <2>2, SlotType DEF AliveSlots
    <3> QED BY <2>2, <3>1, EndSlots
  <2>3. CASE UNCHANGED budgets
    BY <2>3, QuietSlots
  <2> QED BY <1>3, <2>1, <2>2, <2>3 DEF Continuation, complete_fulfilled, SettleStep, Release
<1>4. CASE Lifecycle \/ Tick \/ UNCHANGED vars
  <2>1. UNCHANGED budgets \/ budgets' = NoBudgets
    BY <1>4 DEF Lifecycle, DrawSalt, Identify, write_continue, okplugin_edge_backup,
                okplugin_edge_restore, okplugin_edge_wipe, Restart, Boot, Unlock,
                EnterConfig, Tick, vars
  <2> QED BY <2>1, QuietSlots
<1> QED BY <1>1, <1>2, <1>3, <1>4 DEF Next

LEMMA NowStep ==
  ASSUME [Next]_vars
  PROVE  \/ UNCHANGED now
         \/ now < MaxNow /\ now' = now + 1 /\ UNCHANGED budgets
         \/ now' = 1 /\ budgets' = NoBudgets
<1>1. Request => UNCHANGED now
  BY DEF Request, outside, Query, receipt, settle, primed_other, grant_label,
         grant_create, grant_revoke, grant_hold, grant_resume, tx_start, loss,
         okplugin_edge_primed
<1>2. Decision \/ Continuation => UNCHANGED now
  BY DEF Decision, Continuation, outside, RunUnpressed, DecideOrdinary, grant_pressed,
         resume_pressed, settle_pressed, loss_pressed, DropDecision,
         complete_fulfilled, SettleStep, Release
<1>3. Lifecycle => UNCHANGED now \/ (now' = 1 /\ budgets' = NoBudgets)
  BY DEF Lifecycle, outside, DrawSalt, Identify, okplugin_edge_backup,
         okplugin_edge_restore, okplugin_edge_wipe, Restart, Boot, Unlock, EnterConfig
<1>4. Tick => now < MaxNow /\ now' = now + 1 /\ UNCHANGED budgets
  BY DEF Tick
<1>5. UNCHANGED vars => UNCHANGED now
  BY DEF vars
<1> QED BY <1>1, <1>2, <1>3, <1>4, <1>5 DEF Next

LEMMA ClockStep ==
  ASSUME NoWrap, TypeOK, ClockInv, [Next]_vars PROVE ClockInv'
<1>1. /\ MaxNow \in Nat /\ now \in 1 .. MaxNow /\ now \in Nat /\ now % Wrap = now
      /\ 1 \in 1 .. MaxNow
  BY SizesAssumption, SmallRemainder DEF NoWrap, ClockInv
<1>2. now' \in 1 .. MaxNow
  BY <1>1, NowStep
<1>3. ASSUME NEW i \in 1 .. MaxLive
      PROVE  budgets'[i].opened <= now' /\ budgets'[i].openedAt = budgets'[i].opened
  <2>1. /\ budgets[i].opened <= now /\ budgets[i].openedAt = budgets[i].opened
        /\ budgets[i].opened \in Nat
    BY DEF ClockInv, TypeOK, BudgetRecords
  <2>2. CASE UNCHANGED now
    BY <1>1, <2>1, <2>2, SlotsStep DEF SlotStep, SameBudget, NoBudget
  <2>3. CASE now' = now + 1 /\ UNCHANGED budgets
    BY <1>1, <2>1, <2>3
  <2>4. CASE now' = 1 /\ budgets' = NoBudgets
    BY <2>4 DEF NoBudgets, NoBudget
  <2> QED BY <2>2, <2>3, <2>4, NowStep
<1> QED BY <1>2, <1>3 DEF ClockInv

LEMMA LiveStep ==
  ASSUME NoWrap, TypeOK, TypeOK', ClockInv, [Next]_vars,
         NEW i \in 1 .. MaxLive, alive(budgets[i])'
  PROVE  Stays(i) \/ Opened(i)
<1>1. ClockInv'
  BY ClockStep
<1>2. AliveAt(now', budgets'[i])
  BY DEF alive, AliveAt, Since32, millis
<1>3. /\ budgets[i] \in BudgetRecords /\ budgets'[i] \in BudgetRecords
      /\ now \in 1 .. MaxNow /\ now' \in 1 .. MaxNow
      /\ budgets[i].opened <= now /\ budgets'[i].opened <= now'
  BY <1>1 DEF TypeOK, ClockInv
<1>4. budgets'[i].id # 0 /\ now' - budgets'[i].opened <= budgets'[i].life
  BY <1>2, <1>3, AliveIs
<1>5. CASE Opened(i)
  BY <1>5
<1>6. CASE SameBudget(i)
  <2>1. now <= now'
    <3>1. now' = 1 /\ budgets' = NoBudgets => FALSE
      BY <1>4 DEF NoBudgets, NoBudget
    <3>2. now \in Nat /\ MaxNow \in Nat
      BY <1>3, SizesAssumption
    <3> QED BY <3>1, <3>2, NowStep
  <2>2. budgets[i].id # 0 /\ now' - budgets[i].opened <= budgets[i].life
    BY <1>4, <1>6 DEF SameBudget
  <2>3. now - budgets[i].opened <= budgets[i].life
    <3>1. /\ now \in Nat /\ now' \in Nat /\ budgets[i].opened \in Nat
          /\ budgets[i].life \in Nat
      BY <1>3, SizesAssumption DEF BudgetRecords
    <3> QED BY <2>1, <2>2, <3>1
  <2>4. alive(budgets[i])
    BY <1>3, <2>2, <2>3, AliveIs, AliveNow
  <2> QED BY <1>6, <2>4 DEF Stays, SameBudget
<1>7. budgets'[i] # NoBudget
  BY <1>4 DEF NoBudget
<1> QED BY <1>5, <1>6, <1>7, SlotsStep DEF SlotStep

(* A budget waiting for its press has at least one use. *)
LEMMA SumPositive ==
  ASSUME NEW s \in Seq(ScopeRecords), Narrow(s) PROVE SumCaps(s) \in Nat /\ SumCaps(s) >= 1
<1> DEFINE z == [j \in 1 .. Len(s) |-> [cap |-> 0]]
<1>1. Capped(s) /\ Len(s) \in Nat /\ Len(s) >= 1 /\ DOMAIN s = 1 .. Len(s)
  BY ScopesCapped DEF Narrow
<1>2. Len(z) = Len(s) /\ DOMAIN z = 1 .. Len(s) /\ \A j \in 1 .. Len(s) : z[j].cap = 0
  BY <1>1
<1> HIDE DEF z
<1>3. Capped(z) /\ SumCaps(z) = 0
  <2>1. Capped(z)
    BY <1>1, <1>2 DEF Capped
  <2> QED BY <1>2, <2>1, SumOfZeros
<1>4. \A j \in 1 .. Len(s) : z[j].cap <= s[j].cap
  BY <1>1, <1>2 DEF Capped
<1>5. SumCaps(s) \in Nat /\ (0 >= SumCaps(s) => \A j \in 1 .. Len(s) : z[j].cap = s[j].cap)
  BY <1>1, <1>2, <1>3, <1>4, SumBounded
<1>6. 1 \in 1 .. Len(s) /\ s[1].cap >= 1 /\ z[1].cap = 0
  BY <1>1, <1>2 DEF Narrow
<1> QED BY <1>5, <1>6

(* With nothing owed, and no look at the budgets outstanding, every live    *)
(* budget has a use left; and none is older than a settle.                  *)
FulfilledInv ==
  st.debt = 0 /\ busy # "completing" =>
    \A i \in AliveSlots : budgets[i].used < budgets[i].uses

SettleEnds(log) ==
  \A k \in At(log, "receipt"), i \in At(log, "use") :
    log[k].how = "settled" /\ i > k => log[i].id > k

SettledInv ==
  /\ SettleEnds(st.log) /\ SettleEnds(backup.log)
  /\ \A k \in At(st.log, "receipt"), i \in AliveSlots :
       st.log[k].how = "settled" => budgets[i].id > k

(* What a step that pays the debt, or looks at the budgets, leaves alive.   *)
LEMMA DebtPaid ==
  ASSUME TypeOK, DebtInv, [Next]_vars, st.debt # 0, st'.debt = 0
  PROVE  busy' = "completing" \/ AliveSlots = {} \/ budgets' = NoBudgets
<1>0. st \in EdgeRecords /\ Len(st.log) \in Nat
  BY LogLength DEF TypeOK
<1>1. CASE Request \/ Decision \/ Continuation
  <2>1. PICK l \in LinkRecords : LinksWell(l) /\ weld_in(l)
    BY <1>1, RequestLinks, DecisionLinks, ContinuationLinks
  <2>2. st'.debt = DebtAfter(st, l)
    BY <1>0, <2>1, WeldType DEF weld_in, state_save
  <2>3. l.op = "receipt"
    BY <1>0, <2>2 DEF DebtAfter
  <2> QED BY <2>1, <2>3 DEF LinksWell
<1>2. CASE Lifecycle
  <2>1. CASE DrawSalt
    BY <1>0, <2>1 DEF DrawSalt, state_save, EdgeRecords
  <2>2. CASE ~DrawSalt
    BY <1>2, <2>2 DEF Lifecycle, Identify, write_continue, okplugin_edge_backup,
       okplugin_edge_restore, okplugin_edge_wipe, Restart, Boot, Unlock, EnterConfig, record
  <2> QED BY <2>1, <2>2
<1>3. CASE Tick \/ UNCHANGED vars
  BY <1>3 DEF Tick, vars
<1> QED BY <1>1, <1>2, <1>3 DEF Next

LEMMA LookedAt ==
  ASSUME [Next]_vars, busy = "completing", busy' # "completing"
  PROVE  \/ UNCHANGED <<st, budgets>> /\ (st.debt # 0 \/ FulfilledSlots = {})
         \/ budgets' = NoBudgets
<1>1. ~Request
  BY DEF Request, Query, receipt, settle, primed_other, grant_label, grant_create,
         grant_revoke, grant_hold, grant_resume, tx_start, loss, okplugin_edge_primed,
         Recv
<1>2. ~Decision
  BY DEF Decision, RunUnpressed, DecideOrdinary, grant_pressed, resume_pressed,
         settle_pressed, loss_pressed, DropDecision, Deciding
<1>3. ASSUME Continuation
      PROVE  UNCHANGED <<st, budgets>> /\ (st.debt # 0 \/ FulfilledSlots = {})
  BY <1>3 DEF Continuation, complete_fulfilled, SettleStep, Release, owes, record
<1>4. ASSUME Lifecycle PROVE budgets' = NoBudgets
  BY <1>4 DEF Lifecycle, DrawSalt, Identify, okplugin_edge_backup,
     okplugin_edge_restore, okplugin_edge_wipe, Restart, Boot, Unlock, EnterConfig
<1>5. ~Tick /\ ~UNCHANGED vars
  BY DEF Tick, vars
<1> QED BY <1>1, <1>2, <1>3, <1>4, <1>5 DEF Next

LEMMA StepFulfilled ==
  ASSUME NoWrap, TypeOK, TypeOK', DebtInv, LedgerInv, NarrowInv, ClockInv,
         FulfilledInv, [Next]_vars
  PROVE  FulfilledInv'
<1> SUFFICES ASSUME st'.debt = 0, busy' # "completing",
                    NEW i \in 1 .. MaxLive, alive(budgets[i])'
             PROVE  budgets'[i].used < budgets'[i].uses
  BY DEF FulfilledInv, AliveSlots
<1>1. CASE Opened(i)
  <2>1. press.what = "grant" /\ press.scopes \in Seq(ScopeRecords)
    BY <1>1 DEF Opened, grant_pressed, Pressed, TypeOK, PressRecords
  <2>2. press.uses = SumCaps(press.scopes) /\ Narrow(press.scopes)
    BY <2>1 DEF LedgerInv, GrantCounted, NarrowInv
  <2> QED BY <1>1, <2>1, <2>2, SumPositive DEF Opened
<1>2. CASE Stays(i)
  <2>1. i \in AliveSlots /\ budgets' # NoBudgets
    <3>1. i \in AliveSlots /\ budgets'[i].id # 0
      BY <1>2 DEF Stays, AliveSlots, alive
    <3>2. NoBudgets[i].id = 0
      BY DEF NoBudgets, NoBudget
    <3> QED BY <3>1, <3>2
  <2>2. budgets'[i].used = budgets[i].used /\ budgets'[i].uses = budgets[i].uses
    BY <1>2 DEF Stays
  <2>3. st.debt = 0
    BY <2>1, DebtPaid
  <2>4. busy = "completing" => budgets[i].used < budgets[i].uses
    <3>1. budgets[i].used \in Nat /\ budgets[i].uses \in Nat
      BY DEF TypeOK, BudgetRecords
    <3>2. busy = "completing" => FulfilledSlots = {}
      BY <2>1, <2>3, LookedAt
    <3> QED BY <2>1, <3>1, <3>2 DEF FulfilledSlots
  <2> QED BY <2>1, <2>2, <2>3, <2>4 DEF FulfilledInv
<1> QED BY <1>1, <1>2, LiveStep

LEMMA GrantLinks ==
  ASSUME TypeOK, grant_pressed
  PROVE  /\ Len(st'.log) = Len(st.log) + 1 /\ st'.log[Len(st.log) + 1].op = "create"
         /\ \A k \in 1 .. Len(st.log) : st'.log[k] = st.log[k]
<1> DEFINE l == [append("create") EXCEPT !.id = Len(st.log) + 1, !.scopes = press.scopes]
<1>1. weld_in(l) /\ l.op = "create"
  BY DEF grant_pressed, append
<1> HIDE DEF l
<1>2. st'.log = Append(st.log, l) /\ st.log \in Seq(LinkRecords)
  BY <1>1 DEF weld_in, state_save, Weld, TypeOK, EdgeRecords, Logs
<1> QED BY <1>1, <1>2

LEMMA StepSettled ==
  ASSUME NoWrap, TypeOK, TypeOK', DebtInv, ClockInv, SettledInv, [Next]_vars
  PROVE  SettledInv'
<1> DEFINE n == Len(st.log)
<1>0. n \in Nat /\ st.log \in Logs /\ DOMAIN st.log = 1 .. n
  BY LogLength DEF TypeOK, EdgeRecords, Logs
<1>1. SettleEnds(backup'.log)
  BY BackupStep DEF SettledInv
<1>2. ASSUME NEW i \in 1 .. MaxLive, alive(budgets[i])' PROVE i \in AliveSlots \/ Opened(i)
  BY <1>2, LiveStep DEF Stays, AliveSlots
<1>3. ASSUME NEW i \in 1 .. MaxLive, alive(budgets[i])', ~Opened(i)
      PROVE  i \in AliveSlots /\ budgets'[i].id = budgets[i].id
  BY <1>3, LiveStep DEF Stays, AliveSlots
<1>4. CASE st'.log = st.log
  <2>1. SettleEnds(st'.log)
    BY <1>4 DEF SettledInv
  <2>2. ASSUME NEW k \in At(st'.log, "receipt"), NEW i \in 1 .. MaxLive,
               alive(budgets[i])', st'.log[k].how = "settled"
        PROVE  budgets'[i].id > k
    <3>1. ~Opened(i)
      BY <1>0, <1>4, GrantLinks DEF Opened
    <3> QED BY <1>3, <1>4, <2>2, <3>1 DEF SettledInv
  <2> QED BY <1>1, <2>1, <2>2 DEF SettledInv, AliveSlots
<1>5. CASE NoDevice
  <2>1. \A i \in 1 .. MaxLive : ~alive(budgets[i])'
    BY <1>5 DEF NoDevice, NoBudgets, NoBudget, alive
  <2>2. SettleEnds(st'.log)
    BY <1>5 DEF NoDevice, SettledInv, SettleEnds, At
  <2> QED BY <1>1, <2>1, <2>2 DEF SettledInv, AliveSlots
<1>6. ASSUME NEW l \in LinkRecords, LinksWell(l) PROVE SettledInv'
  <2>1. st'.log = Append(st.log, l)
    BY <1>6 DEF LinksWell, Links
  <2>2. /\ DOMAIN st'.log = 1 .. n + 1 /\ st'.log[n + 1] = l
        /\ \A k \in 1 .. n : st'.log[k] = st.log[k]
    BY <1>0, <2>1, AppendedLog
  <2> HIDE DEF n
  <2>3. ASSUME NEW k \in At(st'.log, "receipt"), st'.log[k].how = "settled"
        PROVE  \/ k \in At(st.log, "receipt") /\ st.log[k].how = "settled" /\ k <= n
               \/ k = n + 1 /\ l.op = "receipt" /\ l.how = "settled"
    BY <1>0, <2>2, <2>3 DEF At
  <2>4. ASSUME NEW k \in At(st'.log, "receipt"), NEW i \in At(st'.log, "use"),
               st'.log[k].how = "settled", i > k
        PROVE  st'.log[i].id > k
    <3>1. k \in At(st.log, "receipt") /\ st.log[k].how = "settled" /\ k <= n
      BY <1>0, <2>2, <2>3, <2>4 DEF At
    <3>2. CASE i \in 1 .. n
      <4>1. i \in At(st.log, "use") /\ st'.log[i] = st.log[i]
        BY <1>0, <2>2, <3>2 DEF At
      <4> QED BY <2>4, <3>1, <4>1 DEF SettledInv, SettleEnds
    <3>3. CASE i = n + 1
      <4>1. l.op = "use" /\ st'.log[i] = l
        BY <2>2, <3>3 DEF At
      <4>2. PICK j \in AliveSlots : l.id = budgets[j].id
        BY <1>6, <4>1 DEF LinksWell
      <4> QED BY <3>1, <4>1, <4>2 DEF SettledInv
    <3> QED BY <1>0, <2>2, <3>2, <3>3 DEF At
  <2>5. ASSUME NEW k \in At(st'.log, "receipt"), NEW i \in 1 .. MaxLive,
               alive(budgets[i])', st'.log[k].how = "settled"
        PROVE  budgets'[i].id > k
    <3>1. CASE Opened(i)
      <4>1. l.op = "create" /\ budgets'[i].id = n + 1
        BY <2>2, <3>1, GrantLinks DEF Opened, n
      <4>2. k <= n /\ k \in 1 .. n
        BY <1>0, <2>3, <2>5, <4>1 DEF At
      <4> QED BY <1>0, <4>1, <4>2
    <3>2. CASE ~Opened(i)
      <4>1. i \in AliveSlots /\ budgets'[i].id = budgets[i].id
        BY <1>3, <2>5, <3>2
      <4>2. ~(l.op = "receipt" /\ l.how = "settled")
        BY <1>6, <4>1 DEF LinksWell
      <4> QED BY <2>3, <2>5, <4>1, <4>2 DEF SettledInv
    <3> QED BY <3>1, <3>2
  <2>6. SettleEnds(st'.log)
    BY <2>4 DEF SettleEnds
  <2> QED BY <1>1, <2>5, <2>6 DEF SettledInv, AliveSlots
<1> QED BY <1>4, <1>5, <1>6, StepLinks DEF NewDevice

LifeInv == ClockInv /\ FulfilledInv /\ SettledInv

LEMMA LifeAlways == ASSUME NoWrap PROVE Spec => []LifeInv
<1>1. Init => LifeInv
  BY DEF Init, LifeInv, ClockInv, FulfilledInv, SettledInv, SettleEnds, At, AliveSlots,
         alive, NoBudgets, NoBudget, EmptyRecord, NoBackup, NoWrap
<1>2. TypeOK /\ TypeOK' /\ DebtInv /\ LedgerInv /\ NarrowInv /\ LifeInv /\ [Next]_vars
        => LifeInv'
  BY ClockStep, StepFulfilled, StepSettled DEF LifeInv
<1> QED BY <1>1, <1>2, NarrowAlways, LedgerAlways, DebtTyped, PTL DEF Spec

(* On a key that does not stay up for 49.7 days: a budget whose uses are    *)
(* all made and receipted is ended by the key, with no host step.           *)
THEOREM FulfilledBudgetsDoEnd == ASSUME NoWrap PROVE Spec => []FulfilledBudgetsEnd
<1>1. LifeInv => FulfilledBudgetsEnd
  BY DEF LifeInv, FulfilledInv, FulfilledBudgetsEnd
<1> QED BY <1>1, LifeAlways, PTL

(* On such a key: no budget opened before a settle ever pays after it.      *)
THEOREM SettleDoesEndThem == ASSUME NoWrap PROVE Spec => []SettleEndsEveryBudget
<1>1. LifeInv => SettleEndsEveryBudget
  BY DEF LifeInv, SettledInv, SettleEnds, SettleEndsEveryBudget
<1> QED BY <1>1, LifeAlways, PTL

(* On such a key: no budget pays after its lifetime, by true time.          *)
THEOREM LifetimesAreKept == ASSUME NoWrap PROVE Spec => LifetimeIsKept
<1>1. TypeOK /\ DebtInv /\ LifeInv /\ [Next]_vars =>
        [Appended("use") =>
           now - budgets[pend.budget].openedAt <= budgets[pend.budget].life]_vars
  <2> SUFFICES ASSUME TypeOK, DebtInv, LifeInv, [Next]_vars, Appended("use")
               PROVE  now - budgets[pend.budget].openedAt <= budgets[pend.budget].life
    OBVIOUS
  <2>1. pend.budget \in 1 .. MaxLive /\ alive(budgets[pend.budget])
    BY UseStep DEF AliveSlots
  <2>2. /\ now \in 1 .. MaxNow /\ budgets[pend.budget] \in BudgetRecords
        /\ budgets[pend.budget].opened <= now
        /\ budgets[pend.budget].openedAt = budgets[pend.budget].opened
    BY <2>1 DEF LifeInv, ClockInv, TypeOK
  <2> QED BY <2>1, <2>2, AliveNow, AliveIs
<1> QED BY <1>1, LifeAlways, DebtTyped, PTL DEF Spec, LifetimeIsKept
=============================================================================
