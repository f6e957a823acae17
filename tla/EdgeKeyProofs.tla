--------------------------- MODULE EdgeKeyProofs ----------------------------
(***************************************************************************)
(* The firmware half of OnlyKey Edge, for any number of budgets, scopes,   *)
(* uses, labels, requests and links: every step keeps the types; the key   *)
(* never owes two receipts nor starts anything while it owes one; and what  *)
(* every step does to its chain: which links it may write, that one device  *)
(* id has one history, and that an operation run with no press is on flash  *)
(* first.                                                                  *)
(***************************************************************************)
EXTENDS EdgeKey, WellFoundedInduction, TLAPS

-----------------------------------------------------------------------------
(* The empty values and the helpers have their types. *)

LEMMA EmptyTypes ==
  /\ EmptyRecord \in EdgeRecords
  /\ NoBudget \in BudgetRecords
  /\ NoBudgets \in [1 .. MaxLive -> BudgetRecords]
  /\ NoTx \in TxRecords
  /\ NoPend \in PendRecords
  /\ NoPress \in PressRecords
  /\ NoStaged \in StagedRecords
  /\ NoHeld \in Rings
  /\ NoBackup \in [log : Logs, debt : Nat]
<1>1. << >> \in Logs /\ << >> \in Seq(ScopeRecords)
  BY DEF Logs
<1>2. NoTx \in TxRecords
  BY <1>1 DEF NoTx, TxRecords
<1>3. NoBudget \in BudgetRecords
  BY <1>1 DEF NoBudget, BudgetRecords
<1>4. NoPend \in PendRecords
  BY <1>2, SizesAssumption DEF NoPend, PendRecords
<1>5. NoPress \in PressRecords
  BY <1>1 DEF NoPress, PressRecords
<1>6. EmptyRecord \in EdgeRecords /\ NoBackup \in [log : Logs, debt : Nat]
  BY <1>1 DEF EmptyRecord, EdgeRecords, NoBackup
<1> QED
  BY <1>2, <1>3, <1>4, <1>5, <1>6
     DEF NoBudgets, NoStaged, StagedRecords, NoHeld, Rings

LEMMA MillisType == ASSUME now \in Nat PROVE millis \in Nat
BY SizesAssumption DEF millis

LEMMA BareLinkType ==
  ASSUME NEW op \in LinkOps PROVE append(op) \in LinkRecords
BY DEF append, LinkRecords, Hows

LEMMA WeldType ==
  ASSUME NEW s \in EdgeRecords, NEW l \in LinkRecords
  PROVE  /\ Weld(s, l) \in EdgeRecords
         /\ Weld(s, l).log = Append(s.log, l)
         /\ Weld(s, l).debt = DebtAfter(s, l)
<1>1. s.log \in Seq(LinkRecords)
  BY DEF EdgeRecords, Logs
<1>2. Append(s.log, l) \in Logs /\ Len(s.log) \in Nat
  BY <1>1 DEF Logs
<1>3. DebtAfter(s, l) \in Nat
  BY <1>2 DEF DebtAfter, EdgeRecords
<1> QED BY <1>2, <1>3 DEF Weld, EdgeRecords

LEMMA HoldType ==
  ASSUME NEW ring \in Rings, NEW n \in Nat PROVE Hold(ring, n) \in Rings
BY DEF Hold, Rings

LEMMA LogLength == ASSUME TypeOK PROVE Len(st.log) \in Nat /\ Len(disk.log) \in Nat
BY DEF TypeOK, EdgeRecords, Logs

(* What welding a link leaves typed. *)
LEMMA WeldInType ==
  ASSUME TypeOK, NEW l \in LinkRecords, weld_in(l)
  PROVE  /\ st' \in EdgeRecords /\ disk' \in EdgeRecords
         /\ held' \in Rings /\ tx' \in TxRecords
<1>1. Len(st.log) + 1 \in Nat
  BY LogLength
<1>2. st \in EdgeRecords /\ held \in Rings
  BY DEF TypeOK
<1> QED BY <1>1, <1>2, WeldType, HoldType, EmptyTypes DEF weld_in, state_save

LEMMA PressKeptType == ASSUME TypeOK PROVE PressKept \in PressRecords
BY EmptyTypes DEF PressKept, TypeOK

LEMMA HostHeadsType == ASSUME TypeOK PROVE HostHeads \subseteq Logs
BY DEF HostHeads, TypeOK, EdgeRecords, Logs

(* The least member of a set of positions or slots. *)
Less == {p \in Nat \X Nat : p[1] < p[2]}

LEMMA FirstType ==
  ASSUME NEW S \in SUBSET Nat, S # {}
  PROVE  First(S) \in S /\ \A k \in S : First(S) <= k
<1>1. IsWellFoundedOn(Less, Nat)
  BY NatLessThanWellFounded DEF OpToRel, Less
<1>2. PICK x \in S : \A y \in S : ~(<<y, x>> \in Less)
  BY <1>1, WFMin
<1>3. ASSUME NEW y \in S PROVE x <= y
  <2>1. <<y, x>> \in Nat \X Nat /\ <<y, x>>[1] = y /\ <<y, x>>[2] = x
    OBVIOUS
  <2>2. ~(y < x)
    BY <1>2, <2>1 DEF Less
  <2> QED BY <2>2
<1> QED BY <1>3 DEF First

LEMMA SlotType ==
  ASSUME NEW S \in SUBSET (1 .. MaxLive), S # {}
  PROVE  First(S) \in S /\ First(S) \in 1 .. MaxLive
<1>1. S \in SUBSET Nat
  BY SizesAssumption
<1> QED BY <1>1, FirstType

LEMMA BudgetForType ==
  ASSUME NEW req PROVE budget_for(req) \in 0 .. MaxLive
<1> DEFINE payers == {i \in 1 .. MaxLive :
                        Payable_now(budgets[i]) /\ PayingScopes(budgets[i], req) # {}}
<1>1. payers # {} => First(payers) \in 1 .. MaxLive
  BY SlotType
<1> QED BY <1>1, SizesAssumption DEF budget_for

LEMMA EndBudgetType ==
  ASSUME TypeOK, NEW i \in 1 .. MaxLive, NEW how \in Hows, end_budget(i, how)
  PROVE  /\ budgets' \in [1 .. MaxLive -> BudgetRecords]
         /\ st' \in EdgeRecords /\ disk' \in EdgeRecords
         /\ held' \in Rings /\ tx' \in TxRecords
<1>1. budgets' \in [1 .. MaxLive -> BudgetRecords]
  BY EmptyTypes DEF end_budget, TypeOK
<1> DEFINE l == [append("end") EXCEPT !.id = budgets[i].id, !.how = how]
<1>2. budgets[i].id \in Nat
  BY DEF TypeOK, BudgetRecords
<1>3. l \in LinkRecords
  <2>1. append("end") \in LinkRecords
    BY BareLinkType DEF LinkOps
  <2> QED BY <1>2, <2>1 DEF LinkRecords
<1> HIDE DEF l
<1>4. weld_in(l)
  BY DEF end_budget, l
<1> QED BY <1>1, <1>3, <1>4, WeldInType

LEMMA ElementType ==
  ASSUME NEW S, NEW s \in Seq(S), NEW j \in DOMAIN s PROVE s[j] \in S
OBVIOUS

LEMMA ScopesOfType ==
  ASSUME TypeOK, NEW g \in Grants, GrantAllowed(g)
  PROVE  ScopesOf(g) \in Seq(ScopeRecords) /\ Len(ScopesOf(g)) = Len(g.scopes)
<1>1. g.scopes \in Seq([code : Codes, cap : Nat]) /\ Len(g.scopes) \in 1 .. MaxScopes
  BY GrantsAssumption DEF GrantAllowed
<1>2. DOMAIN g.scopes = 1 .. Len(g.scopes) /\ Len(g.scopes) \in Nat
  BY <1>1
<1>3. DOMAIN g.scopes \subseteq 1 .. MaxScopes
  BY <1>1, <1>2, SizesAssumption
<1>4. ASSUME NEW j \in DOMAIN g.scopes
      PROVE  staged.labels[j] \in Labels \union {NoLabel} /\ g.scopes[j].code \in Codes
             /\ g.scopes[j].cap \in Nat
  <2>1. j \in 1 .. MaxScopes
    BY <1>3
  <2>2. staged.labels \in [1 .. MaxScopes -> Labels \union {NoLabel}]
    BY DEF TypeOK, StagedRecords
  <2>3. g.scopes[j] \in [code : Codes, cap : Nat]
    BY <1>1, ElementType
  <2> QED BY <1>1, <2>1, <2>2, <2>3
<1>5. ScopesOf(g) \in [1 .. Len(g.scopes) -> ScopeRecords]
  BY <1>2, <1>4 DEF ScopesOf, ScopeRecords
<1> QED BY <1>2, <1>5

-----------------------------------------------------------------------------
(* Every step keeps the types: the host's requests first. *)

LEMMA QueryType == TypeOK /\ Query => TypeOK'
BY PressKeptType DEF Query, TypeOK, record, session, outside

LEMMA grant_labelType ==
  ASSUME TypeOK, NEW j \in 1 .. MaxScopes, NEW l \in Labels, grant_label(j, l)
  PROVE  TypeOK'
<1>1. staged' \in StagedRecords
  <2>1. staged'.labels \in [1 .. MaxScopes -> Labels \union {NoLabel}]
    BY EmptyTypes DEF grant_label, TypeOK, StagedRecords
  <2>2. staged'.since \in Nat
    BY MillisType DEF grant_label, TypeOK
  <2> QED BY <2>1, <2>2 DEF grant_label, StagedRecords
<1> QED BY <1>1, PressKeptType DEF grant_label, TypeOK, record, session, outside

(* Each request for a press puts a well typed one up. *)
LEMMA PressWaitType ==
  ASSUME NEW p \in PressRecords, press_wait(p)
  PROVE  press' \in PressRecords /\ wait' \in {"none", "edge", "sign"}
         /\ pend' \in PendRecords
BY EmptyTypes DEF press_wait

LEMMA grant_createType ==
  ASSUME TypeOK, NEW g \in Grants, NEW h \in HostHeads, grant_create(g, h)
  PROVE  TypeOK'
<1> DEFINE p == [NoPress EXCEPT !.what = "grant", !.since = millis, !.verified = h,
                   !.scopes = ScopesOf(g), !.uses = g.uses, !.life = g.life]
<1>1. CASE ~owes /\ h = st.log /\ GrantAllowed(g)
  <2>1. h \in Logs /\ millis \in Nat /\ g.uses \in Nat /\ g.life \in Nat
        /\ ScopesOf(g) \in Seq(ScopeRecords)
    BY <1>1, HostHeadsType, MillisType, GrantsAssumption, ScopesOfType DEF TypeOK
  <2>2. p \in PressRecords
    BY <2>1, EmptyTypes DEF PressRecords
  <2> HIDE DEF p
  <2>3. press_wait(p)
    BY <1>1 DEF grant_create, p
  <2>4. press' \in PressRecords /\ wait' \in {"none", "edge", "sign"} /\ pend' \in PendRecords
    BY <2>2, <2>3, PressWaitType
  <2> QED BY <2>4, EmptyTypes DEF grant_create, TypeOK, record, session, outside
<1>2. CASE ~(~owes /\ h = st.log /\ GrantAllowed(g))
  BY <1>2, EmptyTypes DEF grant_create, TypeOK, record, session, outside
<1> QED BY <1>1, <1>2

LEMMA grant_revokeType ==
  ASSUME TypeOK, NEW i \in 1 .. MaxLive, grant_revoke(i) PROVE TypeOK'
<1>1. end_budget(i, "revoked") /\ "revoked" \in Hows
  BY DEF grant_revoke, Hows
<1> QED BY <1>1, EndBudgetType, PressKeptType DEF grant_revoke, TypeOK, session, outside

LEMMA grant_holdType ==
  ASSUME TypeOK, NEW i \in 1 .. MaxLive, grant_hold(i) PROVE TypeOK'
<1> DEFINE l == [append("hold") EXCEPT !.id = budgets[i].id]
<1>1. l \in LinkRecords
  <2>1. append("hold") \in LinkRecords
    BY BareLinkType DEF LinkOps
  <2>2. budgets[i].id \in Nat
    BY DEF TypeOK, BudgetRecords
  <2> QED BY <2>1, <2>2 DEF LinkRecords
<1> HIDE DEF l
<1>2. weld_in(l)
  BY DEF grant_hold, l
<1>3. budgets' \in [1 .. MaxLive -> BudgetRecords]
  BY DEF grant_hold, TypeOK, BudgetRecords
<1> QED BY <1>1, <1>2, <1>3, WeldInType, PressKeptType DEF grant_hold, TypeOK, session, outside

LEMMA grant_resumeType ==
  ASSUME TypeOK, NEW id \in Nat, NEW h \in HostHeads, grant_resume(id, h)
  PROVE  TypeOK'
<1> DEFINE p == [NoPress EXCEPT !.what = "resume", !.since = millis, !.verified = h,
                   !.id = id]
<1>1. CASE live_budget(id) # {} /\ ~owes /\ h = st.log
  <2>1. h \in Logs /\ millis \in Nat
    BY HostHeadsType, MillisType DEF TypeOK
  <2>2. p \in PressRecords
    BY <2>1, EmptyTypes DEF PressRecords
  <2> HIDE DEF p
  <2>3. press_wait(p)
    BY <1>1 DEF grant_resume, p
  <2>4. press' \in PressRecords /\ wait' \in {"none", "edge", "sign"} /\ pend' \in PendRecords
    BY <2>2, <2>3, PressWaitType
  <2> QED BY <2>4 DEF grant_resume, TypeOK, record, session, outside
<1>2. CASE ~(live_budget(id) # {} /\ ~owes /\ h = st.log)
  BY <1>2, EmptyTypes DEF grant_resume, TypeOK, record, session, outside
<1> QED BY <1>1, <1>2

LEMMA receiptType == TypeOK /\ receipt => TypeOK'
<1> SUFFICES ASSUME TypeOK, receipt PROVE TypeOK'
  OBVIOUS
<1> DEFINE l == [append("receipt") EXCEPT !.id = st.debt, !.how = "answered"]
<1>1. l \in LinkRecords
  <2>1. append("receipt") \in LinkRecords
    BY BareLinkType DEF LinkOps
  <2>2. st.debt \in Nat /\ "answered" \in Hows
    BY DEF TypeOK, EdgeRecords, Hows
  <2> QED BY <2>1, <2>2 DEF LinkRecords
<1> HIDE DEF l
<1>2. weld_in(l)
  BY DEF receipt, l
<1> QED BY <1>1, <1>2, WeldInType, PressKeptType DEF receipt, TypeOK, session, outside

LEMMA complete_fulfilledType == TypeOK /\ complete_fulfilled => TypeOK'
<1> SUFFICES ASSUME TypeOK, complete_fulfilled PROVE TypeOK'
  OBVIOUS
<1>1. CASE FulfilledSlots # {} /\ end_budget(First(FulfilledSlots), "completed")
           /\ UNCHANGED busy
  <2>1. First(FulfilledSlots) \in 1 .. MaxLive /\ "completed" \in Hows
    BY <1>1, SlotType DEF FulfilledSlots, AliveSlots, Hows
  <2> QED BY <1>1, <2>1, EndBudgetType DEF complete_fulfilled, TypeOK, session, outside
<1>2. CASE busy' = "idle" /\ UNCHANGED <<record, budgets, tx, held>>
  BY <1>2 DEF complete_fulfilled, TypeOK, record, session, outside
<1> QED BY <1>1, <1>2 DEF complete_fulfilled

LEMMA settleType == TypeOK /\ settle => TypeOK'
<1> SUFFICES ASSUME TypeOK, settle PROVE TypeOK'
  OBVIOUS
<1> DEFINE p == [NoPress EXCEPT !.what = "settle", !.since = millis]
<1>1. p \in PressRecords
  BY MillisType, EmptyTypes DEF PressRecords, TypeOK
<1> HIDE DEF p
<1>2. CASE press_wait(p)
  BY <1>1, <1>2, PressWaitType DEF settle, TypeOK, record, session, outside
<1>3. CASE press' = NoPress /\ UNCHANGED <<pend, wait>>
  BY <1>3, EmptyTypes DEF settle, TypeOK, record, session, outside
<1> QED BY <1>2, <1>3 DEF settle, p

LEMMA RefuseTxType == TypeOK /\ RefuseTx => refused' \in 0 .. RefusedMax
BY SizesAssumption DEF TypeOK, RefuseTx

LEMMA tx_startType ==
  ASSUME TypeOK, NEW h \in HostHeads, NEW r \in Requests, tx_start(h, r)
  PROVE  TypeOK'
<1>1. [on |-> TRUE, head |-> h, req |-> r] \in TxRecords
  BY HostHeadsType DEF TxRecords
<1>2. tx' \in TxRecords /\ refused' \in 0 .. RefusedMax
  BY <1>1, RefuseTxType DEF tx_start, TypeOK
<1> QED BY <1>2, PressKeptType DEF tx_start, TypeOK, record, session, outside

LEMMA lossType ==
  ASSUME TypeOK, NEW r \in Ranges, loss(r) PROVE TypeOK'
<1> DEFINE p == [NoPress EXCEPT !.what = "loss", !.since = millis,
                   !.id = r.from, !.to = r.to]
<1>1. p \in PressRecords
  <2>1. millis \in Nat /\ r.from \in Nat /\ r.to \in Nat
    BY MillisType, RangesAssumption DEF TypeOK
  <2> QED BY <2>1, EmptyTypes DEF PressRecords
<1> HIDE DEF p
<1>2. CASE press_wait(p)
  BY <1>1, <1>2, PressWaitType DEF loss, TypeOK, record, session, outside
<1>3. CASE press' = NoPress /\ UNCHANGED <<pend, wait>>
  BY <1>3, EmptyTypes DEF loss, TypeOK, record, session, outside
<1> QED BY <1>2, <1>3 DEF loss, p

LEMMA okplugin_edge_primedType ==
  ASSUME TypeOK, NEW r \in Requests, NEW asks \in BOOLEAN,
         okplugin_edge_primed(r, asks)
  PROVE  TypeOK'
<1> DEFINE mismatch == tx.on /\ (tx.head # st.log \/ tx.req # r)
           i        == IF mismatch THEN 0 ELSE budget_for(r)
<1>1. mismatch \in BOOLEAN /\ i \in 0 .. MaxLive
  BY BudgetForType, SizesAssumption
<1>2. (IF mismatch THEN NoTx ELSE tx) \in TxRecords
  BY EmptyTypes DEF TypeOK
<1>3. pend' = [active |-> TRUE, req |-> r, budget |-> i,
               press |-> asks /\ ~mismatch /\ i = 0, refuse |-> mismatch,
               start |-> IF mismatch THEN NoTx ELSE tx]
  BY DEF okplugin_edge_primed
<1>4. refused' \in 0 .. RefusedMax
  BY RefuseTxType DEF okplugin_edge_primed, TypeOK
<1>5. tx' \in TxRecords
  BY EmptyTypes DEF okplugin_edge_primed, TypeOK
<1> HIDE DEF mismatch, i
<1>6. pend' \in PendRecords
  BY <1>1, <1>2, <1>3 DEF PendRecords
<1> QED BY <1>4, <1>5, <1>6 DEF okplugin_edge_primed, TypeOK, record, session, outside

-----------------------------------------------------------------------------
(* The decisions. *)

LEMMA PayingScopeType ==
  ASSUME NEW s \in Seq(ScopeRecords), NEW b, b.scopes = s, NEW req,
         PayingScopes(b, req) # {}
  PROVE  First(PayingScopes(b, req)) \in DOMAIN s
<1>1. PayingScopes(b, req) \in SUBSET Nat /\ PayingScopes(b, req) \subseteq DOMAIN s
  BY DEF PayingScopes
<1> QED BY <1>1, FirstType

LEMMA UseLinkType ==
  ASSUME NEW r \in LinkRecords, NEW id \in Nat, NEW n \in Nat, NEW j \in Nat,
         NEW q \in Requests \union {NoReq}
  PROVE  [r EXCEPT !.id = id, !.step = n, !.scope = j, !.req = q] \in LinkRecords
BY DEF LinkRecords

LEMMA SpentType ==
  ASSUME NEW b \in BudgetRecords, NEW j \in DOMAIN b.scopes
  PROVE  /\ Spent(b, j) \in BudgetRecords
         /\ Spent(b, j) = [b EXCEPT !.used = b.used + 1,
                            !.scopes = [b.scopes EXCEPT ![j] =
                              [b.scopes[j] EXCEPT !.used = b.scopes[j].used + 1]]]
<1>1. b.scopes \in Seq(ScopeRecords) /\ b.used \in Nat
  BY DEF BudgetRecords
<1>2. b.scopes[j] \in ScopeRecords
  BY <1>1, ElementType
<1>3. [b.scopes[j] EXCEPT !.used = b.scopes[j].used + 1] \in ScopeRecords
  BY <1>2 DEF ScopeRecords
<1> DEFINE sc == [b.scopes EXCEPT ![j] =
                    [b.scopes[j] EXCEPT !.used = b.scopes[j].used + 1]]
<1>4. sc \in Seq(ScopeRecords)
  BY <1>1, <1>3
<1>5. Spent(b, j) = [b EXCEPT !.used = b.used + 1, !.scopes = sc]
  BY <1>1 DEF Spent, BudgetRecords
<1> HIDE DEF sc
<1>6. [b EXCEPT !.used = b.used + 1, !.scopes = sc] \in BudgetRecords
  <2>1. \A n \in Nat : [b EXCEPT !.used = n, !.scopes = sc] \in BudgetRecords
    BY <1>4 DEF BudgetRecords
  <2> DEFINE n == b.used + 1
  <2>2. n \in Nat
    BY <1>1
  <2> HIDE DEF n
  <2>3. [b EXCEPT !.used = n, !.scopes = sc] \in BudgetRecords
    BY <2>1, <2>2
  <2> QED BY <2>3 DEF n
<1> QED BY <1>5, <1>6 DEF sc

(* What a paid request finds: its budget, a scope of it, and the link.      *)
LEMMA SpendLinkType ==
  ASSUME TypeOK, pend.budget # 0, budget_for(pend.req) = pend.budget
  PROVE  LET b == budgets[pend.budget]
             j == First(PayingScopes(b, pend.req))
         IN  /\ pend.budget \in 1 .. MaxLive
             /\ b \in BudgetRecords /\ j \in DOMAIN b.scopes
             /\ [append("use") EXCEPT !.id = b.id, !.step = b.used + 1,
                    !.scope = j, !.req = pend.req] \in LinkRecords
<1> DEFINE i == pend.budget
           b == budgets[i]
           j == First(PayingScopes(b, pend.req))
           n == b.used + 1
<1>1. i \in 1 .. MaxLive /\ pend.req \in Requests \union {NoReq}
  BY SizesAssumption DEF TypeOK, PendRecords
<1>2. b \in BudgetRecords /\ b.scopes \in Seq(ScopeRecords) /\ b.id \in Nat
      /\ b.used \in Nat
  BY <1>1 DEF TypeOK, BudgetRecords
<1>3. PayingScopes(b, pend.req) # {}
  <2> DEFINE payers == {k \in 1 .. MaxLive :
               Payable_now(budgets[k]) /\ PayingScopes(budgets[k], pend.req) # {}}
  <2>1. payers # {} /\ First(payers) = i
    BY DEF budget_for
  <2>2. First(payers) \in payers
    BY <2>1, SlotType
  <2> QED BY <2>1, <2>2
<1>4. j \in DOMAIN b.scopes
  BY <1>2, <1>3, PayingScopeType
<1>5. j \in Nat /\ n \in Nat /\ append("use") \in LinkRecords
  BY <1>2, <1>4, BareLinkType DEF LinkOps
<1> HIDE DEF n
<1>6. [append("use") EXCEPT !.id = b.id, !.step = n, !.scope = j, !.req = pend.req]
        \in LinkRecords
  BY <1>1, <1>2, <1>5, UseLinkType
<1> QED BY <1>1, <1>2, <1>4, <1>6 DEF n

LEMMA SpendBudgetType ==
  ASSUME TypeOK, SpendBudget
  PROVE  /\ budgets' \in [1 .. MaxLive -> BudgetRecords]
         /\ st' \in EdgeRecords /\ disk' \in EdgeRecords
         /\ held' \in Rings /\ tx' \in TxRecords
<1>1. CASE ~(pend.budget # 0 /\ budget_for(pend.req) = pend.budget)
  BY <1>1 DEF SpendBudget, TypeOK, record
<1>2. CASE pend.budget # 0 /\ budget_for(pend.req) = pend.budget
  <2> DEFINE b == budgets[pend.budget]
             j == First(PayingScopes(b, pend.req))
             l == [append("use") EXCEPT !.id = b.id, !.step = b.used + 1,
                     !.scope = j, !.req = pend.req]
             c == [budgets EXCEPT ![pend.budget] = Spent(b, j)]
  <2>1. pend.budget \in 1 .. MaxLive /\ b \in BudgetRecords /\ j \in DOMAIN b.scopes
        /\ l \in LinkRecords
    BY <1>2, SpendLinkType
  <2>2. budgets' = c /\ weld_in(l)
    BY <1>2 DEF SpendBudget
  <2>3. c \in [1 .. MaxLive -> BudgetRecords]
    BY <2>1, SpentType DEF TypeOK
  <2> HIDE DEF l, c
  <2> QED BY <2>1, <2>2, <2>3, WeldInType
<1> QED BY <1>1, <1>2

LEMMA RunUnpressedType == TypeOK /\ RunUnpressed => TypeOK'
<1> SUFFICES ASSUME TypeOK, RunUnpressed PROVE TypeOK'
  OBVIOUS
<1>1. CASE pend' = NoPend /\ wait' = "none" /\ UNCHANGED <<record, budgets, tx, held, busy>>
  BY <1>1, EmptyTypes DEF RunUnpressed, TypeOK, record, session, outside
<1>2. CASE SpendBudget /\ pend' = [pend EXCEPT !.active = FALSE] /\ busy' = "running"
           /\ UNCHANGED wait
  <2>1. pend' \in PendRecords
    BY <1>2 DEF TypeOK, PendRecords
  <2> QED BY <1>2, <2>1, SpendBudgetType DEF RunUnpressed, TypeOK, session, outside
<1> QED BY <1>1, <1>2 DEF RunUnpressed

LEMMA OtherDecisionsType ==
  TypeOK /\ (primed_other \/ Release \/ DecideOrdinary \/ settle_pressed \/ DropDecision) => TypeOK'
BY EmptyTypes DEF primed_other, Release, DecideOrdinary, settle_pressed, DropDecision, TypeOK,
                  record, session, outside

LEMMA grant_pressedType == TypeOK /\ grant_pressed => TypeOK'
<1> SUFFICES ASSUME TypeOK, grant_pressed PROVE TypeOK'
  OBVIOUS
<1> DEFINE id == Len(st.log) + 1
           l  == [append("create") EXCEPT !.id = id, !.scopes = press.scopes]
           b  == [id |-> id, scopes |-> press.scopes, uses |-> press.uses,
                  used |-> 0, onHold |-> FALSE, opened |-> millis,
                  life |-> press.life, openedAt |-> now]
<1>1. id \in Nat /\ millis \in Nat /\ now \in Nat /\ press \in PressRecords
  BY LogLength, MillisType DEF TypeOK
<1>2. l \in LinkRecords
  <2>1. append("create") \in LinkRecords
    BY BareLinkType DEF LinkOps
  <2> HIDE DEF id
  <2> QED BY <1>1, <2>1 DEF LinkRecords, PressRecords
<1>3. b \in BudgetRecords
  <2> HIDE DEF id
  <2> QED BY <1>1 DEF BudgetRecords, PressRecords
<1>4. budgets' = [budgets EXCEPT ![First(FreeSlots)] = b] /\ weld_in(l)
  BY DEF grant_pressed
<1> HIDE DEF l, b
<1>5. budgets' \in [1 .. MaxLive -> BudgetRecords]
  BY <1>3, <1>4 DEF TypeOK
<1> QED BY <1>2, <1>4, <1>5, WeldInType, EmptyTypes
        DEF grant_pressed, TypeOK, session, outside

LEMMA resume_pressedType == TypeOK /\ resume_pressed => TypeOK'
<1> SUFFICES ASSUME TypeOK, resume_pressed PROVE TypeOK'
  OBVIOUS
<1> DEFINE l == [append("resume") EXCEPT !.id = press.id]
<1>1. l \in LinkRecords
  <2>1. append("resume") \in LinkRecords
    BY BareLinkType DEF LinkOps
  <2> QED BY <2>1 DEF LinkRecords, TypeOK, PressRecords
<1> HIDE DEF l
<1>2. weld_in(l)
  BY DEF resume_pressed, l
<1>3. budgets' \in [1 .. MaxLive -> BudgetRecords]
  BY DEF resume_pressed, TypeOK, BudgetRecords
<1> QED BY <1>1, <1>2, <1>3, WeldInType, EmptyTypes
        DEF resume_pressed, TypeOK, session, outside

LEMMA SettleStepType == TypeOK /\ SettleStep => TypeOK'
<1> SUFFICES ASSUME TypeOK, SettleStep PROVE TypeOK'
  OBVIOUS
<1> DEFINE l == [append("receipt") EXCEPT !.id = st.debt, !.how = "settled"]
<1>1. CASE AliveSlots # {} /\ end_budget(First(AliveSlots), "settled") /\ UNCHANGED busy
  <2>1. First(AliveSlots) \in 1 .. MaxLive /\ "settled" \in Hows
    BY <1>1, SlotType DEF AliveSlots, Hows
  <2> QED BY <1>1, <2>1, EndBudgetType DEF SettleStep, TypeOK, session, outside
<1>2. CASE weld_in(l) /\ busy' = "idle" /\ UNCHANGED budgets
  <2>1. l \in LinkRecords
    <3>1. append("receipt") \in LinkRecords
      BY BareLinkType DEF LinkOps
    <3>2. st.debt \in Nat /\ "settled" \in Hows
      BY DEF TypeOK, EdgeRecords, Hows
    <3> QED BY <3>1, <3>2 DEF LinkRecords
  <2> HIDE DEF l
  <2> QED BY <1>2, <2>1, WeldInType DEF SettleStep, TypeOK, session, outside
<1> QED BY <1>1, <1>2 DEF SettleStep

LEMMA loss_pressedType == TypeOK /\ loss_pressed => TypeOK'
<1> SUFFICES ASSUME TypeOK, loss_pressed PROVE TypeOK'
  OBVIOUS
<1> DEFINE l == [append("loss") EXCEPT !.id = press.id, !.step = loss_subject(press.to)]
<1>1. loss_subject(press.to) \in Nat
  BY DEF loss_subject, TypeOK, PressRecords
<1>2. l \in LinkRecords
  <2>1. append("loss") \in LinkRecords
    BY BareLinkType DEF LinkOps
  <2> QED BY <1>1, <2>1 DEF LinkRecords, TypeOK, PressRecords
<1> HIDE DEF l
<1>3. weld_in(l)
  BY DEF loss_pressed, l
<1> QED BY <1>2, <1>3, WeldInType, EmptyTypes DEF loss_pressed, TypeOK, session, outside

-----------------------------------------------------------------------------
(* Identity, backup, restore, wipe, restart. *)

LEMMA DrawSaltType == TypeOK /\ DrawSalt => TypeOK'
<1> SUFFICES ASSUME TypeOK, DrawSalt PROVE TypeOK'
  OBVIOUS
<1> DEFINE n == salts + 1
<1>1. n \in Nat /\ st \in EdgeRecords
  BY DEF TypeOK
<1>2. st' = [st EXCEPT !.salted = TRUE, !.chain = n] /\ disk' = st' /\ salts' = n
  BY DEF DrawSalt, state_save
<1> HIDE DEF n
<1>3. st' \in EdgeRecords
  BY <1>1, <1>2 DEF EdgeRecords
<1> QED BY <1>1, <1>2, <1>3 DEF DrawSalt, TypeOK, session

LEMMA IdentifyType == TypeOK /\ Identify => TypeOK'
<1> SUFFICES ASSUME TypeOK, Identify PROVE TypeOK'
  OBVIOUS
<1>1. CASE UNCHANGED <<record, budgets, tx, held>>
  BY <1>1 DEF Identify, TypeOK, record, outside
<1>2. CASE write_continue
  <2> DEFINE l == [append("continue") EXCEPT !.id = IF owes THEN 1 ELSE 0]
  <2>1. l \in LinkRecords
    <3>1. append("continue") \in LinkRecords
      BY BareLinkType DEF LinkOps
    <3> QED BY <3>1 DEF LinkRecords
  <2> HIDE DEF l
  <2>2. Weld(st, l) \in EdgeRecords
    BY <2>1, WeldType DEF TypeOK
  <2>3. [Weld(st, l) EXCEPT !.cont = FALSE] \in EdgeRecords
    <3> DEFINE w == Weld(st, l)
    <3> HIDE DEF w
    <3>1. w \in EdgeRecords => [w EXCEPT !.cont = FALSE] \in EdgeRecords
      BY DEF EdgeRecords
    <3> QED BY <2>2, <3>1 DEF w
  <2>4. st' \in EdgeRecords /\ disk' \in EdgeRecords
    BY <1>2, <2>3 DEF write_continue, state_save, l
  <2>5. Hold(NoHeld, Len(st.log) + 1) \in Rings
    <3>1. Len(st.log) + 1 \in Nat
      BY LogLength
    <3> QED BY <3>1, HoldType, EmptyTypes
  <2> QED BY <1>2, <2>4, <2>5, EmptyTypes DEF write_continue, Identify, TypeOK, outside
<1> QED BY <1>1, <1>2 DEF Identify

LEMMA BackupType == TypeOK /\ okplugin_edge_backup => TypeOK'
BY DEF okplugin_edge_backup, TypeOK, EdgeRecords, record, session

LEMMA RestoreType == TypeOK /\ okplugin_edge_restore => TypeOK'
<1> SUFFICES ASSUME TypeOK, okplugin_edge_restore PROVE TypeOK'
  OBVIOUS
<1>1. st' = [log |-> backup.log, debt |-> backup.debt, salted |-> FALSE,
             chain |-> st.chain, cont |-> TRUE] /\ disk' = st'
  BY DEF okplugin_edge_restore, state_save
<1>2. backup.log \in Logs /\ backup.debt \in Nat /\ st.chain \in Nat
  BY DEF TypeOK, EdgeRecords
<1>3. st' \in EdgeRecords /\ disk' \in EdgeRecords
  BY <1>1, <1>2 DEF EdgeRecords
<1> QED BY <1>3, EmptyTypes DEF okplugin_edge_restore, TypeOK, outside

LEMMA BootType ==
  ASSUME NEW s \in EdgeRecords, Boot(s), st' = s, disk' = s, TypeOK,
         UNCHANGED <<backup, salts>>
  PROVE  TypeOK'
<1>1. Len(s.log) \in Nat
  BY DEF EdgeRecords, Logs
<1>2. held' \in Rings
  BY <1>1, EmptyTypes, HoldType DEF Boot
<1>3. 0 \in 0 .. RefusedMax
  BY SizesAssumption
<1> QED BY <1>2, <1>3, EmptyTypes DEF Boot, TypeOK

LEMMA LifecycleType == TypeOK /\ Lifecycle => TypeOK'
<1> SUFFICES ASSUME TypeOK, Lifecycle PROVE TypeOK'
  OBVIOUS
<1>1. CASE okplugin_edge_wipe
  <2>1. EmptyRecord \in EdgeRecords
    BY EmptyTypes
  <2> QED BY <1>1, <2>1, BootType DEF okplugin_edge_wipe, state_save
<1>2. CASE Restart
  <2>1. disk \in EdgeRecords
    BY DEF TypeOK
  <2>2. st' = disk /\ disk' = disk /\ Boot(disk) /\ UNCHANGED <<backup, salts>>
    BY <1>2 DEF Restart
  <2> QED BY <2>1, <2>2, BootType
<1>3. CASE Unlock \/ EnterConfig
  BY <1>3 DEF Unlock, EnterConfig, TypeOK, record, outside
<1> QED BY <1>1, <1>2, <1>3, DrawSaltType, IdentifyType, BackupType, RestoreType
        DEF Lifecycle

LEMMA RequestType == TypeOK /\ Request => TypeOK'
<1> SUFFICES ASSUME TypeOK, Request PROVE TypeOK'
  OBVIOUS
<1>1. ASSUME NEW i \in 1 .. MaxLive, NEW h \in HostHeads, grant_resume(budgets[i].id, h)
      PROVE  TypeOK'
  <2>1. budgets[i].id \in Nat
    BY DEF TypeOK, BudgetRecords
  <2> QED BY <1>1, <2>1, grant_resumeType
<1> QED BY <1>1, QueryType, grant_labelType, grant_createType, grant_revokeType,
           grant_holdType, receiptType, settleType, tx_startType, lossType,
           okplugin_edge_primedType, OtherDecisionsType
        DEF Request

LEMMA NextType == TypeOK /\ [Next]_vars => TypeOK'
<1>1. TypeOK /\ Decision => TypeOK'
  BY RunUnpressedType, OtherDecisionsType, grant_pressedType, resume_pressedType,
     loss_pressedType DEF Decision
<1>2. TypeOK /\ Continuation => TypeOK'
  BY complete_fulfilledType, SettleStepType, OtherDecisionsType DEF Continuation
<1>3. TypeOK /\ Tick => TypeOK'
  BY DEF Tick, TypeOK
<1>4. TypeOK /\ UNCHANGED vars => TypeOK'
  BY DEF vars, TypeOK
<1> QED BY <1>1, <1>2, <1>3, <1>4, RequestType, LifecycleType DEF Next

LEMMA InitType == Init => TypeOK
<1>1. 0 \in 0 .. RefusedMax
  BY SizesAssumption
<1> SUFFICES ASSUME Init PROVE TypeOK
  OBVIOUS
<1>2. st \in EdgeRecords /\ disk \in EdgeRecords /\ backup \in [log : Logs, debt : Nat]
      /\ budgets \in [1 .. MaxLive -> BudgetRecords] /\ held \in Rings
  BY EmptyTypes DEF Init
<1>3. tx \in TxRecords /\ pend \in PendRecords /\ press \in PressRecords
      /\ staged \in StagedRecords
  BY EmptyTypes DEF Init
<1>4. /\ mode \in {"locked", "open", "config"} /\ ident \in BOOLEAN
      /\ wait \in {"none", "edge", "sign"}
      /\ busy \in {"idle", "completing", "settling", "running", "identity"}
      /\ now \in Nat /\ salts \in Nat /\ refused \in 0 .. RefusedMax
  BY <1>1 DEF Init
<1> QED BY <1>2, <1>3, <1>4 DEF TypeOK

(* Every variable keeps its type, for any number of budgets, scopes, links, *)
(* labels and requests.                                                     *)
THEOREM TypeCorrect == Spec => []TypeOK
BY InitType, NextType, PTL DEF Spec

-----------------------------------------------------------------------------
(***************************************************************************)
(* The debt.  DebtIs alone is not inductive: that a receipt names the debt *)
(* and that a use finds none is what each handler checks, but the record a *)
(* restart loads and the one a restore goes on from have to agree too, so  *)
(* the invariant speaks of all three.                                      *)
(***************************************************************************)

DebtInv ==
  /\ disk = st
  /\ DebtIs(st) /\ StartsPaid(st.log)
  /\ DebtIs(backup) /\ StartsPaid(backup.log)

LEMMA AppendedLog ==
  ASSUME NEW log \in Logs, NEW l \in LinkRecords
  PROVE  /\ Len(log) \in Nat /\ DOMAIN log = 1 .. Len(log)
         /\ DOMAIN Append(log, l) = 1 .. Len(log) + 1
         /\ Len(Append(log, l)) = Len(log) + 1
         /\ Append(log, l)[Len(log) + 1] = l
         /\ \A k \in 1 .. Len(log) : Append(log, l)[k] = log[k]
BY DEF Logs

LEMMA PaidStays ==
  ASSUME NEW log \in Logs, NEW l \in LinkRecords,
         NEW i \in 1 .. Len(log), NEW j \in 1 .. Len(log) + 1
  PROVE  PaidBefore(Append(log, l), i, j) <=> PaidBefore(log, i, j)
<1>1. \A k \in (i + 1) .. (j - 1) : k \in 1 .. Len(log)
  BY AppendedLog
<1> QED BY <1>1, AppendedLog DEF PaidBefore

LEMMA PaidAfter ==
  ASSUME NEW log \in Logs, NEW l \in LinkRecords, NEW i \in 1 .. Len(log)
  PROVE  PaidBefore(Append(log, l), i, Len(log) + 2) <=>
           PaidBefore(log, i, Len(log) + 1) \/ (l.op = "receipt" /\ l.id = i)
<1> DEFINE new == Append(log, l)
           n   == Len(log)
<1>1. n \in Nat /\ new[n + 1] = l /\ \A k \in 1 .. n : new[k] = log[k]
  BY AppendedLog
<1>2. \A k : k \in (i + 1) .. ((n + 2) - 1) <=> k \in (i + 1) .. ((n + 1) - 1) \/ k = n + 1
  BY <1>1
<1>3. \A k \in (i + 1) .. ((n + 1) - 1) : k \in 1 .. n
  BY <1>1
<1> HIDE DEF new, n
<1>4. PaidBefore(new, i, n + 2) <=>
        \/ \E k \in (i + 1) .. ((n + 1) - 1) : new[k].op = "receipt" /\ new[k].id = i
        \/ l.op = "receipt" /\ l.id = i
  BY <1>1, <1>2 DEF PaidBefore
<1>5. PaidBefore(log, i, n + 1) <=>
        \E k \in (i + 1) .. ((n + 1) - 1) : new[k].op = "receipt" /\ new[k].id = i
  BY <1>1, <1>3 DEF PaidBefore
<1> QED BY <1>4, <1>5 DEF new, n

(* What a link does to the uses nobody has paid: a use adds itself, a       *)
(* receipt takes the one it names, every other link leaves them.            *)
LEMMA UnpaidAfter ==
  ASSUME NEW log \in Logs, NEW l \in LinkRecords
  PROVE  Unpaid(Append(log, l)) =
           IF l.op = "use" THEN Unpaid(log) \union {Len(log) + 1}
           ELSE IF l.op = "receipt" THEN Unpaid(log) \ {l.id}
           ELSE Unpaid(log)
<1> DEFINE new == Append(log, l)
           n   == Len(log)
<1>1. n \in Nat /\ DOMAIN log = 1 .. n /\ DOMAIN new = 1 .. n + 1 /\ Len(new) = n + 1
      /\ new[n + 1] = l /\ \A k \in 1 .. n : new[k] = log[k]
  BY AppendedLog
<1>2. \A i \in 1 .. n : PaidBefore(new, i, n + 2) <=>
        PaidBefore(log, i, n + 1) \/ (l.op = "receipt" /\ l.id = i)
  BY PaidAfter
<1>3. ~PaidBefore(new, n + 1, n + 2)
  BY <1>1 DEF PaidBefore
<1> HIDE DEF new, n
<1>4. \A i : i \in Unpaid(new) <=>
        /\ i \in 1 .. n + 1 /\ new[i].op = "use" /\ ~PaidBefore(new, i, n + 2)
  BY <1>1 DEF Unpaid, At
<1>5. \A i : i \in Unpaid(log) <=>
        /\ i \in 1 .. n /\ log[i].op = "use" /\ ~PaidBefore(log, i, n + 1)
  BY <1>1 DEF Unpaid, At, n
<1>6. \A i : i \in Unpaid(new) <=>
        \/ i \in Unpaid(log) /\ ~(l.op = "receipt" /\ l.id = i)
        \/ i = n + 1 /\ l.op = "use"
  BY <1>1, <1>2, <1>3, <1>4, <1>5
<1>7. n + 1 \notin Unpaid(log)
  BY <1>1, <1>5
<1>8. CASE l.op = "use"
  BY <1>6, <1>8 DEF new, n
<1>9. CASE l.op = "receipt"
  BY <1>6, <1>9 DEF new, n
<1>10. CASE l.op # "use" /\ l.op # "receipt"
  BY <1>6, <1>10 DEF new, n
<1> QED BY <1>8, <1>9, <1>10

(* A link that starts something found no debt; a receipt names the debt.    *)
LEMMA WeldKeepsDebt ==
  ASSUME NEW s \in EdgeRecords, DebtIs(s), StartsPaid(s.log),
         NEW l \in LinkRecords,
         l.op \in {"use", "create", "resume"} => s.debt = 0,
         l.op = "receipt" => l.id = s.debt
  PROVE  DebtIs(Weld(s, l)) /\ StartsPaid(Weld(s, l).log)
<1> DEFINE n == Len(s.log)
<1>1. s.log \in Logs /\ s.debt \in Nat /\ n \in Nat
  BY DEF EdgeRecords, Logs
<1>2. Weld(s, l).log = Append(s.log, l) /\ Weld(s, l).debt = DebtAfter(s, l)
  BY WeldType
<1>3. DebtIs(Weld(s, l))
  <2>1. Unpaid(s.log) = IF s.debt = 0 THEN {} ELSE {s.debt}
    BY DEF DebtIs
  <2>2. Unpaid(Append(s.log, l)) = IF DebtAfter(s, l) = 0 THEN {} ELSE {DebtAfter(s, l)}
    <3>1. CASE l.op = "use"
      <4>1. Unpaid(s.log) = {} /\ DebtAfter(s, l) = n + 1 /\ n + 1 # 0
        BY <1>1, <2>1, <3>1 DEF DebtAfter
      <4>2. Unpaid(Append(s.log, l)) = Unpaid(s.log) \union {n + 1}
        BY <1>1, <3>1, UnpaidAfter
      <4> QED BY <4>1, <4>2
    <3>2. CASE l.op = "receipt"
      <4>1. DebtAfter(s, l) = 0 /\ l.id = s.debt
        BY <3>2 DEF DebtAfter
      <4>2. Unpaid(Append(s.log, l)) = Unpaid(s.log) \ {l.id}
        BY <1>1, <3>2, UnpaidAfter
      <4> QED BY <2>1, <4>1, <4>2
    <3>3. CASE l.op # "use" /\ l.op # "receipt"
      <4>1. DebtAfter(s, l) = s.debt
        BY <3>3 DEF DebtAfter
      <4>2. Unpaid(Append(s.log, l)) = Unpaid(s.log)
        BY <1>1, <3>3, UnpaidAfter
      <4> QED BY <2>1, <4>1, <4>2
    <3> QED BY <3>1, <3>2, <3>3
  <2> QED BY <1>2, <2>2 DEF DebtIs
<1>4. StartsPaid(Append(s.log, l))
  <2> DEFINE new == Append(s.log, l)
  <2> SUFFICES ASSUME NEW i \in At(new, "use"), NEW j \in DOMAIN new, j > i,
                      new[j].op \in {"use", "create", "resume"}
               PROVE  PaidBefore(new, i, j)
    BY DEF StartsPaid
  <2>1. i \in 1 .. n /\ j \in 1 .. n + 1 /\ new[i] = s.log[i] /\ i \in At(s.log, "use")
    BY <1>1, AppendedLog DEF At
  <2>2. PaidBefore(new, i, j) <=> PaidBefore(s.log, i, j)
    BY <1>1, <2>1, PaidStays
  <2>3. CASE j \in 1 .. n
    BY <1>1, <2>1, <2>2, <2>3, AppendedLog DEF StartsPaid
  <2>4. CASE j = n + 1
    <3>1. s.debt = 0
      BY <1>1, <2>4, AppendedLog
    <3>2. i \notin Unpaid(s.log)
      BY <3>1 DEF DebtIs
    <3> QED BY <2>1, <2>2, <2>4, <3>2 DEF Unpaid
  <2> QED BY <1>1, <2>1, <2>3, <2>4
<1> QED BY <1>2, <1>3, <1>4

(* The same of a whole weld: the copy on flash is the copy in RAM.          *)
LEMMA WeldInKeepsDebt ==
  ASSUME TypeOK, DebtInv, NEW l \in LinkRecords, weld_in(l), UNCHANGED backup,
         l.op \in {"use", "create", "resume"} => st.debt = 0,
         l.op = "receipt" => l.id = st.debt
  PROVE  DebtInv'
<1>1. st' = Weld(st, l) /\ disk' = Weld(st, l)
  BY DEF weld_in, state_save
<1>2. DebtIs(Weld(st, l)) /\ StartsPaid(Weld(st, l).log)
  <2>1. st \in EdgeRecords
    BY DEF TypeOK
  <2> QED BY <2>1, WeldKeepsDebt DEF DebtInv
<1> QED BY <1>1, <1>2 DEF DebtInv, DebtIs

LEMMA QuietKeepsDebt ==
  DebtInv /\ UNCHANGED <<st, disk, backup>> => DebtInv'
BY DEF DebtInv, DebtIs

LEMMA EndKeepsDebt ==
  ASSUME TypeOK, DebtInv, NEW i \in 1 .. MaxLive, NEW how \in Hows,
         end_budget(i, how), UNCHANGED backup
  PROVE  DebtInv'
<1> DEFINE l == [append("end") EXCEPT !.id = budgets[i].id, !.how = how]
<1>1. append("end") \in LinkRecords /\ append("end").op = "end"
  BY BareLinkType DEF LinkOps, append
<1>2. budgets[i].id \in Nat
  BY DEF TypeOK, BudgetRecords
<1>3. l \in LinkRecords /\ l.op = "end"
  BY <1>1, <1>2 DEF LinkRecords
<1>4. weld_in(l)
  BY DEF end_budget
<1> HIDE DEF l
<1> QED BY <1>3, <1>4, WeldInKeepsDebt

LEMMA RequestKeepsDebt == TypeOK /\ DebtInv /\ Request => DebtInv'
<1> SUFFICES ASSUME TypeOK, DebtInv, Request PROVE DebtInv'
  OBVIOUS
<1>1. ASSUME NEW i \in 1 .. MaxLive, grant_revoke(i) PROVE DebtInv'
  <2>1. end_budget(i, "revoked") /\ UNCHANGED backup /\ "revoked" \in Hows
    BY <1>1 DEF grant_revoke, outside, Hows
  <2> QED BY <2>1, EndKeepsDebt
<1>2. ASSUME NEW i \in 1 .. MaxLive, grant_hold(i) PROVE DebtInv'
  <2> DEFINE l == [append("hold") EXCEPT !.id = budgets[i].id]
  <2>1. append("hold") \in LinkRecords /\ append("hold").op = "hold"
    BY BareLinkType DEF LinkOps, append
  <2>2. budgets[i].id \in Nat
    BY DEF TypeOK, BudgetRecords
  <2>3. l \in LinkRecords /\ l.op = "hold"
    BY <2>1, <2>2 DEF LinkRecords
  <2>4. weld_in(l) /\ UNCHANGED backup
    BY <1>2 DEF grant_hold, outside
  <2> HIDE DEF l
  <2> QED BY <2>3, <2>4, WeldInKeepsDebt
<1>3. CASE receipt
  <2> DEFINE l == [append("receipt") EXCEPT !.id = st.debt, !.how = "answered"]
  <2>1. append("receipt") \in LinkRecords /\ "answered" \in Hows
    BY BareLinkType DEF LinkOps, Hows
  <2>2. st.debt \in Nat
    BY DEF TypeOK, EdgeRecords
  <2>3. l \in LinkRecords /\ l.op = "receipt" /\ l.id = st.debt
    BY <2>1, <2>2 DEF LinkRecords, append
  <2>4. weld_in(l) /\ UNCHANGED backup
    BY <1>3 DEF receipt, outside
  <2> HIDE DEF l
  <2> QED BY <2>3, <2>4, WeldInKeepsDebt
<1>4. CASE \/ Query \/ settle \/ primed_other
           \/ \E j \in 1 .. MaxScopes, l \in Labels : grant_label(j, l)
           \/ \E g \in Grants, h \in HostHeads : grant_create(g, h)
           \/ \E i \in 1 .. MaxLive, h \in HostHeads : grant_resume(budgets[i].id, h)
           \/ \E h \in HostHeads, r \in Requests : tx_start(h, r)
           \/ \E r \in Ranges : loss(r)
           \/ \E r \in Requests, asks \in BOOLEAN : okplugin_edge_primed(r, asks)
  <2>1. UNCHANGED <<st, disk, backup>>
    BY <1>4 DEF Query, settle, primed_other, grant_label, grant_create, grant_resume, tx_start, loss,
                okplugin_edge_primed, record, outside
  <2> QED BY <2>1, QuietKeepsDebt
<1> QED BY <1>1, <1>2, <1>3, <1>4 DEF Request

LEMMA SpendKeepsDebt ==
  ASSUME TypeOK, DebtInv, SpendBudget, UNCHANGED backup PROVE DebtInv'
<1>1. CASE UNCHANGED <<record, budgets, tx, held>>
  BY <1>1, QuietKeepsDebt DEF record
<1>2. CASE pend.budget # 0 /\ budget_for(pend.req) = pend.budget
  <2> DEFINE b == budgets[pend.budget]
             j == First(PayingScopes(b, pend.req))
             l == [append("use") EXCEPT !.id = b.id, !.step = b.used + 1,
                     !.scope = j, !.req = pend.req]
  <2>1. weld_in(l)
    BY <1>2 DEF SpendBudget
  <2>2. l \in LinkRecords
    BY <1>2, SpendLinkType
  <2>3. l.op = "use"
    BY DEF append
  <2>4. st.debt = 0
    BY <1>2 DEF budget_for, owes
  <2> HIDE DEF l
  <2> QED BY <2>1, <2>2, <2>3, <2>4, WeldInKeepsDebt
<1> QED BY <1>1, <1>2 DEF SpendBudget

LEMMA DecisionKeepsDebt == TypeOK /\ DebtInv /\ Decision => DebtInv'
<1> SUFFICES ASSUME TypeOK, DebtInv, Decision PROVE DebtInv'
  OBVIOUS
<1>1. CASE RunUnpressed
  <2>1. SpendBudget \/ UNCHANGED <<st, disk>>
    BY <1>1 DEF RunUnpressed, record
  <2>2. UNCHANGED backup
    BY <1>1 DEF RunUnpressed, outside
  <2> QED BY <2>1, <2>2, SpendKeepsDebt, QuietKeepsDebt
<1>2. CASE grant_pressed
  <2> DEFINE l == [append("create") EXCEPT !.id = Len(st.log) + 1, !.scopes = press.scopes]
  <2>1. weld_in(l) /\ UNCHANGED backup /\ st.debt = 0
    BY <1>2 DEF grant_pressed, outside, GrantStands, owes
  <2>2. l \in LinkRecords /\ l.op = "create"
    <3> DEFINE id == Len(st.log) + 1
    <3>1. id \in Nat /\ press \in PressRecords
      BY LogLength DEF TypeOK
    <3>2. append("create") \in LinkRecords /\ append("create").op = "create"
      BY BareLinkType DEF LinkOps, append
    <3> HIDE DEF id
    <3>3. [append("create") EXCEPT !.id = id, !.scopes = press.scopes] \in LinkRecords
      BY <3>1, <3>2 DEF LinkRecords, PressRecords
    <3> QED BY <3>3 DEF id, append
  <2> HIDE DEF l
  <2> QED BY <2>1, <2>2, WeldInKeepsDebt
<1>3. CASE resume_pressed
  <2> DEFINE l == [append("resume") EXCEPT !.id = press.id]
  <2>1. weld_in(l) /\ UNCHANGED backup /\ st.debt = 0
    BY <1>3 DEF resume_pressed, outside, ResumeStands, owes
  <2>2. append("resume") \in LinkRecords
    BY BareLinkType DEF LinkOps
  <2>3. l \in LinkRecords
    BY <2>2 DEF LinkRecords, TypeOK, PressRecords
  <2>4. l.op # "receipt"
    BY DEF append
  <2> HIDE DEF l
  <2> QED BY <2>1, <2>3, <2>4, WeldInKeepsDebt
<1>4. CASE loss_pressed
  <2> DEFINE l == [append("loss") EXCEPT !.id = press.id, !.step = loss_subject(press.to)]
  <2>1. weld_in(l) /\ UNCHANGED backup
    BY <1>4 DEF loss_pressed, outside
  <2>2. append("loss") \in LinkRecords /\ append("loss").op = "loss"
    BY BareLinkType DEF LinkOps, append
  <2>3. press.id \in Nat /\ loss_subject(press.to) \in Nat
    BY DEF TypeOK, PressRecords, loss_subject
  <2>4. l \in LinkRecords
    BY <2>2, <2>3 DEF LinkRecords
  <2>5. l.op = "loss"
    BY DEF append
  <2> HIDE DEF l
  <2> QED BY <2>1, <2>4, <2>5, WeldInKeepsDebt
<1>5. CASE DecideOrdinary \/ settle_pressed \/ DropDecision
  <2>1. UNCHANGED <<st, disk, backup>>
    BY <1>5 DEF DecideOrdinary, settle_pressed, DropDecision, record, outside
  <2> QED BY <2>1, QuietKeepsDebt
<1> QED BY <1>1, <1>2, <1>3, <1>4, <1>5 DEF Decision

LEMMA ContinuationKeepsDebt == TypeOK /\ DebtInv /\ Continuation => DebtInv'
<1> SUFFICES ASSUME TypeOK, DebtInv, Continuation PROVE DebtInv'
  OBVIOUS
<1>1. CASE complete_fulfilled
  <2>1. CASE FulfilledSlots # {} /\ end_budget(First(FulfilledSlots), "completed")
    <3>1. First(FulfilledSlots) \in 1 .. MaxLive /\ "completed" \in Hows
      BY <2>1, SlotType DEF FulfilledSlots, AliveSlots, Hows
    <3>2. UNCHANGED backup
      BY <1>1 DEF complete_fulfilled, outside
    <3> QED BY <2>1, <3>1, <3>2, EndKeepsDebt
  <2>2. CASE UNCHANGED <<st, disk>>
    BY <1>1, <2>2, QuietKeepsDebt DEF complete_fulfilled, outside
  <2> QED BY <1>1, <2>1, <2>2 DEF complete_fulfilled, record
<1>2. CASE SettleStep
  <2> DEFINE l == [append("receipt") EXCEPT !.id = st.debt, !.how = "settled"]
  <2>0. UNCHANGED backup
    BY <1>2 DEF SettleStep, outside
  <2>1. CASE AliveSlots # {} /\ end_budget(First(AliveSlots), "settled")
    <3>1. First(AliveSlots) \in 1 .. MaxLive /\ "settled" \in Hows
      BY <2>1, SlotType DEF AliveSlots, Hows
    <3> QED BY <2>0, <2>1, <3>1, EndKeepsDebt
  <2>2. CASE weld_in(l)
    <3>1. append("receipt") \in LinkRecords /\ "settled" \in Hows
      BY BareLinkType DEF LinkOps, Hows
    <3>2. st.debt \in Nat
      BY DEF TypeOK, EdgeRecords
    <3>3. l \in LinkRecords /\ l.op = "receipt" /\ l.id = st.debt
      BY <3>1, <3>2 DEF LinkRecords, append
    <3> HIDE DEF l
    <3> QED BY <2>0, <2>2, <3>3, WeldInKeepsDebt
  <2> QED BY <1>2, <2>1, <2>2 DEF SettleStep
<1>3. CASE Release
  BY <1>3, QuietKeepsDebt DEF Release, record, outside
<1> QED BY <1>1, <1>2, <1>3 DEF Continuation

(* A continue link carries the debt over; a salt, a backup, a restore, a    *)
(* wipe and a restart leave chain and debt as a pair.                       *)
LEMMA LifecycleKeepsDebt == TypeOK /\ DebtInv /\ Lifecycle => DebtInv'
<1> SUFFICES ASSUME TypeOK, DebtInv, Lifecycle PROVE DebtInv'
  OBVIOUS
<1>1. CASE DrawSalt
  <2>1. st'.log = st.log /\ st'.debt = st.debt /\ disk' = st' /\ UNCHANGED backup
    BY <1>1 DEF DrawSalt, state_save, TypeOK, EdgeRecords
  <2> QED BY <2>1 DEF DebtInv, DebtIs
<1>2. CASE Identify
  <2>1. CASE UNCHANGED <<record, budgets, tx, held>>
    BY <1>2, <2>1, QuietKeepsDebt DEF Identify, record, outside
  <2>2. CASE write_continue
    <3> DEFINE l == [append("continue") EXCEPT !.id = IF owes THEN 1 ELSE 0]
               w == Weld(st, l)
    <3>1. append("continue") \in LinkRecords /\ append("continue").op = "continue"
      BY BareLinkType DEF LinkOps, append
    <3>2. l \in LinkRecords /\ l.op = "continue"
      BY <3>1 DEF LinkRecords
    <3>3. st' = [w EXCEPT !.cont = FALSE] /\ disk' = st'
      BY <2>2 DEF write_continue, state_save
    <3>4. st \in EdgeRecords
      BY DEF TypeOK
    <3> HIDE DEF l
    <3>5. DebtIs(w) /\ StartsPaid(w.log) /\ w \in EdgeRecords
      BY <3>2, <3>4, WeldKeepsDebt, WeldType DEF DebtInv
    <3> HIDE DEF w
    <3>6. st'.log = w.log /\ st'.debt = w.debt
      BY <3>3, <3>5 DEF EdgeRecords
    <3>7. UNCHANGED backup
      BY <1>2 DEF Identify, outside
    <3> QED BY <3>3, <3>5, <3>6, <3>7 DEF DebtInv, DebtIs
  <2> QED BY <1>2, <2>1, <2>2 DEF Identify
<1>3. CASE okplugin_edge_backup
  <2>1. backup' = [log |-> st.log, debt |-> st.debt] /\ UNCHANGED <<st, disk>>
    BY <1>3 DEF okplugin_edge_backup, record
  <2> QED BY <2>1 DEF DebtInv, DebtIs
<1>4. CASE okplugin_edge_restore
  <2>1. st'.log = backup.log /\ st'.debt = backup.debt /\ disk' = st' /\ UNCHANGED backup
    BY <1>4 DEF okplugin_edge_restore, state_save, outside
  <2> QED BY <2>1 DEF DebtInv, DebtIs
<1>5. CASE okplugin_edge_wipe
  <2>1. st' = EmptyRecord /\ disk' = EmptyRecord /\ UNCHANGED backup
    BY <1>5 DEF okplugin_edge_wipe, state_save
  <2>2. DebtIs(EmptyRecord) /\ StartsPaid(EmptyRecord.log)
    BY DEF EmptyRecord, DebtIs, StartsPaid, Unpaid, At
  <2> QED BY <2>1, <2>2 DEF DebtInv, DebtIs
<1>6. CASE Restart \/ Unlock \/ EnterConfig
  <2>1. UNCHANGED <<st, disk, backup>>
    BY <1>6 DEF Restart, Unlock, EnterConfig, DebtInv, record, outside
  <2> QED BY <2>1, QuietKeepsDebt
<1> QED BY <1>1, <1>2, <1>3, <1>4, <1>5, <1>6 DEF Lifecycle

LEMMA NextKeepsDebt == TypeOK /\ DebtInv /\ [Next]_vars => DebtInv'
<1>1. DebtInv /\ (Tick \/ UNCHANGED vars) => DebtInv'
  BY QuietKeepsDebt DEF Tick, vars
<1> QED BY <1>1, RequestKeepsDebt, DecisionKeepsDebt, ContinuationKeepsDebt,
           LifecycleKeepsDebt DEF Next

LEMMA InitDebt == Init => DebtInv
<1>1. DebtIs(EmptyRecord) /\ StartsPaid(EmptyRecord.log) /\ DebtIs(NoBackup)
      /\ StartsPaid(NoBackup.log)
  BY DEF EmptyRecord, NoBackup, DebtIs, StartsPaid, Unpaid, At
<1> QED BY <1>1 DEF Init, DebtInv

LEMMA DebtAlways == Spec => []DebtInv
BY InitType, NextType, InitDebt, NextKeepsDebt, PTL DEF Spec

(* The debt the key, its flash and its backup hold is the one use of their  *)
(* chain no receipt has paid - through every handler, crash and restore.    *)
THEOREM DebtIsExact == Spec => []DebtIsTheUnpaidUse
<1>1. DebtInv => DebtIsTheUnpaidUse
  BY DEF DebtInv, DebtIsTheUnpaidUse
<1> QED BY DebtAlways, <1>1, PTL

(* Between a use and the next use, budget or resume of any chain the key    *)
(* ever stands on, the use's receipt is linked.                             *)
THEOREM NothingStartsUnpaid == Spec => []NothingStartsWhileOwed
<1>1. DebtInv => NothingStartsWhileOwed
  BY DEF DebtInv, NothingStartsWhileOwed
<1> QED BY DebtAlways, <1>1, PTL

-----------------------------------------------------------------------------
(* A step that links l on the same device. *)
Links(l) ==
  st'.log = Append(st.log, l) /\ st'.salted = st.salted /\ st'.chain = st.chain

Opens(l) == l.op \in {"create", "resume"}

(* A step that links l: it opens or resumes a budget only over the head the *)
(* host verified, with nothing owed, opens only what waited for the press,  *)
(* links a use only as it runs one, of a live budget, and a receipt only    *)
(* before it looks for fulfilled budgets or - settled - once none is alive. *)
LinksWell(l) ==
  /\ Links(l)
  /\ Opens(l) => press.verified = st.log /\ st.debt = 0
  /\ l.op = "create" => press.what = "grant" /\ l.scopes = press.scopes
  /\ l.op = "use" => RunUnpressed /\ \E i \in AliveSlots : l.id = budgets[i].id
  /\ l.op = "receipt" => (busy' = "completing" /\ l.how # "settled") \/ AliveSlots = {}

LEMMA WeldLinks ==
  ASSUME TypeOK, NEW l \in LinkRecords, weld_in(l) PROVE Links(l)
<1>1. st \in EdgeRecords /\ st' = Weld(st, l)
  BY DEF TypeOK, weld_in, state_save
<1> QED BY <1>1 DEF Weld, EdgeRecords, Links

LEMMA EndLinks ==
  ASSUME TypeOK, NEW i \in 1 .. MaxLive, NEW how \in Hows, end_budget(i, how)
  PROVE  \E l \in LinkRecords : LinksWell(l) /\ weld_in(l)
<1> DEFINE l == [append("end") EXCEPT !.id = budgets[i].id, !.how = how]
<1>1. append("end") \in LinkRecords /\ budgets[i].id \in Nat
  BY BareLinkType DEF LinkOps, TypeOK, BudgetRecords
<1>2. l \in LinkRecords /\ l.op = "end"
  BY <1>1 DEF LinkRecords, append, Opens
<1>3. weld_in(l)
  BY DEF end_budget
<1> HIDE DEF l
<1> QED BY <1>2, <1>3, WeldLinks DEF LinksWell, Opens

LEMMA RequestLinks ==
  TypeOK /\ Request => UNCHANGED <<st, held>> \/ \E l \in LinkRecords : LinksWell(l) /\ weld_in(l)
<1> SUFFICES ASSUME TypeOK, Request
             PROVE  UNCHANGED <<st, held>> \/ \E l \in LinkRecords : LinksWell(l) /\ weld_in(l)
  OBVIOUS
<1>1. ASSUME NEW i \in 1 .. MaxLive, grant_revoke(i)
      PROVE  \E l \in LinkRecords : LinksWell(l) /\ weld_in(l)
  <2>1. end_budget(i, "revoked") /\ "revoked" \in Hows
    BY <1>1 DEF grant_revoke, Hows
  <2> QED BY <2>1, EndLinks
<1>2. ASSUME NEW i \in 1 .. MaxLive, grant_hold(i)
      PROVE  \E l \in LinkRecords : LinksWell(l) /\ weld_in(l)
  <2> DEFINE l == [append("hold") EXCEPT !.id = budgets[i].id]
  <2>1. append("hold") \in LinkRecords /\ budgets[i].id \in Nat
    BY BareLinkType DEF LinkOps, TypeOK, BudgetRecords
  <2>2. l \in LinkRecords /\ l.op = "hold"
    BY <2>1 DEF LinkRecords, append
  <2>3. weld_in(l)
    BY <1>2 DEF grant_hold
  <2> HIDE DEF l
  <2> QED BY <2>2, <2>3, WeldLinks DEF LinksWell, Opens
<1>3. CASE receipt
  <2> DEFINE l == [append("receipt") EXCEPT !.id = st.debt, !.how = "answered"]
  <2>1. append("receipt") \in LinkRecords /\ "answered" \in Hows /\ st.debt \in Nat
    BY BareLinkType DEF LinkOps, Hows, TypeOK, EdgeRecords
  <2>2. l \in LinkRecords /\ l.op = "receipt" /\ l.how = "answered"
    BY <2>1 DEF LinkRecords, append
  <2>3. weld_in(l) /\ busy' = "completing"
    BY <1>3 DEF receipt
  <2> HIDE DEF l
  <2> QED BY <2>2, <2>3, WeldLinks DEF LinksWell, Opens
<1>4. CASE \/ Query \/ settle \/ primed_other
           \/ \E j \in 1 .. MaxScopes, l \in Labels : grant_label(j, l)
           \/ \E g \in Grants, h \in HostHeads : grant_create(g, h)
           \/ \E i \in 1 .. MaxLive, h \in HostHeads : grant_resume(budgets[i].id, h)
           \/ \E h \in HostHeads, r \in Requests : tx_start(h, r)
           \/ \E r \in Ranges : loss(r)
           \/ \E r \in Requests, asks \in BOOLEAN : okplugin_edge_primed(r, asks)
  BY <1>4 DEF Query, settle, primed_other, grant_label, grant_create, grant_resume,
              tx_start, loss, okplugin_edge_primed, record
<1> QED BY <1>1, <1>2, <1>3, <1>4 DEF Request

(* What pays is alive. *)
LEMMA PaysAlive ==
  ASSUME NEW req, budget_for(req) # 0 PROVE budget_for(req) \in AliveSlots
<1> DEFINE payers == {i \in 1 .. MaxLive : Payable_now(budgets[i])
                                           /\ PayingScopes(budgets[i], req) # {}}
<1>1. payers # {} /\ budget_for(req) = First(payers)
  BY DEF budget_for
<1>2. budget_for(req) \in payers
  BY <1>1, SlotType
<1> QED BY <1>2 DEF Payable_now, AliveSlots

(* The link of a self-press, typed. *)
LEMMA UseLinks ==
  ASSUME TypeOK, pend.budget # 0, budget_for(pend.req) = pend.budget, SpendBudget
  PROVE  \E l \in LinkRecords :
           /\ l.op = "use" /\ l.req = pend.req /\ weld_in(l) /\ st.debt = 0
           /\ \E i \in AliveSlots : l.id = budgets[i].id
<1> DEFINE b == budgets[pend.budget]
           j == First(PayingScopes(b, pend.req))
           l == [append("use") EXCEPT !.id = b.id, !.step = b.used + 1,
                   !.scope = j, !.req = pend.req]
<1>1. l \in LinkRecords
  BY SpendLinkType
<1>2. l.op = "use" /\ l.req = pend.req /\ l.id = b.id
  BY DEF append
<1>3. weld_in(l)
  BY DEF SpendBudget
<1>4. st.debt = 0
  BY DEF budget_for, owes
<1>5. pend.budget \in AliveSlots
  BY PaysAlive
<1> HIDE DEF l
<1> QED BY <1>1, <1>2, <1>3, <1>4, <1>5

LEMMA DecisionLinks ==
  TypeOK /\ Decision => UNCHANGED <<st, held>> \/ \E l \in LinkRecords : LinksWell(l) /\ weld_in(l)
<1> SUFFICES ASSUME TypeOK, Decision
             PROVE  UNCHANGED <<st, held>> \/ \E l \in LinkRecords : LinksWell(l) /\ weld_in(l)
  OBVIOUS
<1>1. CASE RunUnpressed
  <2>1. CASE pend.budget # 0 /\ budget_for(pend.req) = pend.budget /\ SpendBudget
    <3>1. PICK l \in LinkRecords :
            l.op = "use" /\ weld_in(l) /\ \E i \in AliveSlots : l.id = budgets[i].id
      BY <2>1, UseLinks
    <3> QED BY <1>1, <3>1, WeldLinks DEF LinksWell, Opens
  <2>2. CASE UNCHANGED <<st, held>>
    BY <2>2
  <2> QED BY <1>1, <2>1, <2>2 DEF RunUnpressed, SpendBudget, record
<1>2. CASE grant_pressed
  <2> DEFINE l == [append("create") EXCEPT !.id = Len(st.log) + 1, !.scopes = press.scopes]
  <2>1. weld_in(l) /\ press.verified = st.log /\ st.debt = 0 /\ press.what = "grant"
    BY <1>2 DEF grant_pressed, GrantStands, owes, Pressed
  <2>2. l \in LinkRecords /\ l.op = "create" /\ l.scopes = press.scopes
    <3> DEFINE id == Len(st.log) + 1
    <3>1. id \in Nat /\ press \in PressRecords /\ append("create") \in LinkRecords
      BY LogLength, BareLinkType DEF TypeOK, LinkOps
    <3> HIDE DEF id
    <3>2. [append("create") EXCEPT !.id = id, !.scopes = press.scopes] \in LinkRecords
      BY <3>1 DEF LinkRecords, PressRecords
    <3> QED BY <3>1, <3>2 DEF id, append, LinkRecords
  <2> HIDE DEF l
  <2> QED BY <2>1, <2>2, WeldLinks DEF LinksWell, Opens
<1>3. CASE resume_pressed
  <2> DEFINE l == [append("resume") EXCEPT !.id = press.id]
  <2>1. weld_in(l) /\ press.verified = st.log /\ st.debt = 0
    BY <1>3 DEF resume_pressed, ResumeStands, owes
  <2>2. append("resume") \in LinkRecords /\ press.id \in Nat
    BY BareLinkType DEF LinkOps, TypeOK, PressRecords
  <2>3. l \in LinkRecords /\ l.op = "resume"
    BY <2>2 DEF LinkRecords, append
  <2> HIDE DEF l
  <2> QED BY <2>1, <2>3, WeldLinks DEF LinksWell, Opens
<1>4. CASE loss_pressed
  <2> DEFINE l == [append("loss") EXCEPT !.id = press.id, !.step = loss_subject(press.to)]
  <2>1. append("loss") \in LinkRecords
    BY BareLinkType DEF LinkOps
  <2>2. press.id \in Nat /\ loss_subject(press.to) \in Nat
    BY DEF TypeOK, PressRecords, loss_subject
  <2>3. l \in LinkRecords /\ l.op = "loss"
    BY <2>1, <2>2 DEF LinkRecords, append
  <2>4. weld_in(l)
    BY <1>4 DEF loss_pressed
  <2> HIDE DEF l
  <2> QED BY <2>3, <2>4, WeldLinks DEF LinksWell, Opens
<1>5. CASE DecideOrdinary \/ settle_pressed \/ DropDecision
  BY <1>5 DEF DecideOrdinary, settle_pressed, DropDecision, record
<1> QED BY <1>1, <1>2, <1>3, <1>4, <1>5 DEF Decision

LEMMA ContinuationLinks ==
  TypeOK /\ Continuation => UNCHANGED <<st, held>> \/ \E l \in LinkRecords : LinksWell(l) /\ weld_in(l)
<1> SUFFICES ASSUME TypeOK, Continuation
             PROVE  UNCHANGED <<st, held>> \/ \E l \in LinkRecords : LinksWell(l) /\ weld_in(l)
  OBVIOUS
<1>1. CASE complete_fulfilled
  <2>1. CASE FulfilledSlots # {} /\ end_budget(First(FulfilledSlots), "completed")
    <3>1. First(FulfilledSlots) \in 1 .. MaxLive /\ "completed" \in Hows
      BY <2>1, SlotType DEF FulfilledSlots, AliveSlots, Hows
    <3> QED BY <2>1, <3>1, EndLinks
  <2>2. CASE UNCHANGED <<st, held>>
    BY <2>2
  <2> QED BY <1>1, <2>1, <2>2 DEF complete_fulfilled, record
<1>2. CASE SettleStep
  <2> DEFINE l == [append("receipt") EXCEPT !.id = st.debt, !.how = "settled"]
  <2>1. CASE AliveSlots # {} /\ end_budget(First(AliveSlots), "settled")
    <3>1. First(AliveSlots) \in 1 .. MaxLive /\ "settled" \in Hows
      BY <2>1, SlotType DEF AliveSlots, Hows
    <3> QED BY <2>1, <3>1, EndLinks
  <2>2. CASE weld_in(l) /\ AliveSlots = {}
    <3>1. append("receipt") \in LinkRecords /\ "settled" \in Hows /\ st.debt \in Nat
      BY BareLinkType DEF LinkOps, Hows, TypeOK, EdgeRecords
    <3>2. l \in LinkRecords /\ l.op = "receipt"
      BY <3>1 DEF LinkRecords, append
    <3> HIDE DEF l
    <3> QED BY <2>2, <3>2, WeldLinks DEF LinksWell, Opens
  <2> QED BY <1>2, <2>1, <2>2 DEF SettleStep
<1>3. CASE Release
  BY <1>3 DEF Release, record
<1> QED BY <1>1, <1>2, <1>3 DEF Continuation

(* The first link of a restored device. *)
LEMMA ContinueLinks ==
  ASSUME TypeOK, write_continue PROVE \E l \in LinkRecords : LinksWell(l)
<1> DEFINE l == [append("continue") EXCEPT !.id = IF owes THEN 1 ELSE 0]
<1>1. append("continue") \in LinkRecords
  BY BareLinkType DEF LinkOps
<1>2. l \in LinkRecords /\ l.op = "continue"
  BY <1>1 DEF LinkRecords, append
<1>3. st' = [Weld(st, l) EXCEPT !.cont = FALSE] /\ st \in EdgeRecords
  BY DEF write_continue, state_save, TypeOK
<1> HIDE DEF l
<1>4. Links(l)
  BY <1>3 DEF Weld, EdgeRecords, Links
<1> QED BY <1>2, <1>4 DEF LinksWell, Opens

(* A step leaves the device its chain, adds a link to it, gives it an       *)
(* identity no chain had, or leaves no identity at all.                     *)
NewDevice == st'.log = st.log /\ st'.chain = salts + 1
NoDevice  ==
  st'.salted = FALSE /\ st'.log \in {<< >>, backup.log} /\ budgets' = NoBudgets

LEMMA LifecycleLinks ==
  TypeOK /\ DebtInv /\ Lifecycle =>
    UNCHANGED st \/ NewDevice \/ NoDevice \/ \E l \in LinkRecords : LinksWell(l)
<1> SUFFICES ASSUME TypeOK, DebtInv, Lifecycle
             PROVE  UNCHANGED st \/ NewDevice \/ NoDevice
                    \/ \E l \in LinkRecords : LinksWell(l)
  OBVIOUS
<1>1. CASE DrawSalt
  BY <1>1 DEF DrawSalt, state_save, NewDevice, TypeOK, EdgeRecords
<1>2. CASE Identify
  BY <1>2, ContinueLinks DEF Identify, record
<1>3. CASE okplugin_edge_backup
  BY <1>3 DEF okplugin_edge_backup, record
<1>4. CASE okplugin_edge_restore
  BY <1>4 DEF okplugin_edge_restore, state_save, NoDevice
<1>5. CASE okplugin_edge_wipe
  BY <1>5 DEF okplugin_edge_wipe, state_save, EmptyRecord, NoDevice, Boot
<1>6. CASE Restart
  BY <1>6 DEF Restart, DebtInv
<1>7. CASE Unlock \/ EnterConfig
  BY <1>7 DEF Unlock, EnterConfig, record
<1> QED BY <1>1, <1>2, <1>3, <1>4, <1>5, <1>6, <1>7 DEF Lifecycle

LEMMA StepLinks ==
  TypeOK /\ DebtInv /\ [Next]_vars =>
    UNCHANGED st \/ NewDevice \/ NoDevice \/ \E l \in LinkRecords : LinksWell(l)
<1>1. Tick \/ UNCHANGED vars => UNCHANGED st
  BY DEF Tick, vars
<1> QED BY <1>1, RequestLinks, DecisionLinks, ContinuationLinks, LifecycleLinks
        DEF Next

-----------------------------------------------------------------------------
(* The links of a log, its prefix kept by Append. *)
LEMMA PrefixKept ==
  ASSUME NEW log \in Logs, NEW l \in LinkRecords
  PROVE  /\ SubSeq(log, 1, Len(log)) = log
         /\ SubSeq(Append(log, l), 1, Len(log)) = log
         /\ Len(Append(log, l)) = Len(log) + 1 /\ Len(log) \in Nat
BY DEF Logs

LEMMA HistoryStep ==
  TypeOK /\ DebtInv /\ [Next]_vars =>
    (st'.salted =>
       \/ /\ st.salted /\ st'.chain = st.chain /\ Len(st'.log) >= Len(st.log)
          /\ SubSeq(st'.log, 1, Len(st.log)) = st.log
       \/ st'.chain > salts)
<1> SUFFICES ASSUME TypeOK, DebtInv, [Next]_vars, st'.salted
             PROVE  \/ /\ st.salted /\ st'.chain = st.chain
                       /\ Len(st'.log) >= Len(st.log)
                       /\ SubSeq(st'.log, 1, Len(st.log)) = st.log
                    \/ st'.chain > salts
  OBVIOUS
<1>1. st.log \in Logs /\ salts \in Nat
  BY DEF TypeOK, EdgeRecords
<1>2. Len(st.log) \in Nat /\ SubSeq(st.log, 1, Len(st.log)) = st.log
  BY <1>1 DEF Logs
<1>3. CASE UNCHANGED st
  BY <1>2, <1>3
<1>4. CASE NewDevice
  BY <1>1, <1>4 DEF NewDevice
<1>5. ASSUME NEW l \in LinkRecords, LinksWell(l)
      PROVE  /\ st.salted /\ st'.chain = st.chain /\ Len(st'.log) >= Len(st.log)
             /\ SubSeq(st'.log, 1, Len(st.log)) = st.log
  BY <1>1, <1>5, PrefixKept DEF LinksWell, Links
<1> QED BY <1>3, <1>4, <1>5, StepLinks DEF NoDevice

LEMMA DebtTyped == Spec => [](TypeOK /\ DebtInv)
BY TypeCorrect, DebtAlways, PTL

(* One device id, one history, through every handler, crash and restore.    *)
THEOREM OneHistory == Spec => NoSecondHistory
<1>1. TypeOK /\ DebtInv /\ [Next]_vars =>
        [st'.salted =>
           \/ /\ st.salted /\ st'.chain = st.chain /\ Len(st'.log) >= Len(st.log)
              /\ SubSeq(st'.log, 1, Len(st.log)) = st.log
           \/ st'.chain > salts]_vars
  BY HistoryStep
<1> QED BY <1>1, DebtTyped, PTL DEF Spec, NoSecondHistory

LEMMA OpeningStep ==
  TypeOK /\ DebtInv /\ [Next]_vars =>
    (Appended("create") \/ Appended("resume") => press.verified = st.log /\ st.debt = 0)
<1> SUFFICES ASSUME TypeOK, DebtInv, [Next]_vars,
                    Appended("create") \/ Appended("resume")
             PROVE  press.verified = st.log /\ st.debt = 0
  OBVIOUS
<1>1. st.log \in Logs /\ Len(st.log) \in Nat
  BY LogLength DEF TypeOK, EdgeRecords
<1>2. Len(st'.log) # Len(st.log) /\ st'.salted
  BY <1>1 DEF Appended
<1>3. PICK l \in LinkRecords : LinksWell(l)
  BY <1>2, StepLinks DEF NoDevice, NewDevice
<1>4. st'.log[Len(st'.log)] = l
  BY <1>1, <1>3, AppendedLog DEF LinksWell, Links
<1> QED BY <1>3, <1>4 DEF LinksWell, Opens, Appended

(* A budget opens or resumes only on the head the host verified, with no    *)
(* receipt owed, whatever came between the request and the press.           *)
THEOREM OpeningIsVerified == Spec => OpensOnVerifiedHead
<1>1. TypeOK /\ DebtInv /\ [Next]_vars =>
        [Appended("create") \/ Appended("resume")
           => press.verified = st.log /\ st.debt = 0]_vars
  BY OpeningStep
<1> QED BY <1>1, DebtTyped, PTL DEF Spec, OpensOnVerifiedHead

-----------------------------------------------------------------------------
(* While an operation primed to be paid runs, the flash holds its use.      *)
LEMMA IdleRun ==
  ASSUME busy' # "running" PROVE FreeRunIsRecorded'
BY DEF FreeRunIsRecorded

(* The only step into "running" saved the use it runs on. *)
LEMMA RunKeepsRun == TypeOK /\ DebtInv /\ FreeRunIsRecorded /\ RunUnpressed => FreeRunIsRecorded'
<1> SUFFICES ASSUME TypeOK, DebtInv, FreeRunIsRecorded, RunUnpressed PROVE FreeRunIsRecorded'
  OBVIOUS
<1>1. CASE pend' = NoPend /\ UNCHANGED busy
  BY <1>1, IdleRun DEF RunUnpressed
<1>2. CASE /\ ~okplugin_edge_refused /\ SpendBudget
           /\ pend' = [pend EXCEPT !.active = FALSE]
  <2>1. pend \in PendRecords /\ st \in EdgeRecords
    BY DEF TypeOK
  <2>0. pend'.budget = pend.budget /\ pend'.req = pend.req
    BY <1>2, <2>1 DEF PendRecords
  <2> SUFFICES ASSUME pend.budget # 0 PROVE FreeRunIsRecorded'
    BY <2>0 DEF FreeRunIsRecorded
  <2>2. pend.budget # 0 /\ budget_for(pend.req) = pend.budget
    BY <1>2 DEF RunUnpressed, okplugin_edge_refused
  <2>3. PICK l \in LinkRecords :
          l.op = "use" /\ l.req = pend.req /\ weld_in(l) /\ st.debt = 0
    BY <1>2, <2>2, UseLinks
  <2>4. disk' = Weld(st, l)
    BY <2>3 DEF weld_in, state_save
  <2>5. disk'.log = Append(st.log, l) /\ disk'.debt = Len(st.log) + 1
    BY <2>1, <2>3, <2>4, WeldType DEF DebtAfter
  <2>6. /\ disk'.log # << >> /\ Len(disk'.log) = Len(st.log) + 1
        /\ disk'.log[Len(st.log) + 1] = l
    BY <2>1, <2>5, AppendedLog DEF EdgeRecords, Logs
  <2> QED BY <2>0, <2>3, <2>5, <2>6 DEF FreeRunIsRecorded
<1> QED BY <1>1, <1>2 DEF RunUnpressed

(* Every other step that keeps an operation running leaves flash alone.     *)
LEMMA OthersKeepRun ==
  FreeRunIsRecorded /\ [Next]_vars /\ ~RunUnpressed => FreeRunIsRecorded'
<1> SUFFICES ASSUME FreeRunIsRecorded, [Next]_vars, ~RunUnpressed PROVE FreeRunIsRecorded'
  OBVIOUS
<1>1. CASE Request
  <2>1. ASSUME NEW r \in Requests, NEW asks \in BOOLEAN, okplugin_edge_primed(r, asks)
        PROVE  FreeRunIsRecorded'
    BY <2>1 DEF okplugin_edge_primed, FreeRunIsRecorded
  <2>2. CASE \/ Query \/ receipt \/ settle \/ primed_other
             \/ \E j \in 1 .. MaxScopes, l \in Labels : grant_label(j, l)
             \/ \E g \in Grants, h \in HostHeads : grant_create(g, h)
             \/ \E i \in 1 .. MaxLive : grant_revoke(i) \/ grant_hold(i)
             \/ \E i \in 1 .. MaxLive, h \in HostHeads : grant_resume(budgets[i].id, h)
             \/ \E h \in HostHeads, r \in Requests : tx_start(h, r)
             \/ \E r \in Ranges : loss(r)
    <3>1. busy' # "running"
      BY <2>2 DEF Query, receipt, settle, primed_other, grant_label, grant_create,
                  grant_revoke, grant_hold, grant_resume, tx_start, loss, Recv,
                  press_wait
    <3> QED BY <3>1, IdleRun
  <2> QED BY <1>1, <2>1, <2>2 DEF Request
<1>2. CASE Decision
  <2>1. busy' # "running"
    BY <1>2 DEF Decision, DecideOrdinary, grant_pressed, resume_pressed,
                settle_pressed, loss_pressed, DropDecision, Deciding
  <2> QED BY <2>1, IdleRun
<1>3. CASE Continuation
  <2>1. busy' # "running"
    BY <1>3 DEF Continuation, complete_fulfilled, SettleStep, Release
  <2> QED BY <2>1, IdleRun
<1>4. CASE Lifecycle
  <2>1. CASE Unlock
    BY <2>1 DEF Unlock, FreeRunIsRecorded, record
  <2>2. CASE Lifecycle /\ ~Unlock
    <3>1. busy' # "running"
      BY <2>2 DEF Lifecycle, DrawSalt, Identify, okplugin_edge_backup,
                  okplugin_edge_restore, okplugin_edge_wipe, Restart, EnterConfig, Boot
    <3> QED BY <3>1, IdleRun
  <2> QED BY <1>4, <2>1, <2>2
<1>5. CASE Tick \/ UNCHANGED vars
  BY <1>5 DEF Tick, vars, FreeRunIsRecorded
<1> QED BY <1>1, <1>2, <1>3, <1>4, <1>5 DEF Next

(* Whenever an operation primed to be paid by a budget runs, a crash cannot *)
(* lose its use: the flash already holds it, owed, as the last link.        *)
THEOREM RunIsRecorded == Spec => []FreeRunIsRecorded
<1>1. Init => FreeRunIsRecorded
  BY DEF Init, FreeRunIsRecorded
<1>2. TypeOK /\ DebtInv /\ FreeRunIsRecorded /\ [Next]_vars => FreeRunIsRecorded'
  BY RunKeepsRun, OthersKeepRun
<1> QED BY <1>1, <1>2, DebtTyped, PTL DEF Spec

-----------------------------------------------------------------------------
(* A request a budget may still pay for stands on the TX start it was       *)
(* checked against: since then the chain was only taken from.  Or its       *)
(* budget is gone, and its slot stays empty while the request waits.        *)
StandsOnStart(log, p) ==
  /\ p.start.on /\ p.start.req = p.req
  /\ Len(p.start.head) <= Len(log)
  /\ p.start.head = SubSeq(log, 1, Len(p.start.head))
  /\ \A k \in Len(p.start.head) + 1 .. Len(log) : log[k].op \in {"end", "hold"}

Announced(log, debt, bs, p) ==
  bs[p.budget].id = 0 \/ (debt = 0 /\ StandsOnStart(log, p))

AnnounceInv ==
  pend.active =>
    /\ wait = "sign" /\ busy # "settling"
    /\ pend.budget # 0 => Announced(st.log, st.debt, budgets, pend)

(* Over a longer chain it still stands, if the new link only takes away.    *)
LEMMA StandsAfter ==
  ASSUME NEW log \in Logs, NEW l \in LinkRecords, l.op \in {"end", "hold"},
         NEW p \in PendRecords, StandsOnStart(log, p)
  PROVE  StandsOnStart(Append(log, l), p)
<1> DEFINE n == Len(p.start.head)
           new == Append(log, l)
<1>1. p.start.head \in Logs /\ n \in Nat /\ Len(log) \in Nat
  BY DEF PendRecords, TxRecords, Logs
<1>2. Len(new) = Len(log) + 1 /\ new[Len(log) + 1] = l /\ \A k \in 1 .. Len(log) : new[k] = log[k]
  BY <1>1, AppendedLog
<1>3. n <= Len(new)
  BY <1>1, <1>2 DEF StandsOnStart
<1>4. SubSeq(new, 1, n) = SubSeq(log, 1, n)
  BY <1>1, <1>2 DEF StandsOnStart, Logs
<1>5. ASSUME NEW k \in n + 1 .. Len(new) PROVE new[k].op \in {"end", "hold"}
  <2>1. k \in n + 1 .. Len(log) \/ k = Len(log) + 1
    BY <1>1, <1>2
  <2>2. k \in n + 1 .. Len(log) => k \in 1 .. Len(log)
    BY <1>1
  <2> QED BY <1>2, <2>1, <2>2 DEF StandsOnStart
<1> QED BY <1>3, <1>4, <1>5 DEF StandsOnStart

(* A step that drops the request, or leaves all that it stands on. *)
LEMMA DroppedAnnounce ==
  ASSUME pend' = NoPend PROVE AnnounceInv'
BY DEF AnnounceInv, NoPend

LEMMA QuietAnnounce ==
  ASSUME AnnounceInv, UNCHANGED <<pend, wait, budgets>>,
         busy' = busy \/ busy' # "settling",
         st'.log = st.log, st'.debt = st.debt
  PROVE  AnnounceInv'
BY DEF AnnounceInv, Announced

(* A link that takes away, with no budget's slot filled. *)
LEMMA TakenAnnounce ==
  ASSUME TypeOK, AnnounceInv, NEW l \in LinkRecords, l.op \in {"end", "hold"},
         weld_in(l), UNCHANGED <<pend, wait>>, busy' = busy \/ busy' # "settling",
         \A i \in 1 .. MaxLive : budgets[i].id = 0 => budgets'[i].id = 0
  PROVE  AnnounceInv'
<1> SUFFICES ASSUME pend.active, pend.budget # 0
             PROVE  Announced(st'.log, st'.debt, budgets', pend)
  BY DEF AnnounceInv
<1>1. st' = Weld(st, l) /\ st \in EdgeRecords /\ pend \in PendRecords
  BY DEF weld_in, state_save, TypeOK
<1>2. st'.log = Append(st.log, l) /\ st'.debt = st.debt
  BY <1>1, WeldType DEF DebtAfter
<1>3. pend.budget \in 1 .. MaxLive /\ Announced(st.log, st.debt, budgets, pend)
  BY <1>1, SizesAssumption DEF PendRecords, AnnounceInv
<1>4. StandsOnStart(st.log, pend) => StandsOnStart(st'.log, pend)
  BY <1>1, <1>2, StandsAfter DEF EdgeRecords
<1> QED BY <1>2, <1>3, <1>4 DEF Announced

LEMMA EndAnnounce ==
  ASSUME TypeOK, AnnounceInv, NEW i \in 1 .. MaxLive, NEW how \in Hows,
         end_budget(i, how), UNCHANGED <<pend, wait>>, busy' = busy \/ busy' # "settling"
  PROVE  AnnounceInv'
<1> DEFINE l == [append("end") EXCEPT !.id = budgets[i].id, !.how = how]
<1>1. append("end") \in LinkRecords /\ budgets[i].id \in Nat
  BY BareLinkType DEF LinkOps, TypeOK, BudgetRecords
<1>2. l \in LinkRecords /\ l.op \in {"end", "hold"}
  BY <1>1 DEF LinkRecords, append
<1>3. weld_in(l)
  BY DEF end_budget
<1>4. \A k \in 1 .. MaxLive : budgets[k].id = 0 => budgets'[k].id = 0
  BY DEF end_budget, NoBudget, TypeOK
<1> HIDE DEF l
<1> QED BY <1>2, <1>3, <1>4, TakenAnnounce

LEMMA HoldAnnounce ==
  ASSUME TypeOK, AnnounceInv, NEW i \in 1 .. MaxLive, grant_hold(i)
  PROVE  AnnounceInv'
<1> DEFINE l == [append("hold") EXCEPT !.id = budgets[i].id]
<1>1. append("hold") \in LinkRecords /\ budgets[i].id \in Nat
  BY BareLinkType DEF LinkOps, TypeOK, BudgetRecords
<1>2. l \in LinkRecords /\ l.op \in {"end", "hold"}
  BY <1>1 DEF LinkRecords, append
<1>3. weld_in(l) /\ UNCHANGED <<pend, wait, busy>>
  BY DEF grant_hold, Recv
<1>4. \A k \in 1 .. MaxLive : budgets[k].id = 0 => budgets'[k].id = 0
  BY DEF grant_hold, TypeOK, BudgetRecords
<1> HIDE DEF l
<1> QED BY <1>2, <1>3, <1>4, TakenAnnounce

(* A receipt is accepted only where a debt already barred the request.      *)
LEMMA ReceiptAnnounce == TypeOK /\ AnnounceInv /\ receipt => AnnounceInv'
<1> SUFFICES ASSUME TypeOK, AnnounceInv, receipt PROVE AnnounceInv'
  OBVIOUS
<1>1. st.debt # 0 /\ UNCHANGED <<pend, wait, budgets>> /\ busy' = "completing"
  BY DEF receipt, owes
<1> QED BY <1>1 DEF AnnounceInv, Announced

(* A request is primed to be paid only over the head its start named.       *)
LEMMA PrimedAnnounce ==
  ASSUME TypeOK, NEW req \in Requests, NEW asks \in BOOLEAN,
         okplugin_edge_primed(req, asks)
  PROVE  AnnounceInv'
<1> DEFINE mismatch == tx.on /\ (tx.head # st.log \/ tx.req # req)
           i == IF mismatch THEN 0 ELSE budget_for(req)
<1>1. /\ pend' = [active |-> TRUE, req |-> req, budget |-> i,
                  press |-> asks /\ ~mismatch /\ i = 0, refuse |-> mismatch,
                  start |-> IF mismatch THEN NoTx ELSE tx]
      /\ wait' = "sign" /\ busy' = "idle"
      /\ UNCHANGED <<st, budgets>>
  BY DEF okplugin_edge_primed, record
<1>2. CASE i = 0
  BY <1>1, <1>2 DEF AnnounceInv
<1>3. CASE i # 0
  <2>1. ~mismatch /\ budget_for(req) # 0
    BY <1>3
  <2>2. tx.on /\ st.debt = 0
    BY <2>1 DEF budget_for, owes
  <2>3. tx.head = st.log /\ tx.req = req
    BY <2>1, <2>2
  <2>4. pend'.start = tx /\ pend'.req = req
    BY <1>1, <2>1
  <2>5. st.log \in Logs /\ Len(st.log) \in Nat /\ st.log = SubSeq(st.log, 1, Len(st.log))
    BY LogLength, PrefixKept DEF TypeOK, EdgeRecords, Logs
  <2>6. StandsOnStart(st.log, pend')
    BY <2>2, <2>3, <2>4, <2>5 DEF StandsOnStart
  <2> HIDE DEF i, mismatch
  <2> QED BY <1>1, <2>2, <2>6 DEF AnnounceInv, Announced
<1> QED BY <1>2, <1>3

LEMMA RequestAnnounce == TypeOK /\ AnnounceInv /\ Request => AnnounceInv'
<1> SUFFICES ASSUME TypeOK, AnnounceInv, Request PROVE AnnounceInv'
  OBVIOUS
<1>1. ASSUME NEW i \in 1 .. MaxLive, grant_revoke(i) PROVE AnnounceInv'
  <2>1. end_budget(i, "revoked") /\ "revoked" \in Hows /\ UNCHANGED <<pend, wait, busy>>
    BY <1>1 DEF grant_revoke, Hows
  <2> QED BY <2>1, EndAnnounce
<1>2. CASE \/ Query \/ settle \/ primed_other
           \/ \E j \in 1 .. MaxScopes, l \in Labels : grant_label(j, l)
           \/ \E g \in Grants, h \in HostHeads : grant_create(g, h)
           \/ \E i \in 1 .. MaxLive, h \in HostHeads : grant_resume(budgets[i].id, h)
           \/ \E h \in HostHeads, r \in Requests : tx_start(h, r)
           \/ \E r \in Ranges : loss(r)
  <2>1. /\ UNCHANGED <<st, budgets, busy>>
        /\ pend' = NoPend \/ UNCHANGED <<pend, wait>>
    BY <1>2 DEF Query, settle, primed_other, grant_label, grant_create, grant_resume,
                tx_start, loss, record, press_wait
  <2> QED BY <2>1, DroppedAnnounce, QuietAnnounce
<1> QED BY <1>1, <1>2, HoldAnnounce, ReceiptAnnounce, PrimedAnnounce DEF Request

LEMMA DecisionAnnounce == TypeOK /\ AnnounceInv /\ Decision => AnnounceInv'
<1> SUFFICES ASSUME TypeOK, AnnounceInv, Decision PROVE AnnounceInv'
  OBVIOUS
<1>1. CASE RunUnpressed
  <2>1. pend \in PendRecords
    BY DEF TypeOK
  <2>2. pend' = NoPend \/ pend'.active = FALSE
    BY <1>1, <2>1 DEF RunUnpressed, PendRecords
  <2> QED BY <2>2, DroppedAnnounce DEF AnnounceInv
<1>2. CASE DecideOrdinary
  BY <1>2, DroppedAnnounce DEF DecideOrdinary
<1>3. CASE grant_pressed \/ resume_pressed \/ settle_pressed \/ loss_pressed \/ DropDecision
  <2>1. wait = "edge" /\ UNCHANGED pend
    BY <1>3 DEF grant_pressed, resume_pressed, settle_pressed, loss_pressed,
                DropDecision, Deciding
  <2> QED BY <2>1 DEF AnnounceInv
<1> QED BY <1>1, <1>2, <1>3 DEF Decision

LEMMA ContinuationAnnounce == TypeOK /\ AnnounceInv /\ Continuation => AnnounceInv'
<1> SUFFICES ASSUME TypeOK, AnnounceInv, Continuation PROVE AnnounceInv'
  OBVIOUS
<1>1. CASE complete_fulfilled
  <2>1. CASE FulfilledSlots # {} /\ end_budget(First(FulfilledSlots), "completed")
    <3>1. First(FulfilledSlots) \in 1 .. MaxLive /\ "completed" \in Hows
      BY <2>1, SlotType DEF FulfilledSlots, AliveSlots, Hows
    <3>2. UNCHANGED <<pend, wait>> /\ (busy' = busy \/ busy' # "settling")
      BY <1>1 DEF complete_fulfilled
    <3> QED BY <2>1, <3>1, <3>2, EndAnnounce
  <2>2. CASE UNCHANGED <<st, budgets>>
    BY <1>1, <2>2, QuietAnnounce DEF complete_fulfilled
  <2> QED BY <1>1, <2>1, <2>2 DEF complete_fulfilled, record
<1>2. CASE SettleStep
  BY <1>2 DEF SettleStep, AnnounceInv
<1>3. CASE Release
  BY <1>3, DroppedAnnounce DEF Release
<1> QED BY <1>1, <1>2, <1>3 DEF Continuation

LEMMA LifecycleAnnounce == TypeOK /\ AnnounceInv /\ Lifecycle => AnnounceInv'
<1> SUFFICES ASSUME TypeOK, AnnounceInv, Lifecycle PROVE AnnounceInv'
  OBVIOUS
<1>0. pend \in PendRecords
  BY DEF TypeOK
<1>1. CASE DrawSalt
  <2>1. st'.log = st.log /\ st'.debt = st.debt
    BY <1>1 DEF DrawSalt, state_save, TypeOK, EdgeRecords
  <2> QED BY <1>1, <2>1, QuietAnnounce DEF DrawSalt
<1>2. ASSUME budgets' = NoBudgets, UNCHANGED <<pend, wait>>,
             busy' = busy \/ busy' # "settling"
      PROVE  AnnounceInv'
  <2>1. pend.budget # 0 => budgets'[pend.budget].id = 0
    BY <1>0, <1>2, SizesAssumption DEF PendRecords, NoBudgets, NoBudget
  <2> QED BY <1>2, <2>1 DEF AnnounceInv, Announced
<1>3. CASE Identify
  <2>1. CASE write_continue
    BY <1>2, <1>3, <2>1 DEF Identify, write_continue
  <2>2. CASE UNCHANGED <<record, budgets>>
    BY <1>3, <2>2, QuietAnnounce DEF Identify, record
  <2> QED BY <1>3, <2>1, <2>2 DEF Identify
<1>4. CASE okplugin_edge_restore
  BY <1>2, <1>4 DEF okplugin_edge_restore
<1>5. CASE okplugin_edge_wipe \/ Restart
  BY <1>5, DroppedAnnounce DEF okplugin_edge_wipe, Restart, Boot
<1>6. CASE okplugin_edge_backup \/ Unlock \/ EnterConfig
  BY <1>6, QuietAnnounce DEF okplugin_edge_backup, Unlock, EnterConfig, record
<1> QED BY <1>1, <1>3, <1>4, <1>5, <1>6 DEF Lifecycle

LEMMA StepAnnounce == TypeOK /\ AnnounceInv /\ [Next]_vars => AnnounceInv'
<1>1. AnnounceInv /\ (Tick \/ UNCHANGED vars) => AnnounceInv'
  BY QuietAnnounce DEF Tick, vars
<1> QED BY <1>1, RequestAnnounce, DecisionAnnounce, ContinuationAnnounce,
           LifecycleAnnounce DEF Next

(* An automatic use is linked by the run of a request its budget pays for.  *)
LEMMA UseStep ==
  ASSUME TypeOK, DebtInv, [Next]_vars, Appended("use")
  PROVE  /\ pend.active /\ pend.budget # 0 /\ pend.budget \in AliveSlots
         /\ st'.log[Len(st'.log)].req = pend.req
<1>1. st.log \in Logs /\ Len(st.log) \in Nat
  BY LogLength DEF TypeOK, EdgeRecords
<1>2. Len(st'.log) # Len(st.log) /\ st'.salted
  BY <1>1 DEF Appended
<1>3. PICK l \in LinkRecords : LinksWell(l)
  BY <1>2, StepLinks DEF NoDevice, NewDevice
<1>4. st'.log[Len(st'.log)] = l
  BY <1>1, <1>3, AppendedLog DEF LinksWell, Links
<1>5. RunUnpressed
  BY <1>3, <1>4 DEF LinksWell, Appended
<1>6. ~UNCHANGED st
  BY <1>2
<1>7. SpendBudget /\ pend.active /\ pend.budget # 0 /\ budget_for(pend.req) = pend.budget
  BY <1>5, <1>6 DEF RunUnpressed, SpendBudget, record
<1>8. PICK u \in LinkRecords : u.op = "use" /\ u.req = pend.req /\ weld_in(u)
  BY <1>7, UseLinks
<1>9. st'.log[Len(st'.log)].req = pend.req
  <2>1. st'.log = Append(st.log, u)
    BY <1>8, WeldLinks DEF Links
  <2> QED BY <1>1, <1>8, <2>1, AppendedLog
<1>10. pend.budget \in AliveSlots
  BY <1>7, PaysAlive
<1> QED BY <1>7, <1>9, <1>10

LEMMA AnnouncedStep ==
  TypeOK /\ DebtInv /\ AnnounceInv /\ [Next]_vars =>
    (Appended("use") =>
       LET start == pend.start
       IN  /\ start.on /\ start.req = st'.log[Len(st'.log)].req
           /\ start.head = SubSeq(st.log, 1, Len(start.head))
           /\ \A k \in Len(start.head) + 1 .. Len(st.log) :
                st.log[k].op \in {"end", "hold"})
<1> SUFFICES ASSUME TypeOK, DebtInv, AnnounceInv, [Next]_vars, Appended("use")
             PROVE  /\ StandsOnStart(st.log, pend)
                    /\ st'.log[Len(st'.log)].req = pend.req
  BY DEF StandsOnStart
<1>1. pend.active /\ pend.budget # 0 /\ pend.budget \in AliveSlots
      /\ st'.log[Len(st'.log)].req = pend.req
  BY UseStep
<1>2. budgets[pend.budget].id # 0
  BY <1>1 DEF AliveSlots, alive
<1> QED BY <1>1, <1>2 DEF AnnounceInv, Announced

(* Every automatic use is one a TX start announced: that very request, over *)
(* the head the key then stood on, but for links that took away since.      *)
THEOREM UsesAreAnnounced == Spec => UseWasAnnounced
<1>1. Init => AnnounceInv
  BY DEF Init, AnnounceInv, NoPend
<1>2. TypeOK /\ DebtInv /\ AnnounceInv /\ [Next]_vars =>
        [Appended("use") =>
           LET start == pend.start
           IN  /\ start.on /\ start.req = st'.log[Len(st'.log)].req
               /\ start.head = SubSeq(st.log, 1, Len(start.head))
               /\ \A k \in Len(start.head) + 1 .. Len(st.log) :
                    st.log[k].op \in {"end", "hold"}]_vars
  BY AnnouncedStep
<1>3. Spec => []AnnounceInv
  BY <1>1, StepAnnounce, TypeCorrect, PTL DEF Spec
<1> QED BY <1>2, <1>3, DebtTyped, PTL DEF Spec, UseWasAnnounced

-----------------------------------------------------------------------------
(* Slots of a ring. *)
LEMMA Division ==
  ASSUME NEW h \in Nat \ {0}, NEW n \in Nat
  PROVE  n % h \in 0 .. h - 1 /\ n \div h \in Nat /\ n = h * (n \div h) + (n % h)
OBVIOUS

LEMMA Gap ==
  ASSUME NEW h \in Nat \ {0}, NEW d \in Int, 0 < h * d, h * d < h PROVE FALSE
OBVIOUS

(* Positions less than a ring apart have slots of their own; a ring apart,  *)
(* they share one.                                                          *)
LEMMA Apart ==
  ASSUME NEW h \in Nat \ {0}, NEW n \in Nat, NEW m \in Nat, m < n, n - m < h
  PROVE  n % h # m % h
<1> SUFFICES ASSUME n % h = m % h PROVE FALSE
  OBVIOUS
<1>1. n = h * (n \div h) + (n % h) /\ n \div h \in Nat /\ n % h \in 0 .. h - 1
  BY Division
<1>2. m = h * (m \div h) + (m % h) /\ m \div h \in Nat /\ m % h \in 0 .. h - 1
  BY Division
<1> DEFINE q == n \div h
           p == m \div h
           r == n % h
           d == q - p
<1>3. n = h * q + r /\ m = h * p + r /\ q \in Nat /\ p \in Nat /\ r \in Nat
  BY <1>1, <1>2
<1> HIDE DEF q, p, r
<1>4. d \in Int /\ n - m = h * d
  BY <1>3
<1> HIDE DEF d
<1> QED BY <1>4, Gap

LEMMA Around ==
  ASSUME NEW h \in Nat \ {0}, NEW n \in Nat, n >= h
  PROVE  (n - h) % h = n % h
<1>1. n = h * (n \div h) + (n % h) /\ n \div h \in Nat /\ n % h \in 0 .. h - 1
  BY Division
<1> DEFINE m == n - h
<1>0. m \in Nat
  OBVIOUS
<1> HIDE DEF m
<1>2. m = h * (m \div h) + (m % h) /\ m \div h \in Nat /\ m % h \in 0 .. h - 1
  BY <1>0, Division
<1> DEFINE q == n \div h
           p == m \div h
           r == n % h
           s == m % h
           d == q - p - 1
<1>3. n = h * q + r /\ m = h * p + s /\ q \in Nat /\ p \in Nat
      /\ r \in 0 .. h - 1 /\ s \in 0 .. h - 1
  BY <1>1, <1>2
<1>4. n = m + h
  BY DEF m
<1> HIDE DEF q, p, r, s
<1>5. d \in Int /\ s - r = h * d
  BY <1>3, <1>4
<1>6. s - r < h /\ r - s < h /\ r - s = h * (- d)
  BY <1>3, <1>5
<1> HIDE DEF d
<1>7. ~(0 < s - r)
  BY <1>5, <1>6, Gap
<1>8. ~(0 < r - s)
  BY <1>5, <1>6, Gap
<1>9. s = r
  BY <1>3, <1>7, <1>8
<1> QED BY <1>9 DEF s, r, m

(* The ring holds exactly the positions lo to top, each in its own slot.    *)
HoldsFrom(ring, lo, top) ==
  /\ top + 1 - lo <= Held
  /\ \A n \in lo .. top : ring[n % Held] = n
  /\ \A k \in 0 .. Held - 1 : ring[k] # 0 => ring[k] \in lo .. top /\ ring[k] % Held = k

(* It holds the latest links with no gap - none only while a continue link  *)
(* is owed or there is no link at all.                                      *)
RingInv ==
  /\ \E lo \in 1 .. Len(st.log) + 1 :
       /\ HoldsFrom(held, lo, Len(st.log))
       /\ st.cont \/ Len(st.log) = 0 \/ lo <= Len(st.log)
  /\ ident => ~st.cont

LEMMA NothingHeld ==
  ASSUME NEW top \in Nat PROVE HoldsFrom(NoHeld, top + 1, top)
BY SizesAssumption DEF HoldsFrom, NoHeld

(* The next link takes the slot of the one a ring before it, or a free one. *)
LEMMA HoldsNext ==
  ASSUME NEW ring \in Rings, NEW top \in Nat, NEW lo \in 1 .. top + 1,
         HoldsFrom(ring, lo, top)
  PROVE  \E l \in 1 .. top + 1 : HoldsFrom(Hold(ring, top + 1), l, top + 1)
<1> DEFINE n == top + 1
           h == n % Held
           new == Hold(ring, n)
           l == IF n - lo = Held THEN lo + 1 ELSE lo
<1>1. Held \in Nat \ {0} /\ n \in Nat /\ n >= 1
  BY SizesAssumption
<1>2. h \in 0 .. Held - 1
  BY <1>1, Division
<1>3. new[h] = n /\ \A k \in 0 .. Held - 1 : k # h => new[k] = ring[k]
  BY <1>2 DEF Hold, Rings
<1>4. l \in 1 .. n /\ n + 1 - l <= Held
  BY <1>1 DEF HoldsFrom
<1>5. ASSUME NEW m \in l .. top PROVE m % Held \in 0 .. Held - 1 /\ m % Held # h
  <2>1. m \in Nat /\ m < n /\ n - m < Held
    BY <1>1, <1>4
  <2> QED BY <1>1, <2>1, Apart, Division
<1>6. ASSUME NEW m \in l .. n PROVE new[m % Held] = m
  <2>1. CASE m = n
    BY <1>3, <2>1
  <2>2. CASE m # n
    <3>1. m \in l .. top /\ m \in lo .. top
      BY <1>1, <1>4, <2>2
    <3> QED BY <1>3, <1>5, <3>1 DEF HoldsFrom
  <2> QED BY <2>1, <2>2
<1>7. ASSUME NEW k \in 0 .. Held - 1, new[k] # 0
      PROVE  new[k] \in l .. n /\ new[k] % Held = k
  <2>1. CASE k = h
    BY <1>1, <1>3, <1>4, <2>1
  <2>2. CASE k # h
    <3>1. new[k] = ring[k] /\ ring[k] \in lo .. top /\ ring[k] % Held = k
      BY <1>3, <1>7, <2>2 DEF HoldsFrom
    <3>2. n - lo = Held => ring[k] # lo
      <4>1. n - lo = Held => lo = n - Held /\ n >= Held
        BY <1>1
      <4>2. n >= Held => (n - Held) % Held = h
        BY <1>1, Around
      <4> QED BY <2>2, <3>1, <4>1, <4>2
    <3>3. ring[k] \in l .. n
      BY <1>1, <3>1, <3>2
    <3> QED BY <3>1, <3>3
  <2> QED BY <2>1, <2>2
<1> HIDE DEF l, new, n
<1>8. HoldsFrom(new, l, n)
  BY <1>4, <1>6, <1>7 DEF HoldsFrom
<1> QED BY <1>4, <1>8 DEF new, n

LEMMA WeldRing ==
  ASSUME TypeOK, RingInv, NEW l \in LinkRecords, weld_in(l), UNCHANGED ident
  PROVE  RingInv'
<1>1. st \in EdgeRecords /\ held \in Rings /\ Len(st.log) \in Nat /\ st.log \in Logs
  BY LogLength DEF TypeOK, EdgeRecords
<1>2. PICK lo \in 1 .. Len(st.log) + 1 : HoldsFrom(held, lo, Len(st.log))
  BY DEF RingInv
<1>3. PICK lo2 \in 1 .. Len(st.log) + 1 :
        HoldsFrom(Hold(held, Len(st.log) + 1), lo2, Len(st.log) + 1)
  BY <1>1, <1>2, HoldsNext
<1>4. held' = Hold(held, Len(st.log) + 1) /\ st' = Weld(st, l)
  BY DEF weld_in, state_save
<1>5. st'.log = Append(st.log, l) /\ st'.cont = st.cont
  BY <1>1, <1>4 DEF Weld, EdgeRecords
<1>6. Len(st'.log) = Len(st.log) + 1
  BY <1>1, <1>5, AppendedLog
<1> QED BY <1>1, <1>3, <1>4, <1>5, <1>6 DEF RingInv

LEMMA QuietRing ==
  ASSUME RingInv, UNCHANGED <<held, ident>>, st'.log = st.log, st'.cont = st.cont
  PROVE  RingInv'
BY DEF RingInv

LEMMA StepRing == TypeOK /\ DebtInv /\ RingInv /\ [Next]_vars => RingInv'
<1> SUFFICES ASSUME TypeOK, DebtInv, RingInv, [Next]_vars PROVE RingInv'
  OBVIOUS
<1>0. st \in EdgeRecords /\ Len(st.log) \in Nat /\ st.log \in Logs
  BY LogLength DEF TypeOK, EdgeRecords
<1>1. CASE Request \/ Decision \/ Continuation
  <2>1. UNCHANGED ident
    <3>1. Request => UNCHANGED ident
      BY DEF Request, session, Query, receipt, settle, primed_other, grant_label,
             grant_create, grant_revoke, grant_hold, grant_resume, tx_start, loss,
             okplugin_edge_primed
    <3>2. Decision \/ Continuation => UNCHANGED ident
      BY DEF Decision, Continuation, session, RunUnpressed, DecideOrdinary,
             grant_pressed, resume_pressed, settle_pressed, loss_pressed, DropDecision,
             complete_fulfilled, SettleStep, Release
    <3> QED BY <1>1, <3>1, <3>2
  <2>2. UNCHANGED <<st, held>> \/ \E l \in LinkRecords : weld_in(l)
    BY <1>1, RequestLinks, DecisionLinks, ContinuationLinks
  <2> QED BY <2>1, <2>2, WeldRing, QuietRing
<1>2. ASSUME NEW s, s \in EdgeRecords, st' = s, Boot(s) PROVE RingInv'
  <2>1. s.log \in Logs /\ Len(s.log) \in Nat /\ (s.log = << >> <=> Len(s.log) = 0)
    BY <1>2 DEF EdgeRecords, Logs
  <2>2. CASE s.log = << >>
    <3>1. held' = NoHeld /\ ident' = FALSE
      BY <1>2, <2>2 DEF Boot
    <3>2. HoldsFrom(NoHeld, 1, 0)
      BY NothingHeld
    <3> QED BY <1>2, <2>1, <2>2, <3>1, <3>2 DEF RingInv
  <2>3. CASE s.log # << >>
    <3> DEFINE n == Len(s.log) - 1
    <3>1. held' = Hold(NoHeld, n + 1) /\ ident' = FALSE /\ n \in Nat /\ n + 1 = Len(s.log)
      BY <1>2, <2>1, <2>3 DEF Boot
    <3> HIDE DEF n
    <3>2. HoldsFrom(NoHeld, n + 1, n) /\ n + 1 \in 1 .. n + 1
      BY <3>1, NothingHeld
    <3>3. PICK lo \in 1 .. n + 1 : HoldsFrom(Hold(NoHeld, n + 1), lo, n + 1)
      BY <3>1, <3>2, HoldsNext, EmptyTypes
    <3> QED BY <1>2, <3>1, <3>3 DEF RingInv
  <2> QED BY <2>2, <2>3
<1>3. CASE DrawSalt
  <2>1. st'.log = st.log /\ st'.cont = st.cont
    BY <1>0, <1>3 DEF DrawSalt, state_save, EdgeRecords
  <2> QED BY <1>3, <2>1, QuietRing DEF DrawSalt, session
<1>4. CASE Identify
  <2>1. CASE ~st.cont /\ UNCHANGED <<st, held>>
    BY <2>1 DEF RingInv
  <2>2. CASE write_continue
    <3> DEFINE n == Len(st.log)
               l == [append("continue") EXCEPT !.id = IF owes THEN 1 ELSE 0]
    <3>1. st' = [Weld(st, l) EXCEPT !.cont = FALSE] /\ held' = Hold(NoHeld, n + 1)
      BY <2>2 DEF write_continue, state_save
    <3>2. append("continue") \in LinkRecords
      BY BareLinkType DEF LinkOps
    <3>3. l \in LinkRecords
      BY <3>2 DEF LinkRecords
    <3> HIDE DEF l
    <3>4. st'.log = Append(st.log, l) /\ st'.cont = FALSE
      BY <1>0, <3>1 DEF Weld, EdgeRecords
    <3>5. Len(st'.log) = n + 1
      BY <1>0, <3>3, <3>4, AppendedLog
    <3> HIDE DEF n
    <3>6. n \in Nat
      BY <1>0 DEF n
    <3>7. HoldsFrom(NoHeld, n + 1, n) /\ n + 1 \in 1 .. n + 1
      BY <3>6, NothingHeld
    <3>8. PICK lo \in 1 .. n + 1 : HoldsFrom(Hold(NoHeld, n + 1), lo, n + 1)
      BY <3>6, <3>7, HoldsNext, EmptyTypes
    <3> QED BY <3>1, <3>4, <3>5, <3>6, <3>8 DEF RingInv
  <2> QED BY <1>4, <2>1, <2>2 DEF Identify, record
<1>5. CASE okplugin_edge_restore
  <2>1. st'.log = backup.log /\ st'.cont = TRUE /\ held' = NoHeld /\ ident' = FALSE
    BY <1>5 DEF okplugin_edge_restore, state_save
  <2>2. Len(backup.log) \in Nat
    BY DEF TypeOK, Logs
  <2>3. HoldsFrom(NoHeld, Len(backup.log) + 1, Len(backup.log))
    BY <2>2, NothingHeld
  <2> QED BY <2>1, <2>2, <2>3 DEF RingInv
<1>6. CASE okplugin_edge_wipe
  BY <1>2, <1>6, EmptyTypes DEF okplugin_edge_wipe, state_save
<1>7. CASE Restart
  BY <1>2, <1>7 DEF Restart, TypeOK
<1>8. CASE okplugin_edge_backup \/ Unlock \/ EnterConfig \/ Tick \/ UNCHANGED vars
  BY <1>8, QuietRing DEF okplugin_edge_backup, Unlock, EnterConfig, Tick, vars, record,
                         session
<1> QED BY <1>1, <1>3, <1>4, <1>5, <1>6, <1>7, <1>8 DEF Next, Lifecycle

(* A link leaves the ring only when the one `Held` after it comes.          *)
LEMMA StepKeepsHeld == TypeOK /\ RingInv /\ [Next]_vars => KeptUntilHeldFollow
<1> SUFFICES ASSUME TypeOK, RingInv, [Next]_vars, ident, ident', NEW n \in Kept
             PROVE  n \in Kept' \/ Len(st'.log) >= n + Held
  BY DEF KeptUntilHeldFollow
<1>1. /\ st \in EdgeRecords /\ st.log \in Logs /\ Len(st.log) \in Nat
      /\ held \in Rings /\ DOMAIN held = 0 .. Held - 1 /\ Held \in Nat \ {0}
  BY LogLength, SizesAssumption DEF TypeOK, EdgeRecords, Rings
<1>2. PICK k \in 0 .. Held - 1 : held[k] = n /\ n # 0
  BY <1>1 DEF Kept
<1>3. CASE UNCHANGED held
  BY <1>3 DEF Kept
<1>4. ASSUME NEW l \in LinkRecords, weld_in(l)
      PROVE  n \in Kept' \/ Len(st'.log) >= n + Held
  <2> DEFINE top == Len(st.log)
  <2>1. held' = Hold(held, top + 1) /\ st' = Weld(st, l)
    BY <1>4 DEF weld_in, state_save
  <2>2. Len(st'.log) = top + 1
    BY <1>1, <1>4, <2>1, AppendedLog DEF Weld, EdgeRecords
  <2>3. n \in 1 .. top /\ n % Held = k
    BY <1>1, <1>2 DEF RingInv, HoldsFrom
  <2>4. CASE k # (top + 1) % Held
    <3>1. held'[k] = n /\ k \in DOMAIN held'
      BY <1>1, <1>2, <2>1, <2>4 DEF Hold
    <3> QED BY <1>2, <3>1 DEF Kept
  <2>5. CASE k = (top + 1) % Held
    <3>1. top + 1 \in Nat /\ n \in Nat /\ n < top + 1 /\ top + 1 >= 0
      BY <1>1, <2>3
    <3>2. (top + 1) % Held = n % Held
      BY <2>3, <2>5
    <3>3. ASSUME top + 1 - n < Held PROVE FALSE
      <4> DEFINE next == top + 1
      <4>1. next \in Nat /\ n \in Nat /\ n < next /\ next - n < Held
        BY <3>1, <3>3
      <4>2. next % Held = n % Held
        BY <3>2
      <4> HIDE DEF next
      <4> QED BY <1>1, <4>1, <4>2, Apart
    <3> QED BY <1>1, <2>2, <2>3, <3>1, <3>3
  <2> QED BY <2>4, <2>5
<1>5. CASE Request \/ Decision \/ Continuation
  BY <1>3, <1>4, <1>5, RequestLinks, DecisionLinks, ContinuationLinks
<1>6. CASE Lifecycle
  BY <1>3, <1>6 DEF Lifecycle, DrawSalt, Identify, okplugin_edge_backup,
                    okplugin_edge_restore, okplugin_edge_wipe, Restart, Unlock,
                    EnterConfig, Boot
<1>7. CASE Tick \/ UNCHANGED vars
  BY <1>3, <1>7 DEF Tick, vars
<1> QED BY <1>5, <1>6, <1>7 DEF Next

(* What a host can pick up is the latest links with no gap, and each link   *)
(* until `Held` newer ones followed, whatever was linked, restarted,        *)
(* restored or wiped before, for any size of the ring.                      *)
THEOREM PickupIsGapless == Spec => PickupHasNoGap
<1>1. Init => RingInv
  <2>1. HoldsFrom(NoHeld, 1, 0)
    BY NothingHeld
  <2> QED BY <2>1 DEF Init, RingInv, EmptyRecord
<1>2. TypeOK /\ RingInv => PickupGapless
  <2> SUFFICES ASSUME TypeOK, RingInv, ident, Len(st.log) > 0
               PROVE  \E lo \in 1 .. Len(st.log) : Kept = lo .. Len(st.log)
    BY DEF PickupGapless
  <2>1. Len(st.log) \in Nat /\ DOMAIN held = 0 .. Held - 1 /\ Held \in Nat \ {0}
    BY LogLength, SizesAssumption DEF TypeOK, Rings
  <2>2. PICK lo \in 1 .. Len(st.log) + 1 :
          HoldsFrom(held, lo, Len(st.log)) /\ lo <= Len(st.log)
    BY <2>1 DEF RingInv
  <2>3. ASSUME NEW n \in lo .. Len(st.log)
        PROVE  n # 0 /\ n % Held \in DOMAIN held /\ held[n % Held] = n
    <3>1. n \in Nat /\ n # 0
      BY <2>1
    <3>2. n % Held \in 0 .. Held - 1
      BY <2>1, <3>1, Division
    <3> QED BY <2>1, <2>2, <3>1, <3>2 DEF HoldsFrom
  <2>4. \A k \in DOMAIN held : held[k] # 0 => held[k] \in lo .. Len(st.log)
    BY <2>1, <2>2 DEF HoldsFrom
  <2>5. Kept = lo .. Len(st.log)
    BY <2>3, <2>4 DEF Kept
  <2> QED BY <2>1, <2>2, <2>5
<1> QED BY <1>1, <1>2, StepRing, StepKeepsHeld, DebtTyped, PTL DEF Spec, PickupHasNoGap
=============================================================================
