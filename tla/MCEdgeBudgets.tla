--------------------------- MODULE MCEdgeBudgets ----------------------------
(* EdgeKey under one of three bounds, which `part` names: a budget of two uses  *)
(* from its opening to the link that ends it, over its lifetime; the same budget  *)
(* with a host that starts one message and asks for another, and a core that  *)
(* may ask for no press (`free`); two budgets alive.                          *)
EXTENDS MCEdgeKey

VARIABLE part

AllStored  == {Stored1, Stored2, Other1}
AllBudgets == {Two, One, Both}

Case(requests, grants, live, links, ticks, free) ==
  [requests |-> requests, grants |-> grants, live |-> live, links |-> links,
   ticks |-> ticks, free |-> free]
Cases ==
  [life     |-> Case(JustStored1, GrantTwo, 1, 6, 3, FALSE),
   messages |-> Case(TwoMessages, GrantTwo, 1, 4, 1, TRUE),
   slots    |-> Case(TwoSlots, GrantMix, 2, 4, 1, FALSE)]

Within(c) ==
  /\ {tx'.req, pend'.req} \subseteq c.requests \union {NoReq}
  /\ press'.what = "grant" => \E g \in c.grants : press'.scopes = ScopesOf(g)'
  /\ \A i \in 1 .. MaxLive : i > c.live => budgets'[i].id = 0
  /\ c.free \/ pend' = NoPend \/ pend'.press \/ pend'.refuse \/ pend'.budget # 0
  /\ Len(st'.log) <= c.links /\ now' <= c.ticks

MCSpec ==
  /\ Init /\ part \in DOMAIN Cases
  /\ [][Next /\ Within(Cases[part]) /\ UNCHANGED part]_<<vars, part>>
=============================================================================
