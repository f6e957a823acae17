----------------------------- MODULE MCEdgeKey ------------------------------
(* Small instances of EdgeKey. *)
EXTENDS EdgeKey

CONSTANTS l1, l2

(* Two stored codes a budget may pay for, one derived code, one it may not. *)
MCCodes   == {"sign1", "sign2", "agent", "backup"}
MCPayable == {"sign1", "sign2", "agent"}
MCDerived == {"agent"}
MCLabels  == {l1, l2}

Req(c, l, m) == [code |-> c, label |-> l, msg |-> m]
Scope(c, n)  == [code |-> c, cap |-> n]
Grant(s, life) == [scopes |-> s, uses |-> SumCaps(s), life |-> life]

(* Budgets of one scope and of two, of one use and of more. *)
One  == Grant(<<Scope("sign1", 1)>>, 0)
Two  == Grant(<<Scope("sign1", 2)>>, 1)
Both == Grant(<<Scope("sign1", 1), Scope("sign2", 1)>>, 2)

(* Budgets on derived identities, and two the key must refuse: a code that  *)
(* may not be spent, and more uses than MaxUses.                            *)
Agents == Grant(<<Scope("sign1", 1), Scope("agent", 1)>>, 1)
Bad    == Grant(<<Scope("sign1", 1), Scope("backup", 1)>>, 1)
Huge   == Grant(<<Scope("sign1", 4)>>, 1)

Stored1 == Req("sign1", NoLabel, 1)
Stored2 == Req("sign2", NoLabel, 1)
Other1  == Req("sign1", NoLabel, 2)

GrantTwo  == {Two}
GrantOne  == {One}
GrantMix  == {One, Both}
GrantOdd  == {Agents, Bad, Huge}

JustAgent1 == {Req("agent", l1, 1)}
JustStored1 == {Stored1}
TwoSlots    == {Stored1, Stored2}
TwoMessages == {Stored1, Other1}

(* A loss the chain reaches, and one beyond its end. *)
SomeRanges == {[from |-> 1, to |-> 1], [from |-> 1, to |-> 9]}
NoRanges   == {}
=============================================================================
