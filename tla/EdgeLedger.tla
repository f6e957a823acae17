---------------------------- MODULE EdgeLedger ------------------------------
(***************************************************************************)
(* What the key promises whoever reads its chain, as rules over the chain  *)
(* alone: which link may follow which history.  Nothing here knows of      *)
(* budgets in RAM, presses, clocks, the flash or TX starts; EdgeKey, which *)
(* does, is shown to implement it.                                         *)
(***************************************************************************)
EXTENDS EdgeChain, FiniteSets

VARIABLES
  log,   (* the chain the key stands on                          *)
  saved  (* the chain named by the backup section, or << >>      *)

ledgerVars == <<log, saved>>

NoneOwed == Unpaid(log) = {}

(* An automatic use: nothing owed, its grant open and off hold, the next    *)
(* step of that grant, paid by a scope that covers it and has room.         *)
MaySpend(l) ==
  /\ NoneOwed
  /\ Open(log, l.id) /\ ~OnHold(log, l.id)
  /\ l.step = Cardinality(UsesOf(log, l.id)) + 1
  /\ l.scope \in DOMAIN log[l.id].scopes
  /\ Covers(log[l.id].scopes[l.scope], l.req)
  /\ Cardinality(UsesOfScope(log, l.id, l.scope)) < log[l.id].scopes[l.scope].cap

(* Every use the grant allows was made. *)
Fulfilled(g) ==
  \A j \in DOMAIN log[g].scopes :
    Cardinality(UsesOfScope(log, g, j)) = log[g].scopes[j].cap

MayEnd(l) ==
  /\ Open(log, l.id)
  /\ \/ l.how = "completed" /\ NoneOwed /\ Fulfilled(l.id)
     \/ l.how = "revoked"
     \/ l.how = "settled" /\ ~NoneOwed

(* A loss vouches for no link but one of this chain.  Its range is not      *)
(* promised: it was checked when asked for, and a restore before the press  *)
(* may have put a shorter chain there.                                      *)
MayFollow(l) ==
  \/ l.op = "use"      /\ MaySpend(l)
  \/ l.op = "create"   /\ NoneOwed /\ l.id = Len(log) + 1
  \/ l.op = "end"      /\ MayEnd(l)
  \/ l.op = "receipt"  /\ l.id \in Unpaid(log)
  \/ l.op = "loss"     /\ l.step \in {0} \union DOMAIN log
  \/ l.op = "hold"     /\ Open(log, l.id) /\ ~OnHold(log, l.id)
  \/ l.op = "resume"   /\ NoneOwed /\ Open(log, l.id) /\ OnHold(log, l.id)
  \/ l.op = "continue" /\ log # << >>

Extend ==
  /\ Len(log') = Len(log) + 1
  /\ log' = Append(log, log'[Len(log')])
  /\ MayFollow(log'[Len(log')])
  /\ UNCHANGED saved

(* A backup names a chain; a restore goes on from it; a wipe forgets all.   *)
Save    == saved' = log /\ UNCHANGED log
Resume  == log' = saved /\ UNCHANGED saved
Forget  == log' = << >> /\ UNCHANGED saved

LedgerInit == log = << >> /\ saved = << >>

LedgerNext == Extend \/ Save \/ Resume \/ Forget

LedgerSpec == LedgerInit /\ [][LedgerNext]_ledgerVars
=============================================================================
