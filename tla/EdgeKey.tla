------------------------------- MODULE EdgeKey -------------------------------
(***************************************************************************)
(* The firmware half of OnlyKey Edge (okplugin_edge.cpp): the chain, the   *)
(* budgets, the TX start, the debt, the press-gated requests, restart,     *)
(* backup, restore and wipe.                                               *)
(*                                                                         *)
(* The firmware is one thread.  A handler is one action, except where it   *)
(* saves the record more than once or runs an operation after saving: then *)
(* each save is a step of its own and `busy` says which handler is between *)
(* two of them, because a crash may fall there.  The core firmware around  *)
(* the plugin (which request waits, the press, the timeout) is not in this *)
(* repository; it is modelled from how the plugin's hooks are called.      *)
(***************************************************************************)
EXTENDS EdgeChain, Naturals, Sequences, FiniteSets

CONSTANTS
  MaxLive,   (* live budgets at once (4)                                    *)
  MaxScopes, (* scopes per budget (4)                                       *)
  MaxUses,   (* uses per budget (1024)                                      *)
  Held,      (* links held in RAM for pickup (8)                            *)
  PressMs,   (* how long an asked press stays good                          *)
  LabelMs,   (* how long a staged label stays good                          *)
  Wrap,      (* millis() counts modulo this (2^32)                          *)
  LongIs32,  (* the build's unsigned long is 32 bits wide                   *)
  RefusedMax,(* where the refusal count stops (255)                         *)
  Codes,     (* (op, slot) pairs                                            *)
  Payable,   (* those a budget may pay for                                  *)
  Derived,   (* those whose identity is in the request                      *)
  Labels,    (* derived identities                                          *)
  Requests,  (* signs and decrypts a host may submit: [code, label, msg]    *)
  Grants,    (* budgets a host may ask for: [scopes, uses, life]            *)
  Ranges,    (* loss ranges a host may name: [from, to]                     *)
  MaxLinks,  (* bound: links in the chain                                   *)
  MaxNow,    (* bound: ticks of the clock since boot                        *)
  MaxSalts,  (* bound: salts drawn                                          *)
  BackupAt   (* bound: chain lengths a backup is made at                    *)

(* What the host adds up: the caps of a grant. *)
SumCaps(scopes) ==
  LET sum[n \in 0 .. Len(scopes)] ==
        IF n = 0 THEN 0 ELSE sum[n - 1] + scopes[n].cap
  IN  sum[Len(scopes)]

ASSUME SizesAssumption ==
  /\ MaxLive \in Nat \ {0} /\ MaxScopes \in Nat \ {0} /\ MaxUses \in Nat
  /\ Held \in Nat \ {0} /\ PressMs \in Nat /\ LabelMs \in Nat
  /\ Wrap \in Nat \ {0} /\ LongIs32 \in BOOLEAN /\ RefusedMax \in Nat
  /\ MaxLinks \in Nat /\ MaxNow \in Nat /\ MaxSalts \in Nat
  /\ BackupAt \subseteq Nat \ {0}
ASSUME CodesAssumption ==
  /\ Derived \subseteq Payable /\ Payable \subseteq Codes
  /\ NoLabel \notin Labels /\ NoReq \notin Requests
ASSUME RequestsAssumption ==
  Requests \subseteq [code : Codes, label : Labels \union {NoLabel}, msg : Nat]
ASSUME GrantsAssumption ==
  \A g \in Grants :
    /\ g.scopes \in Seq([code : Codes, cap : Nat])
    /\ g.uses \in Nat /\ g.uses = SumCaps(g.scopes)
    /\ g.life \in Nat
ASSUME RangesAssumption == Ranges \subseteq [from : Nat \ {0}, to : Nat \ {0}]

VARIABLES
  st,      (* the record in RAM: log, debt (0 or the position of the owed use),
              salted, chain (which salt), cont (a continue link is owed)    *)
  disk,    (* the record a restart would load                              *)
  mode,    (* "locked", "open" or "config"                                 *)
  ident,   (* the Edge key and device id are in RAM                        *)
  budgets, (* live budgets, by slot                                        *)
  tx,      (* the TX start, or NoTx                                        *)
  pend,    (* the sign or decrypt waiting for its decision, and the TX start   
              it was checked against                                          *)
  press,   (* the Edge request waiting for its press                       *)
  wait,    (* what the core waits to decide: "none", "edge" or "sign"      *)
  staged,  (* labels staged for the next GRANT_CREATE                      *)
  held,    (* the ring of links for pickup: positions, 0 = empty           *)
  refused, (* TX starts refused since power-up                             *)
  busy,    (* the handler between two saves, or "idle"                     *)
  backup,  (* the last backup section made: log and debt                   *)
  now,     (* true time since boot; millis() is now % Wrap                 *)
  salts    (* how many salts have been drawn                               *)

vars == <<st, disk, mode, ident, budgets, tx, pend, press, wait, staged, held,
          refused, busy, backup, now, salts>>

(* The variables in the groups most actions leave alone. *)
record  == <<st, disk>>
session == <<mode, ident>>
outside == <<backup, now, salts>>

------------------------------------------------------------------------------
(* Empty values. *)

EmptyRecord ==
  [log |-> << >>, debt |-> 0, salted |-> FALSE, chain |-> 0, cont |-> FALSE]
NoBudget ==
  [id |-> 0, scopes |-> << >>, uses |-> 0, used |-> 0, onHold |-> FALSE,
   opened |-> 0, life |-> 0, openedAt |-> 0]
NoBudgets == [i \in 1 .. MaxLive |-> NoBudget]
NoTx    == [on |-> FALSE, head |-> << >>, req |-> NoReq]
NoPend  == [active |-> FALSE, req |-> NoReq, budget |-> 0, press |-> FALSE,
            refuse |-> FALSE, start |-> NoTx]
NoPress == [what |-> "none", since |-> 0, verified |-> << >>, scopes |-> << >>,
            uses |-> 0, life |-> 0, id |-> 0, to |-> 0]
NoStaged == [labels |-> [j \in 1 .. MaxScopes |-> NoLabel], since |-> 0]
NoHeld  == [k \in 0 .. Held - 1 |-> 0]
NoBackup == [log |-> << >>, debt |-> 0]

------------------------------------------------------------------------------
(* The clock.  Nothing is asked of the key in the first tick after boot.    *)

millis == now % Wrap

(* uint32_t arithmetic: (uint32_t)(millis() - since) *)
Since32(since) == (millis - since) % Wrap

(* unsigned long arithmetic: as Since32 where long is 32 bits, else a clock *)
(* that wrapped gives a difference near 2^64, beyond every window.          *)
FreshFor(since, window) ==
  IF millis >= since \/ LongIs32 THEN Since32(since) <= window ELSE FALSE

Tick == now < MaxNow /\ now' = now + 1
        /\ UNCHANGED <<st, disk, mode, ident, budgets, tx, pend, press, wait,
                       staged, held, refused, busy, backup, salts>>

------------------------------------------------------------------------------
(* The record and the weld. *)

(* The debt a link leaves (weld_in): a use owes; a receipt - answered, or   *)
(* settled at a press - pays the use it names.                              *)
DebtAfter(s, l) ==
  IF l.op = "use" THEN Len(s.log) + 1
  ELSE IF l.op = "receipt" /\ l.id = s.debt THEN 0
  ELSE s.debt

Weld(s, l) == [s EXCEPT !.log = Append(@, l), !.debt = DebtAfter(s, l)]

(* Mutant: the record is saved later. *)
MutantState_save(s) == st' = s /\ UNCHANGED disk

(* A save is atomic here: EdgeRecord shows the two sectors make it so.      *)
state_save(s) == st' = s /\ disk' = s

(* Mutant: the ring starts over with each link. *)
MutantHold(ring, n) == [[k \in 0 .. Held - 1 |-> 0] EXCEPT ![n % Held] = n]

(* The ring slot of position n holds it. *)
Hold(ring, n) == [ring EXCEPT ![n % Held] = n]

(* The weld: every link goes through it.  Saved at once, held for pickup,   *)
(* and any TX start is over.                                                *)
weld_in(l) ==
  /\ Len(st.log) < MaxLinks
  /\ state_save(Weld(st, l))
  /\ held' = Hold(held, Len(st.log) + 1)
  /\ tx' = NoTx

------------------------------------------------------------------------------
(* Budgets. *)

(* Mutant: only the latest link is looked at. *)
MutantOwes == st.debt # 0 /\ st.debt = Len(st.log)

owes == st.debt # 0

(* Mutant: a budget has no lifetime. *)
MutantAlive(b) == b.id # 0

alive(b) == b.id # 0 /\ Since32(b.opened) <= b.life

AliveSlots == {i \in 1 .. MaxLive : alive(budgets[i])}

live_budget(id) == {i \in AliveSlots : budgets[i].id = id}

First(S) == CHOOSE i \in S : \A k \in S : i <= k

PayingScopes(b, req) ==
  {j \in DOMAIN b.scopes :
     Covers(b.scopes[j], req) /\ b.scopes[j].used < b.scopes[j].cap}

(* Mutant: a held budget pays. *)
MutantPayable_now(b) == alive(b) /\ b.used < b.uses

Payable_now(b) == alive(b) /\ ~b.onHold /\ b.used < b.uses

any_budget_payable == \E i \in 1 .. MaxLive : Payable_now(budgets[i])

(* The slot of the budget that pays for a request, 0 for none: started, may *)
(* pay, alive, off hold, a scope with room.                                 *)
budget_for(req) ==
  LET payers == {i \in 1 .. MaxLive :
                   Payable_now(budgets[i]) /\ PayingScopes(budgets[i], req) # {}}
  IN  IF tx.on /\ mode = "open" /\ ~owes /\ payers # {} THEN First(payers) ELSE 0

(* Mutant: the scope is not counted. *)
MutantSpent(b, j) == [b EXCEPT !.used = @ + 1]

(* One use of a budget, paid by its scope j. *)
Spent(b, j) == [b EXCEPT !.used = @ + 1, !.scopes[j].used = @ + 1]

(* Ends the budget in slot i: gone from RAM, and its grant-end link.        *)
end_budget(i, how) ==
  /\ budgets' = [budgets EXCEPT ![i] = NoBudget]
  /\ weld_in([append("end") EXCEPT !.id = budgets[i].id, !.how = how])

------------------------------------------------------------------------------
(* OKEDGE requests.  Each needs the key unlocked, out of config mode, and   *)
(* its identity (Identify runs first when it is not there yet); each drops  *)
(* a press request nobody pressed in time.                                  *)

Recv == mode = "open" /\ ident /\ busy = "idle"

PressKept ==
  IF press.what # "none" /\ ~FreshFor(press.since, PressMs) THEN NoPress ELSE press

(* Put an Edge request up for its press: it takes over what the core waits  *)
(* for, and a sign that waited is no longer recorded.                       *)
press_wait(p) ==
  /\ press' = p
  /\ wait' = "edge"
  /\ pend' = NoPend

(* Mutant: the count runs past its byte. *)
MutantRefuseTx == refused' = refused + 1

RefuseTx == refused' = IF refused < RefusedMax THEN refused + 1 ELSE refused

(* HEAD, PICKUP, CHECKPOINT, PUBKEY, STATEMENT: nothing but the dropped     *)
(* press changes.                                                           *)
Query ==
  /\ Recv
  /\ press' = PressKept
  /\ UNCHANGED <<record, session, budgets, tx, pend, wait, staged, held, refused,
                 busy, outside>>

LabelsFresh == staged.since # 0 /\ FreshFor(staged.since, LabelMs)

grant_label(j, l) ==
  /\ Recv
  /\ press' = PressKept
  /\ staged' = [labels |-> [(IF LabelsFresh THEN staged.labels ELSE NoStaged.labels)
                              EXCEPT ![j] = l],
                since  |-> IF millis = 0 THEN 1 ELSE millis]
  /\ UNCHANGED <<record, session, budgets, tx, pend, wait, held, refused, busy,
                 outside>>

(* Mutant: a derived code may be asked for with no identity staged. *)
MutantGrantAllowed(g) ==
  /\ Len(g.scopes) \in 1 .. MaxScopes
  /\ \A j \in DOMAIN g.scopes :
       g.scopes[j].code \in Payable /\ g.scopes[j].cap >= 1
  /\ g.uses <= MaxUses

(* A grant the key would open, given the labels staged for it.              *)
GrantAllowed(g) ==
  /\ Len(g.scopes) \in 1 .. MaxScopes
  /\ \A j \in DOMAIN g.scopes :
       /\ g.scopes[j].code \in Payable /\ g.scopes[j].cap >= 1
       /\ g.scopes[j].code \in Derived =>
            LabelsFresh /\ staged.labels[j] # NoLabel
  /\ g.uses <= MaxUses

ScopesOf(g) ==
  [j \in DOMAIN g.scopes |->
     [code |-> g.scopes[j].code, cap |-> g.scopes[j].cap, used |-> 0,
      label |-> IF g.scopes[j].code \in Derived THEN staged.labels[j] ELSE NoLabel]]

(* The heads a host may say it verified: the key's, or an older one.        *)
HostHeads ==
  {SubSeq(st.log, 1, n) : n \in {k \in 0 .. Len(st.log) : k + 1 >= Len(st.log)}}

grant_create(g, verified) ==
  /\ Recv
  /\ staged' = NoStaged
  /\ \/ /\ ~owes /\ verified = st.log /\ GrantAllowed(g)
        /\ press_wait([NoPress EXCEPT !.what = "grant", !.since = millis,
                         !.verified = verified, !.scopes = ScopesOf(g),
                         !.uses = g.uses, !.life = g.life])
     \/ /\ ~(~owes /\ verified = st.log /\ GrantAllowed(g))
        /\ press' = NoPress
        /\ UNCHANGED <<pend, wait>>
  /\ UNCHANGED <<record, session, budgets, tx, held, refused, busy, outside>>

(* GRANT_REVOKE: no press; a debt the budget made stays owed. *)
grant_revoke(i) ==
  /\ Recv
  /\ alive(budgets[i])
  /\ press' = PressKept
  /\ end_budget(i, "revoked")
  /\ UNCHANGED <<session, pend, wait, staged, refused, busy, outside>>

(* GRANT_HOLD: no press; holding a held budget links nothing. *)
grant_hold(i) ==
  /\ Recv
  /\ alive(budgets[i]) /\ ~budgets[i].onHold
  /\ press' = PressKept
  /\ budgets' = [budgets EXCEPT ![i].onHold = TRUE]
  /\ weld_in([append("hold") EXCEPT !.id = budgets[i].id])
  /\ UNCHANGED <<session, pend, wait, staged, refused, busy, outside>>

grant_resume(id, verified) ==
  /\ Recv
  /\ \/ /\ live_budget(id) # {} /\ ~owes /\ verified = st.log
        /\ press_wait([NoPress EXCEPT !.what = "resume", !.since = millis,
                         !.verified = verified, !.id = id])
     \/ /\ ~(live_budget(id) # {} /\ ~owes /\ verified = st.log)
        /\ press' = NoPress
        /\ UNCHANGED <<pend, wait>>
  /\ UNCHANGED <<record, session, budgets, tx, staged, held, refused, busy, outside>>

(* RECEIPT for the owed use; then budgets whose uses are all made end.      *)
receipt ==
  /\ Recv
  /\ owes
  /\ press' = PressKept
  /\ weld_in([append("receipt") EXCEPT !.id = st.debt, !.how = "answered"])
  /\ busy' = "completing"
  /\ UNCHANGED <<session, budgets, pend, wait, staged, refused, outside>>

(* Mutant: off by one. *)
MutantFulfilledSlots == {i \in AliveSlots : budgets[i].used > budgets[i].uses}

FulfilledSlots == {i \in AliveSlots : budgets[i].used >= budgets[i].uses}

complete_fulfilled ==
  /\ busy = "completing"
  /\ \/ /\ ~owes /\ FulfilledSlots # {}
        /\ end_budget(First(FulfilledSlots), "completed")
        /\ UNCHANGED busy
     \/ /\ owes \/ FulfilledSlots = {}
        /\ busy' = "idle"
        /\ UNCHANGED <<record, budgets, tx, held>>
  /\ UNCHANGED <<session, pend, press, wait, staged, refused, outside>>

(* SETTLE: nothing owed is refused at once, else it takes a press. *)
settle ==
  /\ Recv
  /\ \/ /\ owes
        /\ press_wait([NoPress EXCEPT !.what = "settle", !.since = millis])
     \/ /\ ~owes
        /\ press' = NoPress
        /\ UNCHANGED <<pend, wait>>
  /\ UNCHANGED <<record, session, budgets, tx, staged, held, refused, busy, outside>>

tx_start(head, req) ==
  /\ Recv
  /\ press' = PressKept
  /\ \/ /\ ~owes /\ any_budget_payable
        /\ tx' = [on |-> TRUE, head |-> head, req |-> req]
        /\ UNCHANGED refused
     \/ /\ owes \/ ~any_budget_payable
        /\ RefuseTx
        /\ UNCHANGED tx
  /\ UNCHANGED <<record, session, budgets, pend, wait, staged, held, busy, outside>>

loss(r) ==
  /\ Recv
  /\ \/ /\ r.from <= r.to /\ r.to <= Len(st.log)
        /\ press_wait([NoPress EXCEPT !.what = "loss", !.since = millis,
                         !.id = r.from, !.to = r.to])
     \/ /\ ~(r.from <= r.to /\ r.to <= Len(st.log))
        /\ press' = NoPress
        /\ UNCHANGED <<pend, wait>>
  /\ UNCHANGED <<record, session, budgets, tx, staged, held, refused, busy, outside>>

------------------------------------------------------------------------------
(* Signs and decrypts. *)

(* Mutant: the head the start was made over is not compared. *)
MutantOkplugin_edge_primed(req, asks) ==
  /\ mode = "open" /\ busy = "idle"
  /\ LET mismatch == tx.on /\ tx.req # req
         i        == IF mismatch THEN 0 ELSE budget_for(req)
     IN  /\ pend' = [active |-> TRUE, req |-> req, budget |-> i,
                     press |-> asks /\ ~mismatch /\ i = 0, refuse |-> mismatch,
                     start |-> IF mismatch THEN NoTx ELSE tx]
         /\ IF mismatch THEN RefuseTx ELSE UNCHANGED refused
         /\ tx' = IF i = 0 THEN NoTx ELSE tx
  /\ wait' = "sign"
  /\ UNCHANGED <<record, session, budgets, press, staged, held, busy, outside>>

(* okplugin_edge_primed: a sign or decrypt now waits for its decision.      *)
(* A request that is not the announced one is set to be refused, and spends *)
(* the TX start; one a budget pays runs with no press; any other spends a   *)
(* TX start no budget could serve, and is decided as the core asks: by the  *)
(* person's press, or - `asks` is FALSE, the core's own user_input_mode is  *)
(* NONE - with none.                                                        *)
okplugin_edge_primed(req, asks) ==
  /\ mode = "open" /\ busy = "idle"
  /\ LET mismatch == tx.on /\ (tx.head # st.log \/ tx.req # req)
         i        == IF mismatch THEN 0 ELSE budget_for(req)
     IN  /\ pend' = [active |-> TRUE, req |-> req, budget |-> i,
                     press |-> asks /\ ~mismatch /\ i = 0, refuse |-> mismatch,
                     start |-> IF mismatch THEN NoTx ELSE tx]
         /\ IF mismatch THEN RefuseTx ELSE UNCHANGED refused
         /\ tx' = IF i = 0 THEN NoTx ELSE tx
  /\ wait' = "sign"
  /\ UNCHANGED <<record, session, budgets, press, staged, held, busy, outside>>

(* Any other operation is primed: no sign is recorded as waiting, and an    *)
(* Edge request no longer has the press to itself.                          *)
primed_other ==
  /\ mode = "open" /\ busy = "idle"
  /\ pend' = NoPend /\ wait' = "none"
  /\ UNCHANGED <<record, session, budgets, tx, press, staged, held, refused, busy,
                 outside>>

(* The request must end here instead of running: it was not the announced   *)
(* one, or it was primed to be paid and can no longer be.                   *)
okplugin_edge_refused ==
  \/ pend.refuse
  \/ pend.budget # 0 /\ ~pend.press /\ budget_for(pend.req) # pend.budget

(* The decision on a request a budget pays: the self-press link, saved      *)
(* before the operation runs.  A budget that no longer pays links nothing.  *)
SpendBudget ==
  IF pend.budget # 0 /\ budget_for(pend.req) = pend.budget
  THEN LET b == budgets[pend.budget]
           j == First(PayingScopes(b, pend.req))
       IN  /\ budgets' = [budgets EXCEPT ![pend.budget] = Spent(b, j)]
           /\ weld_in([append("use") EXCEPT !.id = b.id, !.step = b.used + 1,
                         !.scope = j, !.req = pend.req])
  ELSE UNCHANGED <<record, budgets, tx, held>>

(* okcore_run_pending_op on the no-press path: refused; or, the identity    *)
(* there, linked if a budget pays for it, and then run ("running": the      *)
(* record is saved, the result is not out yet).                             *)
RunUnpressed ==
  /\ busy = "idle" /\ mode # "locked"
  /\ wait = "sign" /\ pend.active /\ ~pend.press
  /\ \/ /\ okplugin_edge_refused
        /\ pend' = NoPend /\ wait' = "none"
        /\ UNCHANGED <<record, budgets, tx, held, busy>>
     \/ /\ ~okplugin_edge_refused
        /\ ident
        /\ SpendBudget
        /\ pend' = [pend EXCEPT !.active = FALSE]
        /\ busy' = "running"
        /\ UNCHANGED wait
  /\ UNCHANGED <<session, press, staged, refused, outside>>

(* The operation ran and its result went out. *)
Release ==
  /\ busy = "running"
  /\ busy' = "idle" /\ wait' = "none" /\ pend' = NoPend
  /\ UNCHANGED <<record, session, budgets, tx, press, staged, held, refused, outside>>

(* An ordinary request, pressed, denied or timed out: no link. *)
DecideOrdinary ==
  /\ busy = "idle" /\ mode # "locked" /\ ident
  /\ wait = "sign" /\ pend.active /\ pend.press
  /\ pend' = NoPend /\ wait' = "none"
  /\ UNCHANGED <<record, session, budgets, tx, press, staged, held, refused, busy,
                 outside>>

------------------------------------------------------------------------------
(* The decision on an Edge request. *)

Deciding == busy = "idle" /\ mode # "locked" /\ ident /\ wait = "edge"

Pressed(what) == press.what = what /\ FreshFor(press.since, PressMs)

FreeSlots == 1 .. MaxLive \ AliveSlots

(* Mutant: the head is not compared again at the press. *)
MutantGrantStands == ~owes /\ FreeSlots # {}

(* grant_pressed's checks at the press: a use may have slipped in, a link   *)
(* may have been written, the slots may have filled.                        *)
GrantStands == ~owes /\ press.verified = st.log /\ FreeSlots # {}

grant_pressed ==
  /\ Deciding /\ Pressed("grant") /\ GrantStands
  /\ LET id == Len(st.log) + 1
     IN  /\ budgets' = [budgets EXCEPT ![First(FreeSlots)] =
                          [id |-> id, scopes |-> press.scopes, uses |-> press.uses,
                           used |-> 0, onHold |-> FALSE, opened |-> millis,
                           life |-> press.life, openedAt |-> now]]
         /\ weld_in([append("create") EXCEPT !.id = id, !.scopes = press.scopes])
  /\ press' = NoPress /\ wait' = "none"
  /\ UNCHANGED <<session, pend, staged, refused, busy, outside>>

ResumeStands ==
  /\ live_budget(press.id) # {} /\ ~owes /\ press.verified = st.log
  /\ budgets[First(live_budget(press.id))].onHold

resume_pressed ==
  /\ Deciding /\ Pressed("resume") /\ ResumeStands
  /\ budgets' = [budgets EXCEPT ![First(live_budget(press.id))].onHold = FALSE]
  /\ weld_in([append("resume") EXCEPT !.id = press.id])
  /\ press' = NoPress /\ wait' = "none"
  /\ UNCHANGED <<session, pend, staged, refused, busy, outside>>

(* settle_pressed: first every live budget ends, each with its link ...     *)
settle_pressed ==
  /\ Deciding /\ Pressed("settle") /\ owes
  /\ busy' = "settling"
  /\ press' = NoPress /\ wait' = "none"
  /\ UNCHANGED <<record, session, budgets, tx, pend, staged, held, refused, outside>>

(* Mutant: the budgets are left alive. *)
MutantSettleStep ==
  /\ busy = "settling" /\ busy' = "idle"
  /\ weld_in([append("receipt") EXCEPT !.id = st.debt, !.how = "settled"])
  /\ UNCHANGED <<session, budgets, pend, press, wait, staged, refused, outside>>

(* ... then the receipt that clears the debt. *)
SettleStep ==
  /\ busy = "settling"
  /\ \/ /\ AliveSlots # {}
        /\ end_budget(First(AliveSlots), "settled")
        /\ UNCHANGED busy
     \/ /\ AliveSlots = {}
        /\ weld_in([append("receipt") EXCEPT !.id = st.debt, !.how = "settled"])
        /\ busy' = "idle"
        /\ UNCHANGED budgets
  /\ UNCHANGED <<session, pend, press, wait, staged, refused, outside>>

(* The key names link to + 1 from its own memory, where it still holds it.  *)
loss_subject(to) ==
  IF to < Len(st.log) /\ (to + 1 = Len(st.log) \/ held[(to + 1) % Held] = to + 1)
  THEN to + 1 ELSE 0

loss_pressed ==
  /\ Deciding /\ Pressed("loss")
  /\ weld_in([append("loss") EXCEPT !.id = press.id, !.step = loss_subject(press.to)])
  /\ press' = NoPress /\ wait' = "none"
  /\ UNCHANGED <<session, budgets, pend, staged, refused, busy, outside>>

(* A press that no longer stands, a deny or a timeout: the request is gone  *)
(* and nothing is linked.                                                   *)
DropDecision ==
  /\ busy = "idle" /\ mode # "locked" /\ wait = "edge"
  /\ press' = NoPress /\ wait' = "none"
  /\ UNCHANGED <<record, session, budgets, tx, pend, staged, held, refused, busy,
                 outside>>

------------------------------------------------------------------------------
(* Identity, backup, restore, wipe, restart. *)

(* ensure_identity, first half: no salt yet - one is drawn and saved. *)
DrawSalt ==
  /\ mode # "locked" /\ busy = "idle" /\ ~ident /\ ~st.salted
  /\ salts < MaxSalts
  /\ salts' = salts + 1
  /\ state_save([st EXCEPT !.salted = TRUE, !.chain = salts + 1])
  /\ busy' = "identity"
  /\ UNCHANGED <<session, budgets, tx, pend, press, wait, staged, held, refused,
                 backup, now>>

(* write_continue: budgets and held links end, and the first link of the    *)
(* restored device's own chain follows the backup's last position.          *)
write_continue ==
  /\ Len(st.log) < MaxLinks
  /\ budgets' = NoBudgets
  /\ tx' = NoTx
  /\ held' = Hold(NoHeld, Len(st.log) + 1)
  /\ state_save([Weld(st, [append("continue") EXCEPT
                             !.id = IF owes THEN 1 ELSE 0]) EXCEPT !.cont = FALSE])

(* ensure_identity, second half: the identity, and an owed continue link. *)
Identify ==
  /\ mode # "locked" /\ busy \in {"idle", "identity"} /\ ~ident /\ st.salted
  /\ ident' = TRUE /\ busy' = "idle"
  /\ \/ st.cont /\ write_continue
     \/ ~st.cont /\ UNCHANGED <<record, budgets, tx, held>>
  /\ UNCHANGED <<mode, pend, press, wait, staged, refused, outside>>

okplugin_edge_backup ==
  /\ mode # "locked" /\ busy = "idle" /\ ident
  /\ st.log # << >> /\ Len(st.log) \in BackupAt
  /\ backup' = [log |-> st.log, debt |-> st.debt]
  /\ UNCHANGED <<record, session, budgets, tx, pend, press, wait, staged, held,
                 refused, busy, now, salts>>

(* Mutants: the debt is not restored; the salt is kept. *)
MutantRestoreNoDebt ==
  /\ mode # "locked" /\ busy = "idle" /\ backup.log # << >>
  /\ state_save([log |-> backup.log, debt |-> 0, salted |-> FALSE,
                 chain |-> st.chain, cont |-> TRUE])
  /\ ident' = FALSE
  /\ budgets' = NoBudgets /\ tx' = NoTx /\ held' = NoHeld
  /\ UNCHANGED <<mode, pend, press, wait, staged, refused, busy, outside>>
MutantRestoreSameSalt ==
  /\ mode # "locked" /\ busy = "idle" /\ backup.log # << >>
  /\ state_save([log |-> backup.log, debt |-> backup.debt, salted |-> st.salted,
                 chain |-> st.chain, cont |-> TRUE])
  /\ ident' = FALSE
  /\ budgets' = NoBudgets /\ tx' = NoTx /\ held' = NoHeld
  /\ UNCHANGED <<mode, pend, press, wait, staged, refused, busy, outside>>

(* A restore: the backup's chain and debt, no salt (so a new device), no    *)
(* budgets.  A waiting press and staged labels are not touched.             *)
okplugin_edge_restore ==
  /\ mode # "locked" /\ busy = "idle" /\ backup.log # << >>
  /\ state_save([log |-> backup.log, debt |-> backup.debt, salted |-> FALSE,
                 chain |-> st.chain, cont |-> TRUE])
  /\ ident' = FALSE
  /\ budgets' = NoBudgets /\ tx' = NoTx /\ held' = NoHeld
  /\ UNCHANGED <<mode, pend, press, wait, staged, refused, busy, outside>>

(* What a new process starts from. *)
Boot(s) ==
  /\ mode' = "locked" /\ ident' = FALSE /\ busy' = "idle"
  /\ budgets' = NoBudgets /\ tx' = NoTx /\ pend' = NoPend /\ press' = NoPress
  /\ wait' = "none" /\ staged' = NoStaged /\ refused' = 0 /\ now' = 1
  /\ held' = IF s.log = << >> THEN NoHeld ELSE Hold(NoHeld, Len(s.log))

(* A wipe erases the record; the core restarts after it. *)
okplugin_edge_wipe ==
  /\ busy = "idle" /\ mode # "locked"
  /\ state_save(EmptyRecord)
  /\ Boot(EmptyRecord)
  /\ UNCHANGED <<backup, salts>>

(* A lock, a reboot or a crash, between any two steps: a new process, and   *)
(* state_load.                                                              *)
Restart ==
  /\ st' = disk /\ UNCHANGED disk
  /\ Boot(disk)
  /\ UNCHANGED <<backup, salts>>

Unlock ==
  /\ mode = "locked" /\ mode' = "open"
  /\ UNCHANGED <<record, ident, budgets, tx, pend, press, wait, staged, held,
                 refused, busy, outside>>

EnterConfig ==
  /\ mode = "open" /\ busy = "idle" /\ mode' = "config"
  /\ UNCHANGED <<record, ident, budgets, tx, pend, press, wait, staged, held,
                 refused, busy, outside>>

------------------------------------------------------------------------------

Init ==
  /\ st = EmptyRecord /\ disk = EmptyRecord
  /\ mode = "locked" /\ ident = FALSE
  /\ budgets = NoBudgets /\ tx = NoTx /\ pend = NoPend /\ press = NoPress
  /\ wait = "none" /\ staged = NoStaged /\ held = NoHeld /\ refused = 0
  /\ busy = "idle" /\ backup = NoBackup /\ now = 1 /\ salts = 0

Request ==
  \/ Query
  \/ \E j \in 1 .. MaxScopes, l \in Labels : grant_label(j, l)
  \/ \E g \in Grants, h \in HostHeads : grant_create(g, h)
  \/ \E i \in 1 .. MaxLive : grant_revoke(i) \/ grant_hold(i)
  \/ \E i \in 1 .. MaxLive, h \in HostHeads : grant_resume(budgets[i].id, h)
  \/ receipt
  \/ settle
  \/ \E h \in HostHeads, r \in Requests : tx_start(h, r)
  \/ \E r \in Ranges : loss(r)
  \/ \E r \in Requests, asks \in BOOLEAN : okplugin_edge_primed(r, asks)
  \/ primed_other

Decision ==
  \/ RunUnpressed \/ DecideOrdinary
  \/ grant_pressed \/ resume_pressed \/ settle_pressed \/ loss_pressed
  \/ DropDecision

Continuation == complete_fulfilled \/ SettleStep \/ Release

Lifecycle ==
  \/ DrawSalt \/ Identify
  \/ okplugin_edge_backup \/ okplugin_edge_restore \/ okplugin_edge_wipe
  \/ Restart \/ Unlock \/ EnterConfig

Next == Request \/ Decision \/ Continuation \/ Lifecycle \/ Tick

Spec == Init /\ [][Next]_vars
------------------------------------------------------------------------------
(* What must hold. *)

ScopeRecords ==
  [code : Codes, cap : Nat, used : Nat, label : Labels \union {NoLabel}]
LinkRecords ==
  [op : LinkOps, how : Hows, id : Nat, step : Nat, scope : Nat,
   req : Requests \union {NoReq}, scopes : Seq(ScopeRecords)]
Logs == Seq(LinkRecords)
EdgeRecords ==
  [log : Logs, debt : Nat, salted : BOOLEAN, chain : Nat, cont : BOOLEAN]
BudgetRecords ==
  [id : Nat, scopes : Seq(ScopeRecords), uses : Nat, used : Nat,
   onHold : BOOLEAN, opened : Nat, life : Nat, openedAt : Nat]
TxRecords == [on : BOOLEAN, head : Logs, req : Requests \union {NoReq}]
PendRecords ==
  [active : BOOLEAN, req : Requests \union {NoReq}, budget : 0 .. MaxLive,
   press : BOOLEAN, refuse : BOOLEAN, start : TxRecords]
PressRecords ==
  [what : {"none", "grant", "resume", "settle", "loss"}, since : Nat,
   verified : Logs, scopes : Seq(ScopeRecords), uses : Nat, life : Nat,
   id : Nat, to : Nat]
StagedRecords ==
  [labels : [1 .. MaxScopes -> Labels \union {NoLabel}], since : Nat]
Rings == [0 .. Held - 1 -> Nat]

(* Every variable has its type. *)
TypeOK ==
  /\ st \in EdgeRecords /\ disk \in EdgeRecords
  /\ mode \in {"locked", "open", "config"} /\ ident \in BOOLEAN
  /\ budgets \in [1 .. MaxLive -> BudgetRecords]
  /\ tx \in TxRecords /\ pend \in PendRecords /\ press \in PressRecords
  /\ wait \in {"none", "edge", "sign"}
  /\ staged \in StagedRecords /\ held \in Rings
  /\ refused \in 0 .. RefusedMax
  /\ busy \in {"idle", "completing", "settling", "running", "identity"}
  /\ backup \in [log : Logs, debt : Nat]
  /\ now \in Nat /\ salts \in Nat

(* One debt at a time, across every handler, restart and restore: the debt  *)
(* the record (and the flash, and a backup) holds is the one use of its     *)
(* chain that no receipt has paid.                                          *)
DebtIs(r) == Unpaid(r.log) = IF r.debt = 0 THEN {} ELSE {r.debt}
DebtIsTheUnpaidUse == DebtIs(st) /\ DebtIs(disk) /\ DebtIs(backup)

(* While a receipt is owed nothing starts: between a use and the next use,  *)
(* budget opening or resume, the chain holds the use's receipt.             *)
StartsPaid(log) ==
  \A i \in At(log, "use"), j \in DOMAIN log :
    j > i /\ log[j].op \in {"use", "create", "resume"} => PaidBefore(log, i, j)
NothingStartsWhileOwed == StartsPaid(st.log)

(* Every budget in RAM is the one its chain tells of: opened by the link    *)
(* its id names, with the uses and the hold the links since then show.      *)
BudgetMatchesChain(b) ==
  /\ Open(st.log, b.id)
  /\ b.used = Cardinality(UsesOf(st.log, b.id))
  /\ b.onHold = OnHold(st.log, b.id)
  /\ \A j \in DOMAIN b.scopes :
       /\ b.scopes[j].used = Cardinality(UsesOfScope(st.log, b.id, j))
       /\ [b.scopes[j] EXCEPT !.used = 0] = st.log[b.id].scopes[j]
BudgetsMatchChain ==
  \A i \in 1 .. MaxLive : budgets[i].id # 0 => BudgetMatchesChain(budgets[i])

(* The record is saved before an operation's result is released: whenever   *)
(* an operation primed to be paid by a budget runs, the flash already holds *)
(* its use as the last link, and owes its receipt.  (An operation the core  *)
(* itself asks no press for, and no budget pays, runs with no link.)        *)
FreeRunIsRecorded ==
  busy = "running" /\ pend.budget # 0 =>
    LET last == disk.log[Len(disk.log)]
    IN  /\ disk.log # << >> /\ disk.debt = Len(disk.log)
        /\ last.op = "use" /\ last.req = pend.req

(* A budget whose uses are all made and receipted never sits live: the key  *)
(* ended it itself, with no host step.                                      *)
FulfilledBudgetsEnd ==
  busy = "idle" /\ st.debt = 0 =>
    \A i \in AliveSlots : budgets[i].used < budgets[i].uses

(* However labels are staged, grants asked for and presses awaited, the     *)
(* chain never opens a budget on a code that may not be spent, on a derived *)
(* code with no identity named, on no uses, or on more uses than allowed.   *)
OnlyNarrowBudgetsOpen ==
  \A k \in At(st.log, "create") :
    LET scopes == st.log[k].scopes
    IN  /\ Len(scopes) \in 1 .. MaxScopes /\ SumCaps(scopes) <= MaxUses
        /\ \A j \in DOMAIN scopes :
             /\ scopes[j].code \in Payable /\ scopes[j].cap >= 1
             /\ scopes[j].code \in Derived => scopes[j].label # NoLabel

(* After a settle no budget opened before it ever pays again. *)
SettleEndsEveryBudget ==
  \A k \in At(st.log, "receipt"), i \in At(st.log, "use") :
    st.log[k].how = "settled" /\ i > k => st.log[i].id > k

(* What can be picked up is the latest links with no gap, and a link that   *)
(* could be picked up stays so until `Held` newer ones followed it: as each *)
(* new link can be, all of the last `Held` since boot can, and a host that  *)
(* polls once every `Held` links misses none.                               *)
Kept == {held[k] : k \in DOMAIN held} \ {0}
PickupGapless ==
  ident /\ Len(st.log) > 0 => \E lo \in 1 .. Len(st.log) : Kept = lo .. Len(st.log)
KeptUntilHeldFollow ==
  ident /\ ident' => \A n \in Kept : n \in Kept' \/ Len(st'.log) >= n + Held
PickupHasNoGap == []PickupGapless /\ [][KeptUntilHeldFollow]_vars

(* An automatic use runs only what a TX start announced, over the head the  *)
(* key stood on when the request came; whatever else arrives before it runs *)
(* (a second TX start too), only links that take away - a hold, an end -    *)
(* may stand between that head and the use.                                 *)
Appended(op) ==
  /\ st'.salted (* a restored chain, not linked here, has no salt yet *)
  /\ Len(st'.log) = Len(st.log) + 1 /\ st'.log[Len(st'.log)].op = op
UseWasAnnounced ==
  [][Appended("use") =>
       LET start == pend.start
       IN  /\ start.on /\ start.req = st'.log[Len(st'.log)].req
           /\ start.head = SubSeq(st.log, 1, Len(start.head))
           /\ \A k \in Len(start.head) + 1 .. Len(st.log) :
                st.log[k].op \in {"end", "hold"}]_vars

(* A budget opens or resumes only on the head the host verified and nothing *)
(* owed, however long the key waited for the press.                         *)
OpensOnVerifiedHead ==
  [][Appended("create") \/ Appended("resume")
       => press.verified = st.log /\ st.debt = 0]_vars

(* No budget pays after its lifetime, by true time. *)
LifetimeIsKept ==
  [][Appended("use") =>
       now - budgets[pend.budget].openedAt <= budgets[pend.budget].life]_vars

(* One device id, one history: while the salt stays, the chain only grows - *)
(* through crashes and restores too - and a new salt was never used before. *)
NoSecondHistory ==
  [][st'.salted =>
       \/ /\ st.salted /\ st'.chain = st.chain /\ Len(st'.log) >= Len(st.log)
          /\ SubSeq(st'.log, 1, Len(st.log)) = st.log
       \/ st'.chain > salts]_vars

(* The key implements the promise made to readers of its chain. *)
Ledger == INSTANCE EdgeLedger WITH log <- st.log, saved <- backup.log
LedgerKept == Ledger!LedgerSpec
=============================================================================
