----------------------------- MODULE EdgeChain -----------------------------
(***************************************************************************)
(* The hash chain of the OnlyKey Edge plugin                               *)
(* (android/okemu/plugins/edge/src/okplugin_edge.cpp).                     *)
(*                                                                         *)
(* head[n] = SHA256(head[n-1] || link[n]) is taken to be injective, so a   *)
(* head is modelled by the sequence of links it pins: two heads are equal  *)
(* exactly when the histories are.  Positions count from 1; the code's seq *)
(* of a link is its position minus one, and SEQ_NONE is the empty log.     *)
(***************************************************************************)
EXTENDS Naturals, Sequences

CONSTANTS
  NoLabel, (* a code that names no derived identity      *)
  NoReq    (* the request of a link that is not a use    *)

(***************************************************************************)
(* The ops the key writes.  "use" is a self-pressed sign or decrypt: the   *)
(* only sign and decrypt links there are (an ordinary press is not         *)
(* linked).                                                                *)
(***************************************************************************)
LinkOps == {"use", "create", "end", "receipt", "loss", "hold", "resume",
            "continue"}

(* Byte 5 of a grant-end or a receipt, as far as the rules tell them apart. *)
Hows == {"none", "completed", "revoked", "settled", "answered"}

(* A link with nothing but its op; EXCEPT fills in what the op carries.     *)
append(op) ==
  [op |-> op, how |-> "none", id |-> 0, step |-> 0, scope |-> 0,
   req |-> NoReq, scopes |-> <<>>]

(* The positions of the links of one kind. *)
At(log, op) == {k \in DOMAIN log : log[k].op = op}

(* A receipt - answered or settled - for use i, before position hi. *)
PaidBefore(log, i, hi) ==
  \E k \in (i + 1) .. (hi - 1) : log[k].op = "receipt" /\ log[k].id = i

(* The uses no receipt has paid. *)
Unpaid(log) == {i \in At(log, "use") : ~PaidBefore(log, i, Len(log) + 1)}

(* The uses of grant g (by its id), and those its scope j paid. *)
UsesOf(log, g) == {k \in At(log, "use") : log[k].id = g}
UsesOfScope(log, g, j) == {k \in UsesOf(log, g) : log[k].scope = j}

(* Grant g was opened on this device's own chain and no end link names it.  *)
(* (Expiry, a lock and a reboot end a budget without a link.)               *)
Open(log, g) ==
  /\ g \in At(log, "create")
  /\ \A k \in DOMAIN log :
       k > g => /\ log[k].op # "continue"
                /\ ~(log[k].op = "end" /\ log[k].id = g)

(* Grant g was put on hold and not resumed since. *)
OnHold(log, g) ==
  \E h \in At(log, "hold") :
    /\ log[h].id = g
    /\ \A k \in At(log, "resume") : k > h => log[k].id # g

(* What each scope of a grant lets a request be: the code, and - on a       *)
(* derived code - the identity.                                             *)
Covers(scope, req) ==
  scope.code = req.code /\ (scope.label = NoLabel \/ scope.label = req.label)
=============================================================================
