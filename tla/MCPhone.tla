------------------------------ MODULE MCPhone ------------------------------
(* Components of the app that share nothing, checked in one run: `part` says   *)
(* which of them moves. A user and an address at the gate, which moves under one  *)
(* of three bounds: saves overlap while the pairing window opens and closes;     *)
(* days pass with one save at a time; saves overlap while one pairing is renewed.  *)
(* The phone's copy moves under one of two: the key has four links, or none,     *)
(* when it begins; it has one, or none, and links nothing more, while the copy     *)
(* is edited, lost and read again twice.                                          *)
EXTENDS BtGate, EdgeStore

VARIABLE part

Gate == {"pairing", "days", "renewals"}

MCInit ==
  /\ Init /\ ESInit
  /\ \/ part \in Gate /\ log = <<>>
     \/ part = "links" /\ Len(log) # 1
     \/ part = "events" /\ Len(log) <= 1

\* The window neither times out nor sees a false computer.
Smooth == ~pair'.timedOut /\ pair'.stage # "failed"

Bound ==
  \/ part = "pairing" /\ Smooth /\ day' = 0
  \/ part = "days" /\ Len(jobs') < MaxJobs
  \/ part = "renewals" /\ Smooth /\ (pair'.stage = "waiting" => made = 0)

\* Of two syncs, a link of the key and an event, any three.
MaxMoves == 3
CopyBound ==
  \/ part = "links" /\ events' <= 1 /\ grown' + syncs' + events' <= MaxMoves
  \/ part = "events" /\ grown' = 0

GateMoves == part \in Gate /\ Next /\ Bound /\ UNCHANGED <<esVars, part>>
CopyMoves == part \notin Gate /\ ESNext /\ CopyBound /\ UNCHANGED <<vars, part>>

MCSpec == MCInit /\ [][GateMoves \/ CopyMoves]_<<vars, esVars, part>>
=============================================================================
