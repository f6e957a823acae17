---------------------------- MODULE DurableCell -----------------------------
(***************************************************************************)
(* What the Edge record promises the plugin: one durable value.  A write   *)
(* that finished survives every crash; one a crash cuts off leaves the old *)
(* value; no crash leaves anything else.  An erase is weaker: cut off, it  *)
(* may leave the value that the last write replaced.                       *)
(***************************************************************************)
CONSTANTS Values, Empty

VARIABLES
  cell,   (* what a restart would load                     *)
  before, (* what the last finished write replaced         *)
  value,  (* the program's copy                            *)
  step    (* "idle", "put" or "erase"                      *)

cellVars == <<cell, before, value, step>>

CellInit == cell = Empty /\ before = Empty /\ value = Empty /\ step = "idle"

Put(v) ==
  /\ step = "idle" /\ step' = "put"
  /\ value' = v /\ before' = Empty
  /\ UNCHANGED cell

Commit ==
  /\ step = "put" /\ step' = "idle"
  /\ cell' = value /\ before' = cell
  /\ UNCHANGED value

Erase ==
  /\ step = "idle" /\ step' = "erase"
  /\ cell' \in {cell, before} /\ before' = Empty
  /\ UNCHANGED value

Erased ==
  /\ step = "erase" /\ step' = "idle"
  /\ cell' = Empty /\ before' = Empty /\ value' = Empty

Fail ==
  /\ step' = "idle" /\ value' = cell
  /\ UNCHANGED <<cell, before>>

CellNext == (\E v \in Values : Put(v)) \/ Commit \/ Erase \/ Erased \/ Fail

CellSpec == CellInit /\ [][CellNext]_cellVars
=============================================================================
