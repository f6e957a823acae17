----------------------------- MODULE EdgeRecord -----------------------------
(***************************************************************************)
(* The Edge record on flash: two sectors written in turn, the higher gen   *)
(* of the readable ones wins at load (okplugin_edge.cpp, state_encode to   *)
(* state_load, and okplugin_edge_wipe).  A sector that is erased, or was   *)
(* being written when the process died, fails its magic or its check and   *)
(* is not read: both are Unreadable here.                                  *)
(***************************************************************************)
EXTENDS Naturals

CONSTANTS
  Values,     (* what a record holds, the gen apart        *)
  Empty,      (* an empty chain: no link, no salt, no debt *)
  Unreadable, (* a sector state_decode refuses             *)
  MaxGen      (* bound: saves since the last wipe          *)

ASSUME ValuesAssumption == Empty \notin Values
ASSUME UnreadableAssumption ==
  Unreadable \notin [gen : Nat, val : Values \union {Empty}]
ASSUME MaxGenAssumption == MaxGen \in Nat

VARIABLES
  a, b, (* EDGE_STATE_A and EDGE_STATE_B                    *)
  st,   (* the copy in RAM                                  *)
  step  (* "idle", or inside a save ("put") or a wipe ("erase") *)

vars == <<a, b, st, step>>

NoRecord == [gen |-> 0, val |-> Empty]

Odd(gen) == gen % 2 = 1

(* Mutant: the gens are not compared. *)
MutantNewerIsA == a # Unreadable

NewerIsA == a # Unreadable /\ (b = Unreadable \/ a.gen > b.gen)

(* state_load: the newer readable record, or an empty chain. *)
state_load ==
  IF NewerIsA THEN a ELSE IF b # Unreadable THEN b ELSE NoRecord

(* state_save: gen up, and the other sector is erased ... *)
SaveBegin(v) ==
  /\ step = "idle" /\ st.gen < MaxGen
  /\ step' = "put"
  /\ st' = [gen |-> st.gen + 1, val |-> v]
  /\ \/ Odd(st.gen + 1)  /\ b' = Unreadable /\ UNCHANGED a
     \/ ~Odd(st.gen + 1) /\ a' = Unreadable /\ UNCHANGED b

(* ... then programmed, word by word; only the last word makes it readable. *)
SaveEnd ==
  /\ step = "put" /\ step' = "idle"
  /\ \/ Odd(st.gen)  /\ b' = st /\ UNCHANGED a
     \/ ~Odd(st.gen) /\ a' = st /\ UNCHANGED b
  /\ UNCHANGED st

(* okplugin_edge_wipe: sector A, then sector B and the copy in RAM. *)
WipeA ==
  /\ step = "idle" /\ step' = "erase"
  /\ a' = Unreadable
  /\ UNCHANGED <<b, st>>

WipeB ==
  /\ step = "erase" /\ step' = "idle"
  /\ b' = Unreadable /\ st' = NoRecord
  /\ UNCHANGED a

(* The process dies, anywhere, and the next one loads. *)
Crash ==
  /\ step' = "idle" /\ st' = state_load
  /\ UNCHANGED <<a, b>>

Init == a = Unreadable /\ b = Unreadable /\ st = NoRecord /\ step = "idle"

Next == (\E v \in Values : SaveBegin(v)) \/ SaveEnd \/ WipeA \/ WipeB \/ Crash

Spec == Init /\ [][Next]_vars
-----------------------------------------------------------------------------

Records == [gen : Nat, val : Values \union {Empty}]

TypeOK ==
  /\ a \in Records \union {Unreadable} /\ b \in Records \union {Unreadable}
  /\ st \in Records
  /\ step \in {"idle", "put", "erase"}

(* The two copies never contend: each sector holds only its own parity, two *)
(* readable copies are one save apart, and between two saves or wipes the   *)
(* copy in RAM is the one a restart would load.                             *)
SectorsAgree ==
  /\ a # Unreadable => ~Odd(a.gen) /\ a.val # Empty
  /\ b # Unreadable => Odd(b.gen) /\ b.val # Empty
  /\ a # Unreadable /\ b # Unreadable => a.gen = b.gen + 1 \/ b.gen = a.gen + 1
  /\ step = "idle" => st = state_load
  /\ step = "put" =>
       /\ (IF Odd(st.gen) THEN b ELSE a) = Unreadable
       /\ st.gen = state_load.gen + 1 /\ st.val # Empty
  /\ step = "erase" => a = Unreadable

(* A save is atomic and durable, however it is cut off: the two sectors     *)
(* implement one durable cell.                                              *)
Older ==
  LET other == IF NewerIsA THEN b ELSE a
  IN  IF other = Unreadable THEN Empty ELSE other.val
Cell == INSTANCE DurableCell WITH cell <- state_load.val, before <- Older,
                                  value <- st.val
CellKept == Cell!CellSpec

(* "the latest link, so a restart never loses it": what a restart would     *)
(* load only ever changes to what the program holds, or to nothing.         *)
NeverAnOlderRecord ==
  [][state_load'.val \in {state_load.val, st.val, Empty}]_vars
=============================================================================
