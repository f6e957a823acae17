-------------------------- MODULE EdgeRecordProofs --------------------------
(***************************************************************************)
(* The Edge record is durable for every set of values and any number of    *)
(* saves: SectorsAgree, with the types, is inductive, and under it each    *)
(* step of the two sectors is a step of the durable cell.                  *)
(***************************************************************************)
EXTENDS EdgeRecord, TLAPS

RecordInv == TypeOK /\ SectorsAgree

(* Gens alternate in parity, so the sector a save writes is never the one   *)
(* that holds the newest record.                                            *)
LEMMA ParityFlips ==
  ASSUME NEW g \in Nat
  PROVE  Odd(g + 1) <=> ~Odd(g)
BY DEF Odd

(* The record is well formed in every state, whatever is cut off: each      *)
(* sector keeps its parity and RAM holds what a restart would load.         *)
LEMMA InitRecordInv == Init => RecordInv
BY UnreadableAssumption
   DEF Init, RecordInv, TypeOK, SectorsAgree, Records, NoRecord, state_load, NewerIsA

LEMMA LoadType ==
  ASSUME TypeOK PROVE state_load \in Records
BY DEF TypeOK, state_load, NewerIsA, Records, NoRecord

LEMMA NextRecordInv == RecordInv /\ [Next]_vars => RecordInv'
<1> SUFFICES ASSUME RecordInv, [Next]_vars PROVE RecordInv'
  OBVIOUS
<1> USE UnreadableAssumption, ValuesAssumption DEF RecordInv
<1>1. ASSUME NEW v \in Values, SaveBegin(v) PROVE RecordInv'
  <2>0. st.gen \in Nat /\ st.gen + 1 \in Nat /\ st = state_load
    BY <1>1 DEF SaveBegin, TypeOK, Records, SectorsAgree
  <2>p. Odd(st.gen + 1) <=> ~Odd(st.gen)
    BY <2>0, ParityFlips
  <2>1. TypeOK'
    BY <1>1, <2>0 DEF SaveBegin, TypeOK, Records
  <2>2. st'.gen = st.gen + 1 /\ st'.val = v /\ v # Empty
    BY <1>1 DEF SaveBegin
  <2>3. state_load' = state_load
    BY <1>1, <2>0, <2>p
       DEF SaveBegin, SectorsAgree, TypeOK, Records, state_load, NewerIsA, NoRecord
  <2>4. SectorsAgree'
    BY <1>1, <2>0, <2>2, <2>3, <2>p DEF SaveBegin, SectorsAgree
  <2> QED BY <2>1, <2>4
<1>2. CASE SaveEnd
  <2>1. TypeOK'
    BY <1>2 DEF SaveEnd, TypeOK
  <2>0. st \in Records /\ state_load \in Records /\ st.gen \in Nat
    BY LoadType DEF TypeOK, Records
  <2>3. state_load' = st
    BY <1>2, <2>0 DEF SaveEnd, SectorsAgree, TypeOK, Records, state_load, NewerIsA, NoRecord
  <2>4. SectorsAgree'
    BY <1>2, <2>0, <2>3 DEF SaveEnd, SectorsAgree, TypeOK, Records, state_load, NewerIsA, NoRecord
  <2> QED BY <2>1, <2>4
<1>3. CASE WipeA
  BY <1>3 DEF WipeA, TypeOK, SectorsAgree
<1>4. CASE WipeB
  BY <1>4 DEF WipeB, TypeOK, SectorsAgree, Records, NoRecord, state_load, NewerIsA
<1>5. CASE Crash
  <2>1. TypeOK'
    BY <1>5, LoadType DEF Crash, TypeOK
  <2>2. state_load' = state_load
    BY <1>5 DEF Crash, state_load, NewerIsA
  <2> QED BY <1>5, <2>1, <2>2 DEF Crash, SectorsAgree
<1>6. CASE UNCHANGED vars
  BY <1>6 DEF vars, TypeOK, SectorsAgree, state_load, NewerIsA
<1> QED BY <1>1, <1>2, <1>3, <1>4, <1>5, <1>6 DEF Next

(* In every reachable state each sector keeps its own parity, two readable  *)
(* copies are one save apart, and the copy in RAM is what a restart loads.  *)
THEOREM RecordIsWellFormed == Spec => [](TypeOK /\ SectorsAgree)
BY InitRecordInv, NextRecordInv, PTL DEF Spec, RecordInv

(* Every step of the two sectors, a crash included, is a step of the        *)
(* durable cell.                                                            *)
LEMMA StepIsACellStep ==
  RecordInv /\ [Next]_vars => [Cell!CellNext]_(Cell!cellVars)
<1> SUFFICES ASSUME RecordInv, [Next]_vars
             PROVE  [Cell!CellNext]_(Cell!cellVars)
  OBVIOUS
<1> USE UnreadableAssumption, ValuesAssumption DEF RecordInv
<1>1. ASSUME NEW v \in Values, SaveBegin(v) PROVE Cell!Put(v)
  <2>0. st.gen \in Nat /\ st = state_load
    BY <1>1 DEF SaveBegin, TypeOK, Records, SectorsAgree
  <2>p. Odd(st.gen + 1) <=> ~Odd(st.gen)
    BY <2>0, ParityFlips
  <2>3. state_load' = state_load
    BY <1>1, <2>0, <2>p
       DEF SaveBegin, SectorsAgree, TypeOK, Records, state_load, NewerIsA, NoRecord
  <2>4. Older' = Empty
    BY <1>1, <2>0, <2>p
       DEF SaveBegin, SectorsAgree, TypeOK, Records, state_load, NewerIsA, NoRecord, Older
  <2> QED BY <1>1, <2>3, <2>4 DEF SaveBegin, Cell!Put
<1>2. ASSUME SaveEnd PROVE Cell!Commit
  <2>0. st \in Records /\ state_load \in Records /\ st.gen \in Nat
    BY LoadType DEF TypeOK, Records
  <2>3. state_load' = st
    BY <1>2, <2>0 DEF SaveEnd, SectorsAgree, TypeOK, Records, state_load, NewerIsA, NoRecord
  <2>4. Older' = state_load.val
    BY <1>2, <2>0
       DEF SaveEnd, SectorsAgree, TypeOK, Records, state_load, NewerIsA, NoRecord, Older
  <2> QED BY <1>2, <2>3, <2>4 DEF SaveEnd, Cell!Commit
<1>3. ASSUME WipeA PROVE Cell!Erase
  <2>1. state_load'.val \in {state_load.val, Older}
    BY <1>3 DEF WipeA, state_load, NewerIsA, NoRecord, Older
  <2>2. Older' = Empty
    BY <1>3 DEF WipeA, NewerIsA, Older
  <2> QED BY <1>3, <2>1, <2>2 DEF WipeA, Cell!Erase
<1>4. ASSUME WipeB PROVE Cell!Erased
  BY <1>4 DEF WipeB, SectorsAgree, state_load, NewerIsA, NoRecord, Older, Cell!Erased
<1>5. ASSUME Crash PROVE Cell!Fail
  BY <1>5 DEF Crash, state_load, NewerIsA, Older, Cell!Fail
<1>6. ASSUME UNCHANGED vars PROVE UNCHANGED Cell!cellVars
  BY <1>6 DEF vars, state_load, NewerIsA, Older, Cell!cellVars
<1> QED BY <1>1, <1>2, <1>3, <1>4, <1>5, <1>6 DEF Next, Cell!CellNext

LEMMA InitIsACellInit == Init => Cell!CellInit
BY DEF Init, Cell!CellInit, state_load, NewerIsA, NoRecord, Older

(* The two sectors implement the durable cell: a save that finished         *)
(* survives every crash, and one that was cut off leaves the old record.    *)
THEOREM RecordIsDurable == Spec => CellKept
<1>1. RecordInv /\ [Next]_vars => RecordInv'
  BY NextRecordInv
<1> QED BY InitRecordInv, <1>1, StepIsACellStep, InitIsACellInit, PTL
         DEF Spec, CellKept, Cell!CellSpec
=============================================================================
