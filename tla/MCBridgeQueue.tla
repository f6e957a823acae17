---------------------------- MODULE MCBridgeQueue ----------------------------
(* Components that share nothing, checked in one run: `part` says which of them  *)
(* moves. A computer, a plugged-in key and the soft key, where every report *)
(* asks for a press and the app's request reads like the computer's; three slots *)
(* and runs of presses that overfill them, with junk in the middle.             *)
EXTENDS VendorBridge, PressQueue

CONSTANTS c1, k1, k2
VARIABLES part,
          writes  \* reports the computers sent, in "bridge"

P(n, t) == [button |-> n, ticks |-> t]

MCRuns == { <<P(1, 10), P(2, 10)>>,
            <<P(3, 20)>>,
            <<P(0, 10), P(4, 10), P(7, 10), P(5, 0)>> }

\* The bridge moves under one of two bounds: of two writes, a conversation of the
\* app and a turn it does any three; or a computer writes for ever, one report at
\* a time, and the soft key is the active one at first.
MCInit ==
  /\ VBInit /\ PQInit /\ writes = 0
  /\ part \in {"bridge", "queue"} \/ (part = "turns" /\ key = k2)

MaxWrites == 2
MaxDone == 3
OneAtATime ==
  waits = <<>> /\ \A k \in Keys : unechoed[k] = <<>> /\ inq[k] = <<>> /\ ev[k] = <<>>

Bound == part \in {"bridge", "turns"} /\ (part = "bridge" => writes' + apps' + turns' <= MaxDone)

QueueMoves == part = "queue" /\ PQNext /\ UNCHANGED <<vbVars, part, writes>>
InBridge(A) == A /\ UNCHANGED <<pqVars, part, writes>> /\ Bound
ComputerMoves ==
  /\ Computer
  /\ \/ part = "bridge" /\ writes < MaxWrites /\ writes' = writes + 1
     \/ part = "turns" /\ OneAtATime /\ UNCHANGED writes
  /\ UNCHANGED <<pqVars, part>> /\ Bound
Moves == QueueMoves \/ InBridge(Person \/ Timers \/ Machine) \/ ComputerMoves

\* The fairness is VBFair's.
MCSpec ==
  /\ MCInit /\ [][Moves]_<<vbVars, pqVars, part, writes>>
  /\ []<><<Rearms>>_vbVars \/ WF_vbVars(InBridge(TimerFires))
  /\ WF_vbVars(InBridge(AskAnswered))
  /\ \A k \in Keys :
       /\ WF_vbVars(InBridge(LaneTurn(k))) /\ WF_vbVars(InBridge(AppStep(k)))
       /\ WF_vbVars(InBridge(PipeStep(k))) /\ WF_vbVars(InBridge(Delivered(k)))
=============================================================================
