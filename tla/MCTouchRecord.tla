---------------------------- MODULE MCTouchRecord ----------------------------
(* Components that share nothing, checked in one run: `part` says which of *)
(* them moves. The holds and runs of MCTouchSense; three values for the record's  *)
(* cell; two callers of the pipe.                                               *)
EXTENDS MCTouchSense, EdgeRecord, HalPipe, EdgeAgents

CONSTANTS v1, v2, v3
VARIABLE part

MCValues == {v1, v2, v3}

MCInit == TSInit /\ Init /\ HPInit /\ EAInit /\ part \in {"touch", "record", "pipe", "agents"}

RecordMoves == part = "record" /\ Next /\ UNCHANGED <<tsVars, hpVars, eaVars, part>>
InTouch(A) == part = "touch" /\ A /\ Begun /\ UNCHANGED <<vars, hpVars, eaVars, part>>
InPipe(A) == part = "pipe" /\ A /\ UNCHANGED <<tsVars, vars, eaVars, part>>
\* Three messages, or two and a restart of the app.
MaxHappened == 3
InAgents(A) == part = "agents" /\ A /\ sent' + restarts' <= MaxHappened
                 /\ UNCHANGED <<tsVars, vars, hpVars, part>>
Moves == RecordMoves \/ InTouch(TSNext) \/ InPipe(HPNext) \/ InAgents(EANext)

\* The fairness is TSFair's, HPFair's and EAFair's.
MCSpec ==
  /\ MCInit /\ [][Moves]_<<tsVars, vars, hpVars, eaVars, part>>
  /\ SF_tsVars(InTouch(ReadPads)) /\ SF_tsVars(InTouch(Sense))
  /\ WF_tsVars(InTouch(BackToLoop \/ Unwinds)) /\ WF_tsVars(InTouch(QueueStep))
  /\ WF_hpVars(InPipe(Executes)) /\ \A c \in Callers : WF_hpVars(InPipe(Polls(c)))
  /\ WF_eaVars(InAgents(HandlerRuns)) /\ WF_eaVars(InAgents(SheetTimers))
=============================================================================
