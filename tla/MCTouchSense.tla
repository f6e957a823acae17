---------------------------- MODULE MCTouchSense ----------------------------
(* Holds of four and five samples over a threshold of two; short runs, one      *)
(* with a press the ring refuses.                                              *)
EXTENDS TouchSense

H(b, t) == [button |-> b, ticks |-> t]

TwoHolds == {H(1, 4), H(6, 5)}
ShortRuns == {<<H(2, 10)>>, <<H(3, 10), H(7, 10), H(4, 10)>>}

\* Nothing new is begun once four of two holds and three queued presses were, or
\* once presses may have run into each other. What was begun goes on.
MaxBegun == 4
MayBegin == crossed = {} /\ Len(asked) + Len(handed) + count < MaxBegun
Begun == MayBegin \/ (asked' = asked /\ ~(run = <<>> /\ run' # <<>>))
=============================================================================
