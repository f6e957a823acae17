---------------------------- MODULE MCEdgeRecord ----------------------------
(* A small instance of EdgeRecord. *)
EXTENDS EdgeRecord

CONSTANTS v1, v2, v3

MCValues == {v1, v2, v3}
=============================================================================
