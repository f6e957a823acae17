--------------------------- MODULE MCVendorBridge ---------------------------
(* A computer, a plugged-in key and the soft key; every report asks for a      *)
(* press, and the app's request reads like the computer's.                     *)
EXTENDS VendorBridge

CONSTANTS c1, k1, k2
=============================================================================
