-------------------------------- MODULE MCKeys --------------------------------
(***************************************************************************)
(* Instances of the keys and the counters for TLC.                         *)
(***************************************************************************)
EXTENDS Keys

CONSTANTS c1, c2, k1, k2
=============================================================================
