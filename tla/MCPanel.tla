------------------------------- MODULE MCPanel -------------------------------
(***************************************************************************)
(* Instances of the conversation and the live panels for TLC.              *)
(***************************************************************************)
EXTENDS Panel

CONSTANTS r1, d1, d2, m1, m2, c
=============================================================================
