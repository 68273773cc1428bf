------------------------------- MODULE MCEmbed -------------------------------
(***************************************************************************)
(* Instances of the client's door for TLC.                                 *)
(***************************************************************************)
EXTENDS Embed

CONSTANTS s1, s2, f1, f2
=============================================================================
