------------------------------ MODULE MCQuotes ------------------------------
(***************************************************************************)
(* Instances of Quotes for TLC: bounds of one dollar to one and a half,    *)
(* and revisions for which those amounts round up, down and from a tie,    *)
(* and for which the commission eats a withdrawal.                         *)
(***************************************************************************)
EXTENDS Quotes

MCMinimum == [type \in RequestType |-> 100]
MCMaximum == [type \in RequestType |-> 150]

\* 1150.00 dinars and a commission of 700.00 a dollar, which is all of one
\* dollar and not of one and a half; 1311.00 and 1.00.
MCRevisions == {<<115000, 7000000>>, <<131100, 10000>>}
=============================================================================
