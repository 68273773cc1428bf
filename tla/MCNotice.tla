------------------------------- MODULE MCNotice ------------------------------
(***************************************************************************)
(* Instances of the hours and the client's page for TLC: a zone whose      *)
(* clocks stand still, and one whose clocks go back two ticks on the       *)
(* second day.                                                             *)
(***************************************************************************)
EXTENDS Notice

CONSTANTS baghdad, moving, a1, a2

Fixed == [at |-> 0, before |-> 1, after |-> 1]
BackOnDayTwo == [at |-> Day + 1, before |-> 3, after |-> 1]

MCRules == [z \in {baghdad, moving} |-> IF z = baghdad THEN Fixed ELSE BackOnDayTwo]

\* The desk and the clock alone: the page stays as it was loaded.
HoursOnly ==
  Init /\ [][(Administer \/ (Passed /\ UNCHANGED <<settings, form>>))
             /\ UNCHANGED <<page, calls>>]_vars
=============================================================================
