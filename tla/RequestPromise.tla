--------------------------- MODULE RequestPromise ---------------------------
(***************************************************************************)
(* What the portal promises about one request's money, whatever the desk,  *)
(* the merchants and their timing do: it is open until a merchant who      *)
(* holds it acts; only an acted request is booked in B2CORE; a booked one  *)
(* keeps its figure; and an ended one never changes again.                 *)
(***************************************************************************)
CONSTANTS Requests, Merchants, Amounts, None

VARIABLE promise  \* request -> its phase, who holds it, and for how much

Submit(r) ==
  /\ promise[r].phase = "absent"
  /\ \E h \in Merchants \cup {None}, f \in Amounts :
       promise' = [promise EXCEPT ![r] =
                     [phase |-> "open", holder |-> h, figure |-> f]]

Assign(r) ==
  /\ promise[r].phase = "open"
  /\ \E h \in Merchants \cup {None} : promise' = [promise EXCEPT ![r].holder = h]

Adjust(r) ==
  /\ promise[r].phase \in {"open", "acted"}
  /\ \E f \in Amounts : promise' = [promise EXCEPT ![r].figure = f]

Act(r) ==
  /\ promise[r].phase = "open"
  /\ promise[r].holder # None
  /\ promise' = [promise EXCEPT ![r].phase = "acted"]

Reopen(r) ==
  /\ promise[r].phase = "acted"
  /\ promise' = [promise EXCEPT ![r].phase = "open"]

Book(r) ==
  /\ promise[r].phase = "acted"
  /\ promise' = [promise EXCEPT ![r].phase = "booked"]

End(r) ==
  /\ promise[r].phase \in {"open", "acted", "booked"}
  /\ promise' = [promise EXCEPT ![r].phase = "ended"]

Init == promise = [r \in Requests |->
                     [phase |-> "absent", holder |-> None, figure |-> None]]

Next == \E r \in Requests :
          \/ Submit(r) \/ Assign(r) \/ Adjust(r) \/ Act(r)
          \/ Reopen(r) \/ Book(r) \/ End(r)

Spec == Init /\ [][Next]_promise
=============================================================================
