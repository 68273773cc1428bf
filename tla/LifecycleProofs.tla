-------------------------- MODULE LifecycleProofs --------------------------
(***************************************************************************)
(* Theorems about Lifecycle, for any number of requests, merchants,        *)
(* operators and amounts, and for any grant of the permissions.            *)
(***************************************************************************)
EXTENDS Lifecycle, TLAPS

(***************************************************************************)
(* The types of what Save and Post write, used in every case of a move.    *)
(***************************************************************************)
LEMMA SaveType ==
  ASSUME TypeOK, NEW a \in Actors, NEW r \in Requests, NEW new \in Row,
         Save(a, r, new)
  PROVE  /\ row' \in [Requests -> Row]
         /\ page' \in [Actors -> Page]
         /\ merchant' \in [Merchants -> MerchantRecord]
<1>1. NoPage \in Page
  BY DEF NoPage, Page
<1> QED
  BY <1>1 DEF TypeOK, Save

(* A posted reason keeps the threads typed.                                *)
LEMMA PostType ==
  ASSUME TypeOK, NEW r \in Requests, NEW move \in ReasonMoves,
         NEW audience \in {"client", "desk"}, Post(r, move, audience)
  PROVE  thread' \in [Requests -> SUBSET (ReasonMoves \X {"client", "desk"})]
BY DEF TypeOK, Post

(* The audit entries of a review and of an assignment keep the trail typed.*)
LEMMA TrailType ==
  ASSUME TypeOK, NEW r \in Requests, NEW m \in Merchants \cup {None}
  PROVE  /\ [trail EXCEPT ![r].reviewed = TRUE] \in [Requests -> Trail]
         /\ [trail EXCEPT ![r].acted = m] \in [Requests -> Trail]
BY DEF TypeOK, Trail

-----------------------------------------------------------------------------
(* The variables keep their types: the request row holds only the columns' *)
(* own values whatever sequence of moves is made.                          *)
THEOREM TypeCorrect == Spec => []TypeOK
<1>1. Init => TypeOK
  <2> SUFFICES ASSUME Init PROVE TypeOK
    OBVIOUS
  <2>1. row \in [Requests -> Row]
    BY DEF Init, Row, Status, Both, Unsubmitted
  <2>2. page \in [Actors -> Page]
    BY DEF Init, NoPage, Page
  <2>3. merchant \in [Merchants -> MerchantRecord]
    BY DEF Init, MerchantRecord
  <2>4. thread \in [Requests -> SUBSET (ReasonMoves \X {"client", "desk"})]
    BY DEF Init
  <2>5. trail \in [Requests -> Trail]
    BY DEF Init, Trail
  <2> QED
    BY <2>1, <2>2, <2>3, <2>4, <2>5 DEF TypeOK
<1>2. TypeOK /\ [Next]_vars => TypeOK'
  <2> SUFFICES ASSUME TypeOK, [Next]_vars PROVE TypeOK'
    OBVIOUS
  <2>0. /\ \A r \in Requests : row[r] \in Row
        /\ \A s \in Staff : s \in Actors
        /\ \A m \in Merchants : m \in Actors
    BY DEF TypeOK, Actors
  <2>1. ASSUME NEW r \in Requests, NEW type \in Directions,
               NEW m \in Merchants, NEW amt \in Amounts, BuildDraft(r, type, m, amt)
        PROVE  TypeOK'
    <3>1. [row[r] EXCEPT !.type = type, !.status = "drafted",
                         !.selected = m, !.amount = amt] \in Row
      BY <2>0, LifecycleAssumption DEF Row, Status, Unsubmitted, Both
    <3> QED
      BY <2>1, <3>1 DEF BuildDraft, TypeOK
  <2>2. ASSUME NEW r \in Requests, CreateRequest(r) PROVE TypeOK'
    <3>1. /\ [row[r] EXCEPT !.status = "assigned", !.assigned = row[r].selected,
               !.submitted = row[r].amount, !.stamps = {"assigned_at"}] \in Row
          /\ [row[r] EXCEPT !.status = "submitted", !.submitted = row[r].amount] \in Row
      BY <2>0 DEF Row, Status, OpenStatuses, AwaitingFinance, Stamp
    <3> QED
      BY <2>2, <3>1 DEF CreateRequest, TypeOK
  <2>3. ASSUME NEW a \in Actors, NEW r \in Requests, Open(a, r) PROVE TypeOK'
    BY <2>3 DEF Open, TypeOK, Row, Page
  <2>4. ASSUME NEW a \in Actors, Leave(a) PROVE TypeOK'
    BY <2>4 DEF Leave, TypeOK, NoPage, Page
  <2>5. ASSUME NEW a \in Actors, NEW r \in Requests, Reject(a, r) PROVE TypeOK'
    <3>1. [row[r] EXCEPT !.status = "rejected", !.stamps = @ \cup {"closed_at"},
                         !.rejection_reason = "reject"] \in Row
      BY <2>0 DEF Row, Status, Terminal, Stamp
    <3> QED
      BY <2>5, <3>1, <2>0, SaveType, PostType DEF Reject, TypeOK, ReasonMoves
  <2>6. ASSUME NEW a \in Actors, NEW r \in Requests, NEW amt \in Amounts,
               CorrectAmount(a, r, amt)
        PROVE  TypeOK'
    <3>1. [row[r] EXCEPT !.amount = amt] \in Row
      BY <2>0 DEF Row
    <3> QED
      BY <2>6, <3>1, <2>0, SaveType DEF CorrectAmount, TypeOK
  <2>7. ASSUME NEW s \in Staff, NEW r \in Requests, Review(s, r) PROVE TypeOK'
    <3>1. [row[r] EXCEPT !.status = "under_review"] \in Row
      BY <2>0 DEF Row, Status, OpenStatuses, AwaitingFinance
    <3> QED
      BY <2>7, <3>1, <2>0, SaveType, TrailType DEF Review, TypeOK
  <2>8. ASSUME NEW s \in Staff, NEW r \in Requests, NEW m \in Merchants, Route(s, r, m)
        PROVE  TypeOK'
    <3>1. [row[r] EXCEPT !.status = "assigned", !.assigned = m,
                         !.stamps = @ \cup {"assigned_at"}] \in Row
      BY <2>0 DEF Row, Status, OpenStatuses, Stamp
    <3> QED
      BY <2>8, <3>1, <2>0, SaveType, TrailType DEF Route, TypeOK
  <2>9. ASSUME NEW s \in Staff, NEW r \in Requests, Park(s, r) PROVE TypeOK'
    <3>1. [row[r] EXCEPT !.status = "pending"] \in Row
      BY <2>0 DEF Row, Status, OpenStatuses, AwaitingFinance
    <3> QED
      BY <2>9, <3>1, <2>0, SaveType, PostType DEF Park, TypeOK, ReasonMoves
  <2>10. ASSUME NEW s \in Staff, NEW r \in Requests, Credit(s, r) PROVE TypeOK'
    <3>1. [row[r] EXCEPT !.status = "credited"] \in Row
      BY <2>0 DEF Row, Status, OpenStatuses, AwaitingFinance
    <3>2. [trail EXCEPT ![r].booked = row[r].amount, ![r].seen = page[s].amount]
            \in [Requests -> Trail]
      <4>1. row[r].amount \in Amounts \cup {None} /\ page[s].amount \in Amounts \cup {None}
        BY <2>0 DEF TypeOK, Row, Page
      <4> QED
        BY <4>1 DEF TypeOK, Trail
    <3> QED
      BY <2>10, <3>1, <3>2, <2>0, SaveType DEF Credit, TypeOK
  <2>11. ASSUME NEW s \in Staff, NEW r \in Requests, Close(s, r) PROVE TypeOK'
    <3>1. [row[r] EXCEPT !.status = "closed", !.stamps = @ \cup {"closed_at"}] \in Row
      BY <2>0 DEF Row, Status, Terminal, Stamp
    <3> QED
      BY <2>11, <3>1, <2>0, SaveType DEF Close, TypeOK
  <2>12. ASSUME NEW s \in Staff, NEW r \in Requests, Cancel(s, r) PROVE TypeOK'
    <3>1. [row[r] EXCEPT !.status = "cancelled", !.stamps = @ \cup {"closed_at"},
                         !.rejection_reason = "cancel"] \in Row
      BY <2>0 DEF Row, Status, Terminal, Stamp
    <3> QED
      BY <2>12, <3>1, <2>0, SaveType, PostType DEF Cancel, TypeOK, ReasonMoves
  <2>13. ASSUME NEW m \in Merchants, NEW r \in Requests, Confirm(m, r) PROVE TypeOK'
    <3>1. [row[r] EXCEPT !.status = "merchant_confirmed",
                         !.stamps = @ \cup {"merchant_actioned_at"}] \in Row
      BY <2>0 DEF Row, Status, OpenStatuses, AwaitingFinance, Stamp
    <3> QED
      BY <2>13, <3>1, <2>0, SaveType, TrailType DEF Confirm, TypeOK
  <2>14. ASSUME NEW m \in Merchants, NEW r \in Requests, Pay(m, r) PROVE TypeOK'
    <3>1. [row[r] EXCEPT !.status = "merchant_paid",
                         !.stamps = @ \cup {"merchant_actioned_at"}] \in Row
      BY <2>0 DEF Row, Status, OpenStatuses, AwaitingFinance, Stamp
    <3>2. [trail EXCEPT ![r].acted = m, ![r].payers = @ \cup {m}]
            \in [Requests -> Trail]
      BY DEF TypeOK, Trail
    <3> QED
      BY <2>14, <3>1, <3>2, <2>0, SaveType DEF Pay, TypeOK
  <2>15. ASSUME NEW m \in Merchants, NEW r \in Requests, HandBack(m, r) PROVE TypeOK'
    <3>1. [row[r] EXCEPT !.status = "pending", !.assigned = None] \in Row
      BY <2>0 DEF Row, Status, OpenStatuses, AwaitingFinance
    <3> QED
      BY <2>15, <3>1, <2>0, SaveType, PostType DEF HandBack, TypeOK, ReasonMoves
  <2>16. ASSUME NEW m \in Merchants, EditMerchant(m) PROVE TypeOK'
    BY <2>16, LifecycleAssumption DEF EditMerchant, TypeOK, MerchantRecord
  <2>17. CASE UNCHANGED vars
    BY <2>17 DEF vars, TypeOK
  <2> QED
    BY <2>1, <2>2, <2>3, <2>4, <2>5, <2>6, <2>7, <2>8, <2>9, <2>10, <2>11, <2>12,
       <2>13, <2>14, <2>15, <2>16, <2>17
       DEF Next, Submission, FinanceMove, MerchantMove, EitherMove
<1> QED
  BY <1>1, <1>2, PTL DEF Spec
-----------------------------------------------------------------------------
(***************************************************************************)
(* What each move does to the request it locked, field by field, and that  *)
(* it touches no other.  Everything below rests on these effects alone.    *)
(***************************************************************************)
OthersKept(r) ==
  \A q \in Requests \ {r} :
    row'[q] = row[q] /\ trail'[q] = trail[q] /\ thread'[q] = thread[q]

Written(r, status, assigned, amount, stamps, reason) ==
  /\ row'[r].status = status
  /\ row'[r].assigned = assigned
  /\ row'[r].amount = amount
  /\ row'[r].stamps = stamps
  /\ row'[r].rejection_reason = reason
  /\ row'[r].type = row[r].type
  /\ row'[r].selected = row[r].selected
  /\ row'[r].submitted = row[r].submitted
  /\ OthersKept(r)

(* A draft chooses the type, the merchant and the amount, and nothing else.*)
LEMMA BuildDraftEffect ==
  ASSUME TypeOK, NEW r \in Requests, NEW type \in Directions, NEW m \in Merchants,
         NEW amt \in Amounts, BuildDraft(r, type, m, amt)
  PROVE  /\ row[r].status = "absent" /\ row'[r].status = "drafted"
         /\ row'[r].amount = amt
         /\ row'[r].assigned = row[r].assigned
         /\ row'[r].submitted = row[r].submitted
         /\ row'[r].stamps = row[r].stamps
         /\ row'[r].rejection_reason = row[r].rejection_reason
         /\ OthersKept(r) /\ UNCHANGED <<page, trail, thread>>
<1>1. row[r] \in Row
  BY DEF TypeOK
<1>2. row'[r] = [row[r] EXCEPT !.type = type, !.status = "drafted",
                              !.selected = m, !.amount = amt]
  BY DEF TypeOK, BuildDraft
<1>3. OthersKept(r)
  BY DEF TypeOK, BuildDraft, OthersKept
<1>4. /\ row'[r].status = "drafted" /\ row'[r].amount = amt
      /\ row'[r].assigned = row[r].assigned
      /\ row'[r].submitted = row[r].submitted /\ row'[r].stamps = row[r].stamps
      /\ row'[r].rejection_reason = row[r].rejection_reason
  BY <1>1, <1>2 DEF Row
<1> QED
  BY <1>3, <1>4 DEF BuildDraft

(* Submission records the first figure, and routes a deposit or queues it. *)
LEMMA CreateRequestEffect ==
  ASSUME TypeOK, NEW r \in Requests, CreateRequest(r)
  PROVE  /\ row[r].status = "drafted"
         /\ \/ /\ row'[r].status = "assigned" /\ row[r].type = "deposit"
               /\ row'[r].assigned = row[r].selected /\ row'[r].stamps = {"assigned_at"}
            \/ /\ row'[r].status = "submitted"
               /\ row'[r].assigned = row[r].assigned /\ row'[r].stamps = row[r].stamps
         /\ row'[r].type = row[r].type /\ row'[r].amount = row[r].amount
         /\ row'[r].submitted = row[r].amount /\ row'[r].selected = row[r].selected
         /\ row'[r].rejection_reason = row[r].rejection_reason
         /\ OthersKept(r) /\ UNCHANGED <<page, trail, thread>>
<1>1. row[r] \in Row
  BY DEF TypeOK
<1>2. OthersKept(r)
  BY DEF TypeOK, CreateRequest, OthersKept
<1>3. CASE AutoRouted(row[r])
  <2>1. row'[r] = [row[r] EXCEPT !.status = "assigned", !.assigned = row[r].selected,
                     !.submitted = row[r].amount, !.stamps = {"assigned_at"}]
    BY <1>3 DEF TypeOK, CreateRequest
  <2>2. /\ row'[r].status = "assigned" /\ row'[r].assigned = row[r].selected
        /\ row'[r].stamps = {"assigned_at"} /\ row'[r].type = row[r].type
        /\ row'[r].amount = row[r].amount /\ row'[r].submitted = row[r].amount
        /\ row'[r].selected = row[r].selected
        /\ row'[r].rejection_reason = row[r].rejection_reason
    BY <1>1, <2>1 DEF Row
  <2>3. row[r].status = "drafted" /\ row[r].type = "deposit"
    BY <1>3 DEF CreateRequest, AutoRouted
  <2> QED
    BY <1>2, <2>2, <2>3 DEF CreateRequest
<1>4. CASE ~AutoRouted(row[r])
  <2>1. row'[r] = [row[r] EXCEPT !.status = "submitted", !.submitted = row[r].amount]
    BY <1>4 DEF TypeOK, CreateRequest
  <2>2. /\ row'[r].status = "submitted" /\ row'[r].assigned = row[r].assigned
        /\ row'[r].stamps = row[r].stamps /\ row'[r].type = row[r].type
        /\ row'[r].amount = row[r].amount /\ row'[r].submitted = row[r].amount
        /\ row'[r].selected = row[r].selected
        /\ row'[r].rejection_reason = row[r].rejection_reason
    BY <1>1, <2>1 DEF Row
  <2> QED
    BY <1>2, <2>2 DEF CreateRequest
<1> QED
  BY <1>3, <1>4

(* A review moves the status alone.                                        *)
LEMMA ReviewEffect ==
  ASSUME TypeOK, NEW s \in Staff, NEW r \in Requests, Review(s, r)
  PROVE  /\ row[r].status = "submitted"
         /\ Written(r, "under_review", row[r].assigned, row[r].amount,
                    row[r].stamps, row[r].rejection_reason)
         /\ trail'[r].acted = trail[r].acted /\ trail'[r].booked = trail[r].booked
         /\ thread' = thread
<1>1. row[r] \in Row
  BY DEF TypeOK
<1>2. row'[r] = [row[r] EXCEPT !.status = "under_review"]
  BY DEF TypeOK, Review, Save
<1>3. OthersKept(r)
  BY DEF TypeOK, Review, Save, OthersKept
<1>4. /\ trail'[r].acted = trail[r].acted /\ trail'[r].booked = trail[r].booked
      /\ thread' = thread
  <2>1. /\ trail[r] \in Trail /\ thread' = thread
        /\ trail'[r] = [trail[r] EXCEPT !.reviewed = TRUE]
    BY DEF TypeOK, Review
  <2> QED
    BY <2>1 DEF Trail
<1>5. Written(r, "under_review", row[r].assigned, row[r].amount,
                    row[r].stamps, row[r].rejection_reason)
  BY <1>1, <1>2, <1>3 DEF Written, Row
<1> QED
  BY <1>4, <1>5 DEF Review, Gate

(* A route puts the request on a merchant, who has not acted on it yet.    *)
LEMMA RouteEffect ==
  ASSUME TypeOK, NEW s \in Staff, NEW r \in Requests, NEW m \in Merchants, Route(s,
         r, m)
  PROVE  /\ row[r].status \in {"under_review", "assigned", "pending"}
         /\ Written(r, "assigned", m, row[r].amount,
                    row[r].stamps \cup {"assigned_at"}, row[r].rejection_reason)
         /\ trail'[r].acted = None /\ trail'[r].booked = trail[r].booked
         /\ thread' = thread
<1>1. row[r] \in Row
  BY DEF TypeOK
<1>2. row'[r] = [row[r] EXCEPT !.status = "assigned",
                               !.assigned = m,
                               !.stamps = row[r].stamps \cup {"assigned_at"}]
  BY DEF TypeOK, Route, Save
<1>3. OthersKept(r)
  BY DEF TypeOK, Route, Save, OthersKept
<1>4. /\ trail'[r].acted = None /\ trail'[r].booked = trail[r].booked
      /\ thread' = thread
  <2>1. /\ trail[r] \in Trail /\ thread' = thread
        /\ trail'[r] = [trail[r] EXCEPT !.acted = None]
    BY DEF TypeOK, Route
  <2> QED
    BY <2>1 DEF Trail
<1>5. Written(r, "assigned", m, row[r].amount,
                    row[r].stamps \cup {"assigned_at"}, row[r].rejection_reason)
  BY <1>1, <1>2, <1>3 DEF Written, Row
<1> QED
  BY <1>4, <1>5 DEF Route, Gate

(* A park keeps the holder, and tells the desk why.                        *)
LEMMA ParkEffect ==
  ASSUME TypeOK, NEW s \in Staff, NEW r \in Requests, Park(s, r)
  PROVE  /\ row[r].status \in {"submitted", "under_review", "assigned",
                               "merchant_confirmed", "merchant_paid"}
         /\ Written(r, "pending", row[r].assigned, row[r].amount,
                    row[r].stamps, row[r].rejection_reason)
         /\ trail' = trail
         /\ thread'[r] = thread[r] \cup {<<"park", "desk">>}
<1>1. row[r] \in Row
  BY DEF TypeOK
<1>2. row'[r] = [row[r] EXCEPT !.status = "pending"]
  BY DEF TypeOK, Park, Save
<1>3. OthersKept(r)
  BY DEF TypeOK, Park, Save, Post, OthersKept
<1>4. /\ trail' = trail
      /\ thread'[r] = thread[r] \cup {<<"park", "desk">>}
  BY DEF TypeOK, Park, Post
<1>5. Written(r, "pending", row[r].assigned, row[r].amount,
                    row[r].stamps, row[r].rejection_reason)
  BY <1>1, <1>2, <1>3 DEF Written, Row
<1> QED
  BY <1>4, <1>5 DEF Park, Gate

(* A credit books the figure on the row.                                   *)
LEMMA CreditEffect ==
  ASSUME TypeOK, NEW s \in Staff, NEW r \in Requests, Credit(s, r)
  PROVE  /\ row[r].type = "deposit" /\ row[r].status = "merchant_confirmed"
         /\ Written(r, "credited", row[r].assigned, row[r].amount,
                    row[r].stamps, row[r].rejection_reason)
         /\ trail'[r].acted = trail[r].acted /\ trail'[r].booked = row[r].amount
         /\ thread' = thread
<1>1. row[r] \in Row
  BY DEF TypeOK
<1>2. row'[r] = [row[r] EXCEPT !.status = "credited"]
  BY DEF TypeOK, Credit, Save
<1>3. OthersKept(r)
  BY DEF TypeOK, Credit, Save, OthersKept
<1>4. /\ trail'[r].acted = trail[r].acted /\ trail'[r].booked = row[r].amount
      /\ thread' = thread
  <2>1. /\ trail[r] \in Trail /\ thread' = thread
        /\ trail'[r] = [trail[r] EXCEPT !.booked = row[r].amount,
                                  !.seen = page[s].amount]
    BY DEF TypeOK, Credit
  <2> QED
    BY <2>1 DEF Trail
<1>5. Written(r, "credited", row[r].assigned, row[r].amount,
                    row[r].stamps, row[r].rejection_reason)
  BY <1>1, <1>2, <1>3 DEF Written, Row
<1> QED
  BY <1>4, <1>5 DEF Credit, Gate

(* A close stamps the end of a request that was acted on.                  *)
LEMMA CloseEffect ==
  ASSUME TypeOK, NEW s \in Staff, NEW r \in Requests, Close(s, r)
  PROVE  /\ row[r].status \in {"credited", "merchant_paid"}
         /\ Written(r, "closed", row[r].assigned, row[r].amount,
                    row[r].stamps \cup {"closed_at"}, row[r].rejection_reason)
         /\ UNCHANGED <<trail, thread>>
<1>1. row[r] \in Row
  BY DEF TypeOK
<1>2. row'[r] = [row[r] EXCEPT !.status = "closed",
                               !.stamps = row[r].stamps \cup {"closed_at"}]
  BY DEF TypeOK, Close, Save
<1>3. OthersKept(r)
  BY DEF TypeOK, Close, Save, OthersKept
<1>4. /\ trail' = trail
      /\ thread' = thread
  BY DEF TypeOK, Close
<1>5. Written(r, "closed", row[r].assigned, row[r].amount,
                    row[r].stamps \cup {"closed_at"}, row[r].rejection_reason)
  BY <1>1, <1>2, <1>3 DEF Written, Row
<1> QED
  BY <1>4, <1>5 DEF Close, Gate

(* A cancellation stamps the end and tells the client why.                 *)
LEMMA CancelEffect ==
  ASSUME TypeOK, NEW s \in Staff, NEW r \in Requests, Cancel(s, r)
  PROVE  /\ row[r].status \in OpenStatuses
         /\ Written(r, "cancelled", row[r].assigned, row[r].amount,
                    row[r].stamps \cup {"closed_at"}, "cancel")
         /\ trail' = trail
         /\ thread'[r] = thread[r] \cup {<<"cancel", "client">>}
<1>1. row[r] \in Row
  BY DEF TypeOK
<1>2. row'[r] = [row[r] EXCEPT !.status = "cancelled",
                               !.stamps = row[r].stamps \cup {"closed_at"},
                               !.rejection_reason = "cancel"]
  BY DEF TypeOK, Cancel, Save
<1>3. OthersKept(r)
  BY DEF TypeOK, Cancel, Save, Post, OthersKept
<1>4. /\ trail' = trail
      /\ thread'[r] = thread[r] \cup {<<"cancel", "client">>}
  BY DEF TypeOK, Cancel, Post
<1>5. Written(r, "cancelled", row[r].assigned, row[r].amount,
                    row[r].stamps \cup {"closed_at"}, "cancel")
  BY <1>1, <1>2, <1>3 DEF Written, Row
<1> QED
  BY <1>4, <1>5 DEF Cancel, Gate

(* Only the holder of a deposit confirms it.                               *)
LEMMA ConfirmEffect ==
  ASSUME TypeOK, NEW m \in Merchants, NEW r \in Requests, Confirm(m, r)
  PROVE  /\ row[r].type = "deposit" /\ row[r].status = "assigned"
         /\ row[r].assigned = m
         /\ Written(r, "merchant_confirmed", row[r].assigned, row[r].amount,
                    row[r].stamps \cup {"merchant_actioned_at"},
                    row[r].rejection_reason)
         /\ trail'[r].acted = m /\ trail'[r].booked = trail[r].booked
         /\ thread' = thread
<1>1. row[r] \in Row
  BY DEF TypeOK
<1>2. row'[r] = [row[r] EXCEPT !.status = "merchant_confirmed",
                               !.stamps = row[r].stamps \cup {"merchant_actioned_at"}]
  BY DEF TypeOK, Confirm, Save
<1>3. OthersKept(r)
  BY DEF TypeOK, Confirm, Save, OthersKept
<1>4. /\ trail'[r].acted = m /\ trail'[r].booked = trail[r].booked
      /\ thread' = thread
  <2>1. /\ trail[r] \in Trail /\ thread' = thread
        /\ trail'[r] = [trail[r] EXCEPT !.acted = m]
    BY DEF TypeOK, Confirm
  <2> QED
    BY <2>1 DEF Trail
<1>5. Written(r, "merchant_confirmed", row[r].assigned, row[r].amount,
                    row[r].stamps \cup {"merchant_actioned_at"},
                    row[r].rejection_reason)
  BY <1>1, <1>2, <1>3 DEF Written, Row
<1> QED
  BY <1>4, <1>5 DEF Confirm, Gate

(* Only the holder of a withdrawal pays it.                                *)
LEMMA PayEffect ==
  ASSUME TypeOK, NEW m \in Merchants, NEW r \in Requests, Pay(m, r)
  PROVE  /\ row[r].type = "withdrawal" /\ row[r].status = "assigned"
         /\ row[r].assigned = m
         /\ Written(r, "merchant_paid", row[r].assigned, row[r].amount,
                    row[r].stamps \cup {"merchant_actioned_at"},
                    row[r].rejection_reason)
         /\ trail'[r].acted = m /\ trail'[r].booked = trail[r].booked
         /\ thread' = thread
<1>1. row[r] \in Row
  BY DEF TypeOK
<1>2. row'[r] = [row[r] EXCEPT !.status = "merchant_paid",
                               !.stamps = row[r].stamps \cup {"merchant_actioned_at"}]
  BY DEF TypeOK, Pay, Save
<1>3. OthersKept(r)
  BY DEF TypeOK, Pay, Save, OthersKept
<1>4. /\ trail'[r].acted = m /\ trail'[r].booked = trail[r].booked
      /\ thread' = thread
  <2>1. /\ trail[r] \in Trail /\ thread' = thread
        /\ trail'[r] = [trail[r] EXCEPT !.acted = m,
                                  !.payers = trail[r].payers \cup {m}]
    BY DEF TypeOK, Pay
  <2> QED
    BY <2>1 DEF Trail
<1>5. Written(r, "merchant_paid", row[r].assigned, row[r].amount,
                    row[r].stamps \cup {"merchant_actioned_at"},
                    row[r].rejection_reason)
  BY <1>1, <1>2, <1>3 DEF Written, Row
<1> QED
  BY <1>4, <1>5 DEF Pay, Gate

(* A merchant hands back only what it holds, and holds it no longer.       *)
LEMMA HandBackEffect ==
  ASSUME TypeOK, NEW m \in Merchants, NEW r \in Requests, HandBack(m, r)
  PROVE  /\ row[r].status = "assigned"
         /\ row[r].assigned = m
         /\ Written(r, "pending", None, row[r].amount,
                    row[r].stamps, row[r].rejection_reason)
         /\ trail' = trail
         /\ thread'[r] = thread[r] \cup {<<"hand_back", "desk">>}
<1>1. row[r] \in Row
  BY DEF TypeOK
<1>2. row'[r] = [row[r] EXCEPT !.status = "pending", !.assigned = None]
  BY DEF TypeOK, HandBack, Save
<1>3. OthersKept(r)
  BY DEF TypeOK, HandBack, Save, Post, OthersKept
<1>4. /\ trail' = trail
      /\ thread'[r] = thread[r] \cup {<<"hand_back", "desk">>}
  BY DEF TypeOK, HandBack, Post
<1>5. Written(r, "pending", None, row[r].amount,
                    row[r].stamps, row[r].rejection_reason)
  BY <1>1, <1>2, <1>3 DEF Written, Row
<1> QED
  BY <1>4, <1>5 DEF HandBack, Gate

(* A rejection stamps the end and tells the client why.                    *)
LEMMA RejectEffect ==
  ASSUME TypeOK, NEW a \in Actors, NEW r \in Requests, Reject(a, r)
  PROVE  /\ row[r].status \in OpenStatuses
         /\ a \in Merchants => row[r].assigned = a
         /\ Written(r, "rejected", row[r].assigned, row[r].amount,
                    row[r].stamps \cup {"closed_at"}, "reject")
         /\ trail' = trail
         /\ thread'[r] = thread[r] \cup {<<"reject", "client">>}
<1>1. row[r] \in Row
  BY DEF TypeOK
<1>2. row'[r] = [row[r] EXCEPT !.status = "rejected",
                               !.stamps = row[r].stamps \cup {"closed_at"},
                               !.rejection_reason = "reject"]
  BY DEF TypeOK, Reject, Save
<1>3. OthersKept(r)
  BY DEF TypeOK, Reject, Save, Post, OthersKept
<1>4. /\ trail' = trail
      /\ thread'[r] = thread[r] \cup {<<"reject", "client">>}
  BY DEF TypeOK, Reject, Post
<1>5. Written(r, "rejected", row[r].assigned, row[r].amount,
                    row[r].stamps \cup {"closed_at"}, "reject")
  BY <1>1, <1>2, <1>3 DEF Written, Row
<1> QED
  BY <1>4, <1>5 DEF Reject, Gate

(* A correction changes the amount of a request not credited yet.          *)
LEMMA CorrectAmountEffect ==
  ASSUME TypeOK, NEW a \in Actors, NEW r \in Requests, NEW amt \in Amounts,
         CorrectAmount(a, r, amt)
  PROVE  /\ row[r].status \in AmountEditable
         /\ a \in Merchants => row[r].assigned = a
         /\ Written(r, row[r].status, row[r].assigned, amt,
                    row[r].stamps, row[r].rejection_reason)
         /\ UNCHANGED <<trail, thread>>
<1>1. row[r] \in Row
  BY DEF TypeOK
<1>2. row'[r] = [row[r] EXCEPT !.amount = amt]
  BY DEF TypeOK, CorrectAmount, Save
<1>3. OthersKept(r)
  BY DEF TypeOK, CorrectAmount, Save, OthersKept
<1>4. /\ trail' = trail
      /\ thread' = thread
  BY DEF TypeOK, CorrectAmount
<1>5. Written(r, row[r].status, row[r].assigned, amt,
                    row[r].stamps, row[r].rejection_reason)
  BY <1>1, <1>2, <1>3 DEF Written, Row
<1> QED
  BY <1>4, <1>5 DEF CorrectAmount, Gate

-----------------------------------------------------------------------------
(***************************************************************************)
(* The inductive invariant, one request at a time: the four invariants of  *)
(* Lifecycle, and DraftSound, which they do not need but the refinement    *)
(* does: an unsubmitted request has no first figure and no holder, and a   *)
(* draft has an amount.                                                    *)
(***************************************************************************)
DirectionSound(r) ==
  /\ row[r].status \in {"merchant_confirmed", "credited"} => row[r].type = "deposit"
  /\ row[r].status = "merchant_paid" => row[r].type = "withdrawal"

ActedSound(r) ==
  row[r].status \in {"merchant_confirmed", "merchant_paid", "credited", "closed"}
    => row[r].assigned # None /\ trail[r].acted = row[r].assigned

BookedSound(r) ==
  trail[r].booked # None
    => row[r].status \in {"credited"} \cup Terminal /\ row[r].amount = trail[r].booked

EndSound(r) ==
  /\ "closed_at" \in row[r].stamps <=> row[r].status \in Terminal
  /\ row[r].rejection_reason = IF row[r].status = "rejected" THEN "reject"
                               ELSE IF row[r].status = "cancelled" THEN "cancel"
                               ELSE ""

ThreadSound(r) ==
  /\ row[r].status = "rejected" <=> <<"reject", "client">> \in thread[r]
  /\ row[r].status = "cancelled" <=> <<"cancel", "client">> \in thread[r]
  /\ {<<"hand_back", "client">>, <<"park", "client">>} \cap thread[r] = {}

DraftSound(r) ==
  /\ row[r].status \in Unsubmitted => row[r].submitted = None /\ row[r].assigned = None
  /\ row[r].status = "drafted" => row[r].amount \in Amounts

Sound(r) ==
  /\ DraftSound(r)
  /\ DirectionSound(r)
  /\ ActedSound(r)
  /\ BookedSound(r)
  /\ EndSound(r)
  /\ ThreadSound(r)

(* Per-request soundness is the four invariants of Lifecycle.              *)
LEMMA SoundIsTheInvariants ==
  (\A r \in Requests : Sound(r))
    => StatusFitsDirection /\ CreditedOnConfirmation /\ BookedFigureFrozen /\ EndIsExplained
BY DEF Sound, DraftSound, DirectionSound, ActedSound, BookedSound, EndSound,
       ThreadSound,
       StatusFitsDirection, CreditedOnConfirmation, BookedFigureFrozen, EndIsExplained

(* A step that touches one request need only keep that one sound.          *)
LEMMA OthersStaySound ==
  ASSUME NEW r \in Requests, \A q \in Requests : Sound(q), OthersKept(r), Sound(r)'
  PROVE  \A q \in Requests : Sound(q)'
<1>1. ASSUME NEW q \in Requests \ {r} PROVE Sound(q)'
  <2>1. Sound(q) /\ row'[q] = row[q] /\ trail'[q] = trail[q] /\ thread'[q] = thread[q]
    BY <1>1 DEF OthersKept
  <2> QED
    BY <2>1 DEF Sound, DraftSound, DirectionSound, ActedSound, BookedSound, EndSound,
       ThreadSound
<1> QED
  BY <1>1

(* Two thread entries are equal only in both their parts.                  *)
LEMMA ReasonsDiffer ==
  ASSUME NEW x, NEW y, NEW u, NEW v
  PROVE  <<x, u>> = <<y, v>> <=> x = y /\ u = v
OBVIOUS

(* The inductive invariant holds of every request in every behaviour.      *)
THEOREM SoundAlways == Spec => [](\A r \in Requests : Sound(r))
<1>1. Init => \A r \in Requests : Sound(r)
  <2> SUFFICES ASSUME Init, NEW r \in Requests PROVE Sound(r)
    OBVIOUS
  <2>1. /\ row[r].status = "absent" /\ row[r].stamps = {} /\ row[r].rejection_reason = ""
        /\ trail[r].booked = None /\ thread[r] = {}
        /\ row[r].submitted = None /\ row[r].assigned = None
    BY DEF Init
  <2> QED
    BY <2>1 DEF Sound, DraftSound, DirectionSound, ActedSound, BookedSound, EndSound,
       ThreadSound, Terminal
<1>2. TypeOK /\ (\A r \in Requests : Sound(r)) /\ [Next]_vars => (\A r \in Requests : Sound(r))'
  <2>a. SUFFICES ASSUME TypeOK, \A r \in Requests : Sound(r), [Next]_vars
               PROVE  \A r \in Requests : Sound(r)'
    OBVIOUS
  <2>b. TypeOK
    BY <2>a
  <2>1. ASSUME NEW r \in Requests, NEW type \in Directions,
               NEW m \in Merchants, NEW amt \in Amounts, BuildDraft(r, type, m, amt)
        PROVE  \A q \in Requests : Sound(q)'
    <3>a. /\ DraftSound(r) /\ DirectionSound(r) /\ ActedSound(r)
          /\ BookedSound(r) /\ EndSound(r) /\ ThreadSound(r)
      BY <2>a, <2>1 DEF Sound
    <3>1. DirectionSound(r)'
      BY <2>b, <3>a, <2>1, BuildDraftEffect DEF DirectionSound
    <3>2. ActedSound(r)'
      BY <2>b, <3>a, <2>1, BuildDraftEffect DEF ActedSound
    <3>3. BookedSound(r)'
      BY <2>b, <3>a, <2>1, BuildDraftEffect
         DEF BookedSound, Terminal, OpenStatuses, AwaitingFinance
    <3>4. EndSound(r)'
      BY <2>b, <3>a, <2>1, BuildDraftEffect
         DEF EndSound, Terminal, OpenStatuses, AwaitingFinance
    <3>5. ThreadSound(r)'
      BY <2>b, <3>a, <2>1, BuildDraftEffect, ReasonsDiffer
         DEF ThreadSound, OpenStatuses, AwaitingFinance
    <3>6. DraftSound(r)'
      BY <2>b, <3>a, <2>1, BuildDraftEffect
         DEF DraftSound, Unsubmitted, OpenStatuses, AwaitingFinance
    <3>7. OthersKept(r)
      BY <2>b, <2>1, BuildDraftEffect
    <3> QED
      BY <2>a, <2>1, <3>1, <3>2, <3>3, <3>4, <3>5, <3>6, <3>7, OthersStaySound DEF Sound
  <2>2. ASSUME NEW r \in Requests, CreateRequest(r)
        PROVE  \A q \in Requests : Sound(q)'
    <3>a. /\ DraftSound(r) /\ DirectionSound(r) /\ ActedSound(r)
          /\ BookedSound(r) /\ EndSound(r) /\ ThreadSound(r)
      BY <2>a, <2>2 DEF Sound
    <3>1. DirectionSound(r)'
      BY <2>b, <3>a, <2>2, CreateRequestEffect DEF DirectionSound
    <3>2. ActedSound(r)'
      BY <2>b, <3>a, <2>2, CreateRequestEffect DEF ActedSound
    <3>3. BookedSound(r)'
      BY <2>b, <3>a, <2>2, CreateRequestEffect
         DEF BookedSound, Terminal, OpenStatuses, AwaitingFinance
    <3>4. EndSound(r)'
      <4>1. row[r].status \notin Terminal /\ row'[r].status \notin Terminal
        BY <2>b, <2>2, CreateRequestEffect DEF Terminal, OpenStatuses, AwaitingFinance
      <4>2. /\ "closed_at" \in row'[r].stamps => "closed_at" \in row[r].stamps
            /\ row'[r].rejection_reason = row[r].rejection_reason
        BY <2>b, <2>2, CreateRequestEffect
      <4> QED
        BY <3>a, <4>1, <4>2 DEF EndSound, Terminal
    <3>5. ThreadSound(r)'
      BY <2>b, <3>a, <2>2, CreateRequestEffect, ReasonsDiffer
         DEF ThreadSound, OpenStatuses, AwaitingFinance
    <3>6. DraftSound(r)'
      BY <2>b, <3>a, <2>2, CreateRequestEffect
         DEF DraftSound, Unsubmitted, OpenStatuses, AwaitingFinance
    <3>7. OthersKept(r)
      BY <2>b, <2>2, CreateRequestEffect
    <3> QED
      BY <2>a, <2>2, <3>1, <3>2, <3>3, <3>4, <3>5, <3>6, <3>7, OthersStaySound DEF Sound
  <2>3. ASSUME NEW s \in Staff, NEW r \in Requests, Review(s, r)
        PROVE  \A q \in Requests : Sound(q)'
    <3>a. /\ DraftSound(r) /\ DirectionSound(r) /\ ActedSound(r)
          /\ BookedSound(r) /\ EndSound(r) /\ ThreadSound(r)
      BY <2>a, <2>3 DEF Sound
    <3>1. DirectionSound(r)'
      BY <2>b, <3>a, <2>3, ReviewEffect DEF DirectionSound, Written
    <3>2. ActedSound(r)'
      BY <2>b, <3>a, <2>3, ReviewEffect DEF ActedSound, Written
    <3>3. BookedSound(r)'
      BY <2>b, <3>a, <2>3, ReviewEffect
         DEF BookedSound, Written, Terminal, OpenStatuses, AwaitingFinance
    <3>4. EndSound(r)'
      BY <2>b, <3>a, <2>3, ReviewEffect
         DEF EndSound, Written, Terminal, OpenStatuses, AwaitingFinance
    <3>5. ThreadSound(r)'
      BY <2>b, <3>a, <2>3, ReviewEffect, ReasonsDiffer
         DEF ThreadSound, Written, OpenStatuses, AwaitingFinance
    <3>6. DraftSound(r)'
      BY <2>b, <3>a, <2>3, ReviewEffect
         DEF DraftSound, Written, Unsubmitted, OpenStatuses, AwaitingFinance
    <3>7. OthersKept(r)
      BY <2>b, <2>3, ReviewEffect DEF Written
    <3> QED
      BY <2>a, <2>3, <3>1, <3>2, <3>3, <3>4, <3>5, <3>6, <3>7, OthersStaySound DEF Sound
  <2>4. ASSUME NEW s \in Staff, NEW r \in Requests, NEW m \in Merchants, Route(s, r, m)
        PROVE  \A q \in Requests : Sound(q)'
    <3>a. /\ DraftSound(r) /\ DirectionSound(r) /\ ActedSound(r)
          /\ BookedSound(r) /\ EndSound(r) /\ ThreadSound(r)
      BY <2>a, <2>4 DEF Sound
    <3>1. DirectionSound(r)'
      BY <2>b, <3>a, <2>4, RouteEffect DEF DirectionSound, Written
    <3>2. ActedSound(r)'
      BY <2>b, <3>a, <2>4, RouteEffect DEF ActedSound, Written
    <3>3. BookedSound(r)'
      BY <2>b, <3>a, <2>4, RouteEffect
         DEF BookedSound, Written, Terminal, OpenStatuses, AwaitingFinance
    <3>4. EndSound(r)'
      <4>1. row[r].status \notin Terminal /\ row'[r].status \notin Terminal
        BY <2>b, <2>4, RouteEffect DEF Terminal, Written, OpenStatuses, AwaitingFinance
      <4>2. /\ "closed_at" \in row'[r].stamps => "closed_at" \in row[r].stamps
            /\ row'[r].rejection_reason = row[r].rejection_reason
        BY <2>b, <2>4, RouteEffect DEF Written
      <4> QED
        BY <3>a, <4>1, <4>2 DEF EndSound, Terminal
    <3>5. ThreadSound(r)'
      BY <2>b, <3>a, <2>4, RouteEffect, ReasonsDiffer
         DEF ThreadSound, Written, OpenStatuses, AwaitingFinance
    <3>6. DraftSound(r)'
      BY <2>b, <3>a, <2>4, RouteEffect
         DEF DraftSound, Written, Unsubmitted, OpenStatuses, AwaitingFinance
    <3>7. OthersKept(r)
      BY <2>b, <2>4, RouteEffect DEF Written
    <3> QED
      BY <2>a, <2>4, <3>1, <3>2, <3>3, <3>4, <3>5, <3>6, <3>7, OthersStaySound DEF Sound
  <2>5. ASSUME NEW s \in Staff, NEW r \in Requests, Park(s, r)
        PROVE  \A q \in Requests : Sound(q)'
    <3>a. /\ DraftSound(r) /\ DirectionSound(r) /\ ActedSound(r)
          /\ BookedSound(r) /\ EndSound(r) /\ ThreadSound(r)
      BY <2>a, <2>5 DEF Sound
    <3>1. DirectionSound(r)'
      BY <2>b, <3>a, <2>5, ParkEffect DEF DirectionSound, Written
    <3>2. ActedSound(r)'
      BY <2>b, <3>a, <2>5, ParkEffect DEF ActedSound, Written
    <3>3. BookedSound(r)'
      BY <2>b, <3>a, <2>5, ParkEffect
         DEF BookedSound, Written, Terminal, OpenStatuses, AwaitingFinance
    <3>4. EndSound(r)'
      BY <2>b, <3>a, <2>5, ParkEffect
         DEF EndSound, Written, Terminal, OpenStatuses, AwaitingFinance
    <3>5. ThreadSound(r)'
      BY <2>b, <3>a, <2>5, ParkEffect, ReasonsDiffer
         DEF ThreadSound, Written, OpenStatuses, AwaitingFinance
    <3>6. DraftSound(r)'
      BY <2>b, <3>a, <2>5, ParkEffect
         DEF DraftSound, Written, Unsubmitted, OpenStatuses, AwaitingFinance
    <3>7. OthersKept(r)
      BY <2>b, <2>5, ParkEffect DEF Written
    <3> QED
      BY <2>a, <2>5, <3>1, <3>2, <3>3, <3>4, <3>5, <3>6, <3>7, OthersStaySound DEF Sound
  <2>6. ASSUME NEW s \in Staff, NEW r \in Requests, Credit(s, r)
        PROVE  \A q \in Requests : Sound(q)'
    <3>a. /\ DraftSound(r) /\ DirectionSound(r) /\ ActedSound(r)
          /\ BookedSound(r) /\ EndSound(r) /\ ThreadSound(r)
      BY <2>a, <2>6 DEF Sound
    <3>1. DirectionSound(r)'
      BY <2>b, <3>a, <2>6, CreditEffect DEF DirectionSound, Written
    <3>2. ActedSound(r)'
      BY <2>b, <3>a, <2>6, CreditEffect DEF ActedSound, Written
    <3>3. BookedSound(r)'
      BY <2>b, <3>a, <2>6, CreditEffect
         DEF BookedSound, Written, Terminal, OpenStatuses, AwaitingFinance
    <3>4. EndSound(r)'
      BY <2>b, <3>a, <2>6, CreditEffect
         DEF EndSound, Written, Terminal, OpenStatuses, AwaitingFinance
    <3>5. ThreadSound(r)'
      BY <2>b, <3>a, <2>6, CreditEffect, ReasonsDiffer
         DEF ThreadSound, Written, OpenStatuses, AwaitingFinance
    <3>6. DraftSound(r)'
      BY <2>b, <3>a, <2>6, CreditEffect
         DEF DraftSound, Written, Unsubmitted, OpenStatuses, AwaitingFinance
    <3>7. OthersKept(r)
      BY <2>b, <2>6, CreditEffect DEF Written
    <3> QED
      BY <2>a, <2>6, <3>1, <3>2, <3>3, <3>4, <3>5, <3>6, <3>7, OthersStaySound DEF Sound
  <2>7. ASSUME NEW s \in Staff, NEW r \in Requests, Close(s, r)
        PROVE  \A q \in Requests : Sound(q)'
    <3>a. /\ DraftSound(r) /\ DirectionSound(r) /\ ActedSound(r)
          /\ BookedSound(r) /\ EndSound(r) /\ ThreadSound(r)
      BY <2>a, <2>7 DEF Sound
    <3>1. DirectionSound(r)'
      BY <2>b, <3>a, <2>7, CloseEffect DEF DirectionSound, Written
    <3>2. ActedSound(r)'
      BY <2>b, <3>a, <2>7, CloseEffect DEF ActedSound, Written
    <3>3. BookedSound(r)'
      BY <2>b, <3>a, <2>7, CloseEffect
         DEF BookedSound, Written, Terminal, OpenStatuses, AwaitingFinance
    <3>4. EndSound(r)'
      BY <2>b, <3>a, <2>7, CloseEffect
         DEF EndSound, Written, Terminal, OpenStatuses, AwaitingFinance
    <3>5. ThreadSound(r)'
      BY <2>b, <3>a, <2>7, CloseEffect, ReasonsDiffer
         DEF ThreadSound, Written, OpenStatuses, AwaitingFinance
    <3>6. DraftSound(r)'
      BY <2>b, <3>a, <2>7, CloseEffect
         DEF DraftSound, Written, Unsubmitted, OpenStatuses, AwaitingFinance
    <3>7. OthersKept(r)
      BY <2>b, <2>7, CloseEffect DEF Written
    <3> QED
      BY <2>a, <2>7, <3>1, <3>2, <3>3, <3>4, <3>5, <3>6, <3>7, OthersStaySound DEF Sound
  <2>8. ASSUME NEW s \in Staff, NEW r \in Requests, Cancel(s, r)
        PROVE  \A q \in Requests : Sound(q)'
    <3>a. /\ DraftSound(r) /\ DirectionSound(r) /\ ActedSound(r)
          /\ BookedSound(r) /\ EndSound(r) /\ ThreadSound(r)
      BY <2>a, <2>8 DEF Sound
    <3>1. DirectionSound(r)'
      BY <2>b, <3>a, <2>8, CancelEffect DEF DirectionSound, Written
    <3>2. ActedSound(r)'
      BY <2>b, <3>a, <2>8, CancelEffect DEF ActedSound, Written
    <3>3. BookedSound(r)'
      BY <2>b, <3>a, <2>8, CancelEffect
         DEF BookedSound, Written, Terminal, OpenStatuses, AwaitingFinance
    <3>4. EndSound(r)'
      BY <2>b, <3>a, <2>8, CancelEffect
         DEF EndSound, Written, Terminal, OpenStatuses, AwaitingFinance
    <3>5. ThreadSound(r)'
      BY <2>b, <3>a, <2>8, CancelEffect, ReasonsDiffer
         DEF ThreadSound, Written, OpenStatuses, AwaitingFinance
    <3>6. DraftSound(r)'
      BY <2>b, <3>a, <2>8, CancelEffect
         DEF DraftSound, Written, Unsubmitted, OpenStatuses, AwaitingFinance
    <3>7. OthersKept(r)
      BY <2>b, <2>8, CancelEffect DEF Written
    <3> QED
      BY <2>a, <2>8, <3>1, <3>2, <3>3, <3>4, <3>5, <3>6, <3>7, OthersStaySound DEF Sound
  <2>9. ASSUME NEW m \in Merchants, NEW r \in Requests, Confirm(m, r)
        PROVE  \A q \in Requests : Sound(q)'
    <3>a. /\ DraftSound(r) /\ DirectionSound(r) /\ ActedSound(r)
          /\ BookedSound(r) /\ EndSound(r) /\ ThreadSound(r)
      BY <2>a, <2>9 DEF Sound
    <3>1. DirectionSound(r)'
      BY <2>b, <3>a, <2>9, ConfirmEffect DEF DirectionSound, Written
    <3>2. ActedSound(r)'
      BY <2>b, <3>a, <2>9, ConfirmEffect, LifecycleAssumption DEF ActedSound, Written
    <3>3. BookedSound(r)'
      BY <2>b, <3>a, <2>9, ConfirmEffect
         DEF BookedSound, Written, Terminal, OpenStatuses, AwaitingFinance
    <3>4. EndSound(r)'
      <4>1. row[r].status \notin Terminal /\ row'[r].status \notin Terminal
        BY <2>b, <2>9, ConfirmEffect
           DEF Terminal, Written, OpenStatuses, AwaitingFinance
      <4>2. /\ "closed_at" \in row'[r].stamps => "closed_at" \in row[r].stamps
            /\ row'[r].rejection_reason = row[r].rejection_reason
        BY <2>b, <2>9, ConfirmEffect DEF Written
      <4> QED
        BY <3>a, <4>1, <4>2 DEF EndSound, Terminal
    <3>5. ThreadSound(r)'
      BY <2>b, <3>a, <2>9, ConfirmEffect, ReasonsDiffer
         DEF ThreadSound, Written, OpenStatuses, AwaitingFinance
    <3>6. DraftSound(r)'
      BY <2>b, <3>a, <2>9, ConfirmEffect
         DEF DraftSound, Written, Unsubmitted, OpenStatuses, AwaitingFinance
    <3>7. OthersKept(r)
      BY <2>b, <2>9, ConfirmEffect DEF Written
    <3> QED
      BY <2>a, <2>9, <3>1, <3>2, <3>3, <3>4, <3>5, <3>6, <3>7, OthersStaySound DEF Sound
  <2>10. ASSUME NEW m \in Merchants, NEW r \in Requests, Pay(m, r)
        PROVE  \A q \in Requests : Sound(q)'
    <3>a. /\ DraftSound(r) /\ DirectionSound(r) /\ ActedSound(r)
          /\ BookedSound(r) /\ EndSound(r) /\ ThreadSound(r)
      BY <2>a, <2>10 DEF Sound
    <3>1. DirectionSound(r)'
      BY <2>b, <3>a, <2>10, PayEffect DEF DirectionSound, Written
    <3>2. ActedSound(r)'
      BY <2>b, <3>a, <2>10, PayEffect, LifecycleAssumption DEF ActedSound, Written
    <3>3. BookedSound(r)'
      BY <2>b, <3>a, <2>10, PayEffect
         DEF BookedSound, Written, Terminal, OpenStatuses, AwaitingFinance
    <3>4. EndSound(r)'
      <4>1. row[r].status \notin Terminal /\ row'[r].status \notin Terminal
        BY <2>b, <2>10, PayEffect DEF Terminal, Written, OpenStatuses, AwaitingFinance
      <4>2. /\ "closed_at" \in row'[r].stamps => "closed_at" \in row[r].stamps
            /\ row'[r].rejection_reason = row[r].rejection_reason
        BY <2>b, <2>10, PayEffect DEF Written
      <4> QED
        BY <3>a, <4>1, <4>2 DEF EndSound, Terminal
    <3>5. ThreadSound(r)'
      BY <2>b, <3>a, <2>10, PayEffect, ReasonsDiffer
         DEF ThreadSound, Written, OpenStatuses, AwaitingFinance
    <3>6. DraftSound(r)'
      BY <2>b, <3>a, <2>10, PayEffect
         DEF DraftSound, Written, Unsubmitted, OpenStatuses, AwaitingFinance
    <3>7. OthersKept(r)
      BY <2>b, <2>10, PayEffect DEF Written
    <3> QED
      BY <2>a, <2>10, <3>1, <3>2, <3>3, <3>4, <3>5, <3>6, <3>7, OthersStaySound
         DEF Sound
  <2>11. ASSUME NEW m \in Merchants, NEW r \in Requests, HandBack(m, r)
        PROVE  \A q \in Requests : Sound(q)'
    <3>a. /\ DraftSound(r) /\ DirectionSound(r) /\ ActedSound(r)
          /\ BookedSound(r) /\ EndSound(r) /\ ThreadSound(r)
      BY <2>a, <2>11 DEF Sound
    <3>1. DirectionSound(r)'
      BY <2>b, <3>a, <2>11, HandBackEffect DEF DirectionSound, Written
    <3>2. ActedSound(r)'
      BY <2>b, <3>a, <2>11, HandBackEffect DEF ActedSound, Written
    <3>3. BookedSound(r)'
      BY <2>b, <3>a, <2>11, HandBackEffect
         DEF BookedSound, Written, Terminal, OpenStatuses, AwaitingFinance
    <3>4. EndSound(r)'
      BY <2>b, <3>a, <2>11, HandBackEffect
         DEF EndSound, Written, Terminal, OpenStatuses, AwaitingFinance
    <3>5. ThreadSound(r)'
      BY <2>b, <3>a, <2>11, HandBackEffect, ReasonsDiffer
         DEF ThreadSound, Written, OpenStatuses, AwaitingFinance
    <3>6. DraftSound(r)'
      BY <2>b, <3>a, <2>11, HandBackEffect
         DEF DraftSound, Written, Unsubmitted, OpenStatuses, AwaitingFinance
    <3>7. OthersKept(r)
      BY <2>b, <2>11, HandBackEffect DEF Written
    <3> QED
      BY <2>a, <2>11, <3>1, <3>2, <3>3, <3>4, <3>5, <3>6, <3>7, OthersStaySound
         DEF Sound
  <2>12. ASSUME NEW a \in Actors, NEW r \in Requests, Reject(a, r)
        PROVE  \A q \in Requests : Sound(q)'
    <3>a. /\ DraftSound(r) /\ DirectionSound(r) /\ ActedSound(r)
          /\ BookedSound(r) /\ EndSound(r) /\ ThreadSound(r)
      BY <2>a, <2>12 DEF Sound
    <3>1. DirectionSound(r)'
      BY <2>b, <3>a, <2>12, RejectEffect DEF DirectionSound, Written
    <3>2. ActedSound(r)'
      BY <2>b, <3>a, <2>12, RejectEffect DEF ActedSound, Written
    <3>3. BookedSound(r)'
      BY <2>b, <3>a, <2>12, RejectEffect
         DEF BookedSound, Written, Terminal, OpenStatuses, AwaitingFinance
    <3>4. EndSound(r)'
      BY <2>b, <3>a, <2>12, RejectEffect
         DEF EndSound, Written, Terminal, OpenStatuses, AwaitingFinance
    <3>5. ThreadSound(r)'
      BY <2>b, <3>a, <2>12, RejectEffect, ReasonsDiffer
         DEF ThreadSound, Written, OpenStatuses, AwaitingFinance
    <3>6. DraftSound(r)'
      BY <2>b, <3>a, <2>12, RejectEffect
         DEF DraftSound, Written, Unsubmitted, OpenStatuses, AwaitingFinance
    <3>7. OthersKept(r)
      BY <2>b, <2>12, RejectEffect DEF Written
    <3> QED
      BY <2>a, <2>12, <3>1, <3>2, <3>3, <3>4, <3>5, <3>6, <3>7, OthersStaySound
         DEF Sound
  <2>13. ASSUME NEW a \in Actors, NEW r \in Requests, NEW amt \in Amounts,
                CorrectAmount(a, r, amt)
        PROVE  \A q \in Requests : Sound(q)'
    <3>a. /\ DraftSound(r) /\ DirectionSound(r) /\ ActedSound(r)
          /\ BookedSound(r) /\ EndSound(r) /\ ThreadSound(r)
      BY <2>a, <2>13 DEF Sound
    <3>1. DirectionSound(r)'
      BY <2>b, <3>a, <2>13, CorrectAmountEffect
         DEF DirectionSound, Written, AmountEditable
    <3>2. ActedSound(r)'
      BY <2>b, <3>a, <2>13, CorrectAmountEffect DEF ActedSound, Written
    <3>3. BookedSound(r)'
      BY <2>b, <3>a, <2>13, CorrectAmountEffect
         DEF BookedSound, Written, Terminal, OpenStatuses, AwaitingFinance,
             AmountEditable
    <3>4. EndSound(r)'
      BY <2>b, <3>a, <2>13, CorrectAmountEffect
         DEF EndSound, Written, Terminal, OpenStatuses, AwaitingFinance,
             AmountEditable
    <3>5. ThreadSound(r)'
      BY <2>b, <3>a, <2>13, CorrectAmountEffect, ReasonsDiffer
         DEF ThreadSound, Written, OpenStatuses, AwaitingFinance, AmountEditable
    <3>6. DraftSound(r)'
      BY <2>b, <3>a, <2>13, CorrectAmountEffect
         DEF DraftSound, Written, Unsubmitted, OpenStatuses, AwaitingFinance,
             AmountEditable
    <3>7. OthersKept(r)
      BY <2>b, <2>13, CorrectAmountEffect DEF Written
    <3> QED
      BY <2>a, <2>13, <3>1, <3>2, <3>3, <3>4, <3>5, <3>6, <3>7, OthersStaySound
         DEF Sound
  <2>14. CASE UNCHANGED <<row, thread, trail>>
    BY <2>a, <2>14
       DEF Sound, DraftSound, DirectionSound, ActedSound, BookedSound, EndSound,
       ThreadSound
  <2> QED
    BY <2>a, <2>1, <2>2, <2>3, <2>4, <2>5, <2>6, <2>7, <2>8, <2>9, <2>10, <2>11,
       <2>12, <2>13, <2>14
       DEF Next, vars, Submission, FinanceMove, MerchantMove, EitherMove, Open, Leave,
           EditMerchant
<1> QED
  BY <1>1, <1>2, TypeCorrect, PTL DEF Spec


(* A request never holds a status of the other direction.                  *)
THEOREM DirectionsKeptApart == Spec => []StatusFitsDirection
BY SoundAlways, SoundIsTheInvariants, PTL

(* Whatever is credited or closed was confirmed by its present holder.     *)
THEOREM CreditNeedsConfirmation == Spec => []CreditedOnConfirmation
BY SoundAlways, SoundIsTheInvariants, PTL

(* The figure booked in B2CORE stays the figure on the row.                *)
THEOREM BookedFigureStays == Spec => []BookedFigureFrozen
BY SoundAlways, SoundIsTheInvariants, PTL

(* An ended request is stamped and explained, and nothing else is.         *)
THEOREM EndsAreExplained == Spec => []EndIsExplained
BY SoundAlways, SoundIsTheInvariants, PTL

-----------------------------------------------------------------------------
(***************************************************************************)
(* The action properties.  A request changes either as a draft, or by the  *)
(* move of one actor, whose page it leaves behind.                         *)
(***************************************************************************)
Drafting(q) ==
  /\ row[q].status \in Unsubmitted
  /\ page' = page
  /\ row'[q].type = "deposit" \/ row'[q].assigned = row[q].assigned

MovedBy(a, q) ==
  /\ page[a].req = q
  /\ page' = [page EXCEPT ![a] = NoPage]
  /\ a \in Merchants => row[q].assigned = a
  /\ row[q].status \in OpenStatuses
  /\ row'[q].type = row[q].type
  /\ row'[q].selected = row[q].selected
  /\ row'[q].submitted = row[q].submitted
  /\ row'[q].assigned \in {None, row[q].assigned} \/ a \in Staff

(* A request changes by being drafted, or by one actor's own POST.         *)
LEMMA OneActorAtATime ==
  ASSUME TypeOK, [Next]_vars, NEW q \in Requests
  PROVE  row'[q] = row[q] \/ Drafting(q) \/ \E a \in Actors : MovedBy(a, q)
<1> SUFFICES ASSUME row'[q] # row[q]
             PROVE Drafting(q) \/ \E a \in Actors : MovedBy(a, q)
  OBVIOUS
<1>0. /\ \A s \in Staff : s \in Actors
      /\ \A m \in Merchants : m \in Actors
  BY DEF Actors
<1>1. ASSUME NEW r \in Requests, NEW type \in Directions,
             NEW m \in Merchants, NEW amt \in Amounts, BuildDraft(r, type, m, amt)
      PROVE  Drafting(q)
  <2>1. q = r
    BY <1>1, BuildDraftEffect DEF OthersKept
  <2> QED
    BY <1>1, <2>1, BuildDraftEffect DEF Drafting, Unsubmitted
<1>2. ASSUME NEW r \in Requests, CreateRequest(r)
      PROVE  Drafting(q)
  <2>1. q = r
    BY <1>2, CreateRequestEffect DEF OthersKept
  <2> QED
    BY <1>2, <2>1, CreateRequestEffect DEF Drafting, Unsubmitted
<1>3. ASSUME NEW s \in Staff, NEW r \in Requests, Review(s, r)
      PROVE  \E a \in Actors : MovedBy(a, q)
  <2>1. q = r
    BY <1>3, ReviewEffect DEF Written, OthersKept
  <2>2. page[s].req = r /\ page' = [page EXCEPT ![s] = NoPage]
    BY <1>3 DEF Review, Gate, Save
  <2>3. row[r].status \in OpenStatuses
    BY <1>3, ReviewEffect DEF OpenStatuses, AwaitingFinance
  <2>4. s \in Merchants => row[r].assigned = s
    BY <1>3 DEF Review, Gate
  <2>5. /\ row'[r].type = row[r].type /\ row'[r].selected = row[r].selected
        /\ row'[r].submitted = row[r].submitted
        /\ row'[r].assigned \in {None, row[r].assigned} \/ s \in Staff
    BY <1>3, ReviewEffect DEF Written
  <2> QED
    BY <1>0, <1>3, <2>1, <2>2, <2>3, <2>4, <2>5 DEF MovedBy
<1>4. ASSUME NEW s \in Staff, NEW r \in Requests, NEW m \in Merchants, Route(s, r, m)
      PROVE  \E a \in Actors : MovedBy(a, q)
  <2>1. q = r
    BY <1>4, RouteEffect DEF Written, OthersKept
  <2>2. page[s].req = r /\ page' = [page EXCEPT ![s] = NoPage]
    BY <1>4 DEF Route, Gate, Save
  <2>3. row[r].status \in OpenStatuses
    BY <1>4, RouteEffect DEF OpenStatuses, AwaitingFinance
  <2>4. s \in Merchants => row[r].assigned = s
    BY <1>4 DEF Route, Gate
  <2>5. /\ row'[r].type = row[r].type /\ row'[r].selected = row[r].selected
        /\ row'[r].submitted = row[r].submitted
        /\ row'[r].assigned \in {None, row[r].assigned} \/ s \in Staff
    BY <1>4, RouteEffect DEF Written
  <2> QED
    BY <1>0, <1>4, <2>1, <2>2, <2>3, <2>4, <2>5 DEF MovedBy
<1>5. ASSUME NEW s \in Staff, NEW r \in Requests, Park(s, r)
      PROVE  \E a \in Actors : MovedBy(a, q)
  <2>1. q = r
    BY <1>5, ParkEffect DEF Written, OthersKept
  <2>2. page[s].req = r /\ page' = [page EXCEPT ![s] = NoPage]
    BY <1>5 DEF Park, Gate, Save
  <2>3. row[r].status \in OpenStatuses
    BY <1>5, ParkEffect DEF OpenStatuses, AwaitingFinance
  <2>4. s \in Merchants => row[r].assigned = s
    BY <1>5 DEF Park, Gate
  <2>5. /\ row'[r].type = row[r].type /\ row'[r].selected = row[r].selected
        /\ row'[r].submitted = row[r].submitted
        /\ row'[r].assigned \in {None, row[r].assigned} \/ s \in Staff
    BY <1>5, ParkEffect DEF Written
  <2> QED
    BY <1>0, <1>5, <2>1, <2>2, <2>3, <2>4, <2>5 DEF MovedBy
<1>6. ASSUME NEW s \in Staff, NEW r \in Requests, Credit(s, r)
      PROVE  \E a \in Actors : MovedBy(a, q)
  <2>1. q = r
    BY <1>6, CreditEffect DEF Written, OthersKept
  <2>2. page[s].req = r /\ page' = [page EXCEPT ![s] = NoPage]
    BY <1>6 DEF Credit, Gate, Save
  <2>3. row[r].status \in OpenStatuses
    BY <1>6, CreditEffect DEF OpenStatuses, AwaitingFinance
  <2>4. s \in Merchants => row[r].assigned = s
    BY <1>6 DEF Credit, Gate
  <2>5. /\ row'[r].type = row[r].type /\ row'[r].selected = row[r].selected
        /\ row'[r].submitted = row[r].submitted
        /\ row'[r].assigned \in {None, row[r].assigned} \/ s \in Staff
    BY <1>6, CreditEffect DEF Written
  <2> QED
    BY <1>0, <1>6, <2>1, <2>2, <2>3, <2>4, <2>5 DEF MovedBy
<1>7. ASSUME NEW s \in Staff, NEW r \in Requests, Close(s, r)
      PROVE  \E a \in Actors : MovedBy(a, q)
  <2>1. q = r
    BY <1>7, CloseEffect DEF Written, OthersKept
  <2>2. page[s].req = r /\ page' = [page EXCEPT ![s] = NoPage]
    BY <1>7 DEF Close, Gate, Save
  <2>3. row[r].status \in OpenStatuses
    BY <1>7, CloseEffect DEF OpenStatuses, AwaitingFinance
  <2>4. s \in Merchants => row[r].assigned = s
    BY <1>7 DEF Close, Gate
  <2>5. /\ row'[r].type = row[r].type /\ row'[r].selected = row[r].selected
        /\ row'[r].submitted = row[r].submitted
        /\ row'[r].assigned \in {None, row[r].assigned} \/ s \in Staff
    BY <1>7, CloseEffect DEF Written
  <2> QED
    BY <1>0, <1>7, <2>1, <2>2, <2>3, <2>4, <2>5 DEF MovedBy
<1>8. ASSUME NEW s \in Staff, NEW r \in Requests, Cancel(s, r)
      PROVE  \E a \in Actors : MovedBy(a, q)
  <2>1. q = r
    BY <1>8, CancelEffect DEF Written, OthersKept
  <2>2. page[s].req = r /\ page' = [page EXCEPT ![s] = NoPage]
    BY <1>8 DEF Cancel, Gate, Save
  <2>3. row[r].status \in OpenStatuses
    BY <1>8, CancelEffect DEF OpenStatuses, AwaitingFinance
  <2>4. s \in Merchants => row[r].assigned = s
    BY <1>8 DEF Cancel, Gate
  <2>5. /\ row'[r].type = row[r].type /\ row'[r].selected = row[r].selected
        /\ row'[r].submitted = row[r].submitted
        /\ row'[r].assigned \in {None, row[r].assigned} \/ s \in Staff
    BY <1>8, CancelEffect DEF Written
  <2> QED
    BY <1>0, <1>8, <2>1, <2>2, <2>3, <2>4, <2>5 DEF MovedBy
<1>9. ASSUME NEW m \in Merchants, NEW r \in Requests, Confirm(m, r)
      PROVE  \E a \in Actors : MovedBy(a, q)
  <2>1. q = r
    BY <1>9, ConfirmEffect DEF Written, OthersKept
  <2>2. page[m].req = r /\ page' = [page EXCEPT ![m] = NoPage]
    BY <1>9 DEF Confirm, Gate, Save
  <2>3. row[r].status \in OpenStatuses
    BY <1>9, ConfirmEffect DEF OpenStatuses, AwaitingFinance
  <2>4. m \in Merchants => row[r].assigned = m
    BY <1>9 DEF Confirm, Gate
  <2>5. /\ row'[r].type = row[r].type /\ row'[r].selected = row[r].selected
        /\ row'[r].submitted = row[r].submitted
        /\ row'[r].assigned \in {None, row[r].assigned} \/ m \in Staff
    BY <1>9, ConfirmEffect DEF Written
  <2> QED
    BY <1>0, <1>9, <2>1, <2>2, <2>3, <2>4, <2>5 DEF MovedBy
<1>10. ASSUME NEW m \in Merchants, NEW r \in Requests, Pay(m, r)
      PROVE  \E a \in Actors : MovedBy(a, q)
  <2>1. q = r
    BY <1>10, PayEffect DEF Written, OthersKept
  <2>2. page[m].req = r /\ page' = [page EXCEPT ![m] = NoPage]
    BY <1>10 DEF Pay, Gate, Save
  <2>3. row[r].status \in OpenStatuses
    BY <1>10, PayEffect DEF OpenStatuses, AwaitingFinance
  <2>4. m \in Merchants => row[r].assigned = m
    BY <1>10 DEF Pay, Gate
  <2>5. /\ row'[r].type = row[r].type /\ row'[r].selected = row[r].selected
        /\ row'[r].submitted = row[r].submitted
        /\ row'[r].assigned \in {None, row[r].assigned} \/ m \in Staff
    BY <1>10, PayEffect DEF Written
  <2> QED
    BY <1>0, <1>10, <2>1, <2>2, <2>3, <2>4, <2>5 DEF MovedBy
<1>11. ASSUME NEW m \in Merchants, NEW r \in Requests, HandBack(m, r)
      PROVE  \E a \in Actors : MovedBy(a, q)
  <2>1. q = r
    BY <1>11, HandBackEffect DEF Written, OthersKept
  <2>2. page[m].req = r /\ page' = [page EXCEPT ![m] = NoPage]
    BY <1>11 DEF HandBack, Gate, Save
  <2>3. row[r].status \in OpenStatuses
    BY <1>11, HandBackEffect DEF OpenStatuses, AwaitingFinance
  <2>4. m \in Merchants => row[r].assigned = m
    BY <1>11 DEF HandBack, Gate
  <2>5. /\ row'[r].type = row[r].type /\ row'[r].selected = row[r].selected
        /\ row'[r].submitted = row[r].submitted
        /\ row'[r].assigned \in {None, row[r].assigned} \/ m \in Staff
    BY <1>11, HandBackEffect DEF Written
  <2> QED
    BY <1>0, <1>11, <2>1, <2>2, <2>3, <2>4, <2>5 DEF MovedBy
<1>12. ASSUME NEW a \in Actors, NEW r \in Requests, Reject(a, r)
      PROVE  \E b \in Actors : MovedBy(b, q)
  <2>1. q = r
    BY <1>12, RejectEffect DEF Written, OthersKept
  <2>2. page[a].req = r /\ page' = [page EXCEPT ![a] = NoPage]
    BY <1>12 DEF Reject, Gate, Save
  <2>3. row[r].status \in OpenStatuses
    BY <1>12, RejectEffect DEF OpenStatuses, AwaitingFinance
  <2>4. a \in Merchants => row[r].assigned = a
    BY <1>12 DEF Reject, Gate
  <2>5. /\ row'[r].type = row[r].type /\ row'[r].selected = row[r].selected
        /\ row'[r].submitted = row[r].submitted
        /\ row'[r].assigned \in {None, row[r].assigned} \/ a \in Staff
    BY <1>12, RejectEffect DEF Written
  <2> QED
    BY <1>0, <1>12, <2>1, <2>2, <2>3, <2>4, <2>5 DEF MovedBy
<1>13. ASSUME NEW a \in Actors, NEW r \in Requests, NEW amt \in Amounts,
              CorrectAmount(a, r, amt)
      PROVE  \E b \in Actors : MovedBy(b, q)
  <2>1. q = r
    BY <1>13, CorrectAmountEffect DEF Written, OthersKept
  <2>2. page[a].req = r /\ page' = [page EXCEPT ![a] = NoPage]
    BY <1>13 DEF CorrectAmount, Gate, Save
  <2>3. row[r].status \in OpenStatuses
    BY <1>13, CorrectAmountEffect DEF OpenStatuses, AwaitingFinance, AmountEditable
  <2>4. a \in Merchants => row[r].assigned = a
    BY <1>13 DEF CorrectAmount, Gate
  <2>5. /\ row'[r].type = row[r].type /\ row'[r].selected = row[r].selected
        /\ row'[r].submitted = row[r].submitted
        /\ row'[r].assigned \in {None, row[r].assigned} \/ a \in Staff
    BY <1>13, CorrectAmountEffect DEF Written
  <2> QED
    BY <1>0, <1>13, <2>1, <2>2, <2>3, <2>4, <2>5 DEF MovedBy
<1>14. CASE UNCHANGED row
  BY <1>14
<1> QED
  BY <1>1, <1>2, <1>3, <1>4, <1>5, <1>6, <1>7, <1>8, <1>9, <1>10, <1>11, <1>12,
     <1>13, <1>14
     DEF Next, vars, Submission, FinanceMove, MerchantMove, EitherMove, Open, Leave,
         EditMerchant

(***************************************************************************)
(* Two actors' pages are never left in one step unless one was not open.   *)
(***************************************************************************)
LEMMA LeavingIsMoving ==
  ASSUME TypeOK, NEW a \in Actors, NEW b \in Actors, NEW q \in Requests,
         MovedBy(a, q), page[b].req = q, page'[b] = NoPage
  PROVE  b = a
<1>1. None # q
  BY LifecycleAssumption
<1>2. page[b] # NoPage
  BY <1>1 DEF NoPage
<1> QED
  BY <1>2 DEF MovedBy, TypeOK

(* An ended request is never written again.                                *)
THEOREM EndedStaysEnded == Spec => TerminalFinal
<1>1. TypeOK /\ [Next]_vars
        => [\A r \in Requests : row[r].status \in Terminal => row'[r] = row[r]]_vars
  <2> SUFFICES ASSUME TypeOK, [Next]_vars, NEW r \in Requests,
                      row[r].status \in Terminal
               PROVE  row'[r] = row[r]
    OBVIOUS
  <2>1. ~Drafting(r)
    BY DEF Drafting, Terminal, Unsubmitted
  <2>2. \A a \in Actors : ~MovedBy(a, r)
    BY DEF MovedBy, Terminal, OpenStatuses, AwaitingFinance
  <2> QED
    BY <2>1, <2>2, OneActorAtATime
<1> QED
  BY <1>1, TypeCorrect, PTL DEF Spec, TerminalFinal

(* What the client submitted survives every move.                          *)
THEOREM SubmissionSurvives == Spec => SubmissionKept
<1>1. TypeOK /\ (\A r \in Requests : Sound(r)) /\ [Next]_vars
        => [\A r \in Requests : row[r].submitted # None
              => /\ row'[r].submitted = row[r].submitted
                 /\ row'[r].selected = row[r].selected
                 /\ row'[r].type = row[r].type]_vars
  <2>a. SUFFICES ASSUME TypeOK, \A r \in Requests : Sound(r), [Next]_vars,
                       NEW r \in Requests, row[r].submitted # None
                PROVE  /\ row'[r].submitted = row[r].submitted
                       /\ row'[r].selected = row[r].selected
                       /\ row'[r].type = row[r].type
    OBVIOUS
  <2>1. ~Drafting(r)
    BY <2>a DEF Drafting, Sound, DraftSound
  <2>2. row'[r] = row[r] \/ \E a \in Actors : MovedBy(a, r)
    BY <2>a, <2>1, OneActorAtATime
  <2> QED
    BY <2>2 DEF MovedBy
<1> QED
  BY <1>1, TypeCorrect, SoundAlways, PTL DEF Spec, SubmissionKept

(* A merchant's POST changes only what the merchant holds at that moment.  *)
THEOREM MerchantsWriteOnlyTheirOwn == Spec => MerchantWritesOnlyHeld
<1>1. TypeOK /\ [Next]_vars
        => [\A m \in Merchants, r \in Requests :
              page[m].req = r /\ page'[m] = NoPage /\ row'[r] # row[r]
                => row[r].assigned = m]_vars
  <2> SUFFICES ASSUME TypeOK, [Next]_vars, NEW m \in Merchants, NEW r \in Requests,
                      page[m].req = r, page'[m] = NoPage, row'[r] # row[r]
               PROVE  row[r].assigned = m
    OBVIOUS
  <2>1. m \in Actors
    BY DEF Actors
  <2>2. page[m] # NoPage
    BY LifecycleAssumption DEF NoPage
  <2>3. ~Drafting(r)
    BY <2>2 DEF Drafting
  <2>4. PICK a \in Actors : MovedBy(a, r)
    BY <2>3, OneActorAtATime
  <2>5. a = m
    BY <2>1, <2>4, LeavingIsMoving
  <2> QED
    BY <2>4, <2>5 DEF MovedBy
<1> QED
  BY <1>1, TypeCorrect, PTL DEF Spec, MerchantWritesOnlyHeld

(* No withdrawal reaches a merchant but by an operator's own route.        *)
THEOREM DeskRoutesWithdrawals == Spec => WithdrawalThroughDesk
<1>1. TypeOK /\ [Next]_vars
        => [\A r \in Requests :
              row'[r].type = "withdrawal" /\ row'[r].assigned \notin {None, row[r].assigned}
                => \E s \in Staff : page[s].req = r /\ page'[s] = NoPage]_vars
  <2> SUFFICES ASSUME TypeOK, [Next]_vars, NEW r \in Requests,
                      row'[r].type = "withdrawal",
                      row'[r].assigned \notin {None, row[r].assigned}
               PROVE  \E s \in Staff : page[s].req = r /\ page'[s] = NoPage
    OBVIOUS
  <2>1. ~Drafting(r) /\ row'[r] # row[r]
    BY DEF Drafting
  <2>2. PICK a \in Actors : MovedBy(a, r)
    BY <2>1, OneActorAtATime
  <2>3. a \in Staff
    BY <2>2 DEF MovedBy
  <2>4. page[a].req = r /\ page'[a] = NoPage
    BY <2>2 DEF MovedBy, TypeOK
  <2> QED
    BY <2>3, <2>4
<1> QED
  BY <1>1, TypeCorrect, PTL DEF Spec, WithdrawalThroughDesk

-----------------------------------------------------------------------------
(***************************************************************************)
(* The refinement.  A step changes the promise about the request it moves  *)
(* and about no other.                                                     *)
(***************************************************************************)
PromiseOf(r) ==
  [phase |-> Phase(row[r].status), holder |-> row[r].assigned,
   figure |-> IF row[r].status \in Unsubmitted THEN None ELSE row[r].amount]

(* The phase each status stands for.                                       *)
LEMMA PhaseValues ==
  /\ Phase("absent") = "absent" /\ Phase("drafted") = "absent"
  /\ \A s \in Terminal : Phase(s) = "ended"
  /\ Phase("credited") = "booked"
  /\ Phase("merchant_confirmed") = "acted" /\ Phase("merchant_paid") = "acted"
  /\ \A s \in {"submitted", "under_review", "assigned", "pending"} : Phase(s) = "open"
  /\ \A s \in Unsubmitted : Phase(s) = "absent"
BY DEF Phase, Unsubmitted, Terminal

(* The refinement mapping is made request by request.                      *)
LEMMA PromisedIsPerRequest ==
  /\ Promised = [r \in Requests |-> PromiseOf(r)]
  /\ Promised' = [r \in Requests |-> PromiseOf(r)']
BY DEF Promised, PromiseOf

(* A step that keeps the other requests moves one promise only.            *)
LEMMA PromiseStep ==
  ASSUME NEW r \in Requests, OthersKept(r)
  PROVE  /\ Promised' = [Promised EXCEPT ![r] = PromiseOf(r)']
         /\ PromiseOf(r)' = PromiseOf(r) => Promised' = Promised
<1>1. \A q \in Requests \ {r} : PromiseOf(q)' = PromiseOf(q)
  BY DEF OthersKept, PromiseOf
<1> QED
  BY <1>1, PromisedIsPerRequest

(* The lifecycle implements RequestPromise.                                *)
THEOREM LifecycleKeepsPromise == Spec => KeepsPromise
<1>1. Init => Promise!Init
  <2> SUFFICES ASSUME Init PROVE Promise!Init
    OBVIOUS
  <2>1. ASSUME NEW r \in Requests
        PROVE  PromiseOf(r) = [phase |-> "absent", holder |-> None, figure |-> None]
    <3>1. row[r].status = "absent" /\ row[r].assigned = None
      BY DEF Init
    <3> QED
      BY <3>1, PhaseValues DEF PromiseOf, Unsubmitted
  <2> QED
    BY <2>1, PromisedIsPerRequest DEF Promise!Init
<1>2. TypeOK /\ TypeOK' /\ (\A r \in Requests : Sound(r)) /\ [Next]_vars
        => [Promise!Next]_Promised
  <2>a. SUFFICES ASSUME TypeOK, TypeOK', \A r \in Requests : Sound(r), [Next]_vars
                PROVE  [Promise!Next]_Promised
    OBVIOUS
  <2>b. TypeOK
    BY <2>a
  <2>c. \A r \in Requests : Promised[r] = PromiseOf(r)
    BY PromisedIsPerRequest
  <2>d. \A r \in Requests : row'[r] \in Row
    BY <2>a DEF TypeOK
  <2>1. ASSUME NEW r \in Requests, NEW type \in Directions,
               NEW m \in Merchants, NEW amt \in Amounts, BuildDraft(r, type, m, amt)
        PROVE  [Promise!Next]_Promised
    <3>0. OthersKept(r)
      BY <2>b, <2>1, BuildDraftEffect
    <3>1. PromiseOf(r)' = PromiseOf(r)
      BY <2>b, <2>1, BuildDraftEffect, PhaseValues DEF PromiseOf, Unsubmitted
    <3> QED
      BY <3>0, <3>1, PromiseStep
  <2>2. ASSUME NEW r \in Requests, CreateRequest(r)
        PROVE  [Promise!Next]_Promised
    <3>0. OthersKept(r)
      BY <2>b, <2>2, CreateRequestEffect
    <3>1. PromiseOf(r).phase = "absent"
      BY <2>b, <2>2, CreateRequestEffect, PhaseValues DEF PromiseOf
    <3>2. row'[r].amount \in Amounts /\ row'[r].assigned \in Merchants \cup {None}
      <4>1. row[r].status = "drafted" /\ row'[r].amount = row[r].amount
        BY <2>b, <2>2, CreateRequestEffect
      <4>2. row[r].amount \in Amounts
        BY <2>a, <4>1 DEF Sound, DraftSound
      <4> QED
        BY <2>d, <4>1, <4>2 DEF Row
    <3>3. PromiseOf(r)' = [phase |-> "open", holder |-> row'[r].assigned,
                           figure |-> row'[r].amount]
      BY <2>b, <2>2, CreateRequestEffect, PhaseValues DEF PromiseOf, Unsubmitted
    <3>4. Promise!Submit(r)
      BY <2>c, <3>0, <3>1, <3>2, <3>3, PromiseStep DEF Promise!Submit
    <3> QED
      BY <3>4 DEF Promise!Next
  <2>3. ASSUME NEW s \in Staff, NEW r \in Requests, Review(s, r)
        PROVE  [Promise!Next]_Promised
    <3>0. OthersKept(r)
      BY <2>b, <2>3, ReviewEffect DEF Written
    <3>1. PromiseOf(r)' = PromiseOf(r)
      BY <2>b, <2>3, ReviewEffect, PhaseValues DEF PromiseOf, Unsubmitted, Written
    <3> QED
      BY <3>0, <3>1, PromiseStep
  <2>4. ASSUME NEW s \in Staff, NEW r \in Requests, NEW m \in Merchants, Route(s, r, m)
        PROVE  [Promise!Next]_Promised
    <3>0. OthersKept(r)
      BY <2>b, <2>4, RouteEffect DEF Written
    <3>1. PromiseOf(r).phase = "open"
      BY <2>b, <2>4, RouteEffect, PhaseValues
         DEF PromiseOf, OpenStatuses, AwaitingFinance
    <3>2. PromiseOf(r)' = [PromiseOf(r) EXCEPT !.holder = m]
      BY <2>b, <2>4, RouteEffect, PhaseValues
         DEF PromiseOf, Unsubmitted, Terminal, OpenStatuses, AwaitingFinance,
             Written
    <3> QED
      BY <2>c, <3>0, <3>1, <3>2, PromiseStep DEF Promise!Next, Promise!Assign
  <2>5. ASSUME NEW s \in Staff, NEW r \in Requests, Park(s, r)
        PROVE  [Promise!Next]_Promised
    <3>0. OthersKept(r)
      BY <2>b, <2>5, ParkEffect DEF Written
    <3>1. CASE row[r].status \in {"submitted", "under_review", "assigned"}
      <4>1. PromiseOf(r)' = PromiseOf(r)
        BY <2>b, <2>5, <3>1, ParkEffect, PhaseValues DEF PromiseOf, Unsubmitted, Written
      <4> QED
        BY <3>0, <4>1, PromiseStep
    <3>2. CASE row[r].status \in {"merchant_confirmed", "merchant_paid"}
      <4>1. /\ PromiseOf(r).phase = "acted"
            /\ PromiseOf(r)' = [PromiseOf(r) EXCEPT !.phase = "open"]
        BY <2>b, <2>5, <3>2, ParkEffect, PhaseValues DEF PromiseOf, Unsubmitted, Written
      <4> QED
        BY <2>c, <3>0, <4>1, PromiseStep DEF Promise!Next, Promise!Reopen
    <3> QED
      BY <2>b, <2>5, <3>1, <3>2, ParkEffect
  <2>6. ASSUME NEW s \in Staff, NEW r \in Requests, Credit(s, r)
        PROVE  [Promise!Next]_Promised
    <3>0. OthersKept(r)
      BY <2>b, <2>6, CreditEffect DEF Written
    <3>1. PromiseOf(r).phase = "acted"
      BY <2>b, <2>6, CreditEffect, PhaseValues
         DEF PromiseOf, OpenStatuses, AwaitingFinance
    <3>2. PromiseOf(r)' = [PromiseOf(r) EXCEPT !.phase = "booked"]
      BY <2>b, <2>6, CreditEffect, PhaseValues
         DEF PromiseOf, Unsubmitted, Terminal, OpenStatuses, AwaitingFinance,
             Written
    <3> QED
      BY <2>c, <3>0, <3>1, <3>2, PromiseStep DEF Promise!Next, Promise!Book
  <2>7. ASSUME NEW s \in Staff, NEW r \in Requests, Close(s, r)
        PROVE  [Promise!Next]_Promised
    <3>0. OthersKept(r)
      BY <2>b, <2>7, CloseEffect DEF Written
    <3>1. PromiseOf(r).phase \in {"open", "acted", "booked"}
      BY <2>b, <2>7, CloseEffect, PhaseValues
         DEF PromiseOf, OpenStatuses, AwaitingFinance
    <3>2. PromiseOf(r)' = [PromiseOf(r) EXCEPT !.phase = "ended"]
      BY <2>b, <2>7, CloseEffect, PhaseValues
         DEF PromiseOf, Unsubmitted, Terminal, OpenStatuses, AwaitingFinance,
             Written
    <3> QED
      BY <2>c, <3>0, <3>1, <3>2, PromiseStep DEF Promise!Next, Promise!End
  <2>8. ASSUME NEW s \in Staff, NEW r \in Requests, Cancel(s, r)
        PROVE  [Promise!Next]_Promised
    <3>0. OthersKept(r)
      BY <2>b, <2>8, CancelEffect DEF Written
    <3>1. PromiseOf(r).phase \in {"open", "acted", "booked"}
      BY <2>b, <2>8, CancelEffect, PhaseValues
         DEF PromiseOf, OpenStatuses, AwaitingFinance
    <3>2. PromiseOf(r)' = [PromiseOf(r) EXCEPT !.phase = "ended"]
      BY <2>b, <2>8, CancelEffect, PhaseValues
         DEF PromiseOf, Unsubmitted, Terminal, OpenStatuses, AwaitingFinance,
             Written
    <3> QED
      BY <2>c, <3>0, <3>1, <3>2, PromiseStep DEF Promise!Next, Promise!End
  <2>9. ASSUME NEW m \in Merchants, NEW r \in Requests, Confirm(m, r)
        PROVE  [Promise!Next]_Promised
    <3>0. OthersKept(r)
      BY <2>b, <2>9, ConfirmEffect DEF Written
    <3>1. PromiseOf(r).phase = "open" /\ PromiseOf(r).holder # None
      <4>1. row[r].status = "assigned" /\ row[r].assigned = m /\ m # None
        BY <2>b, <2>9, ConfirmEffect, LifecycleAssumption
      <4> QED
        BY <4>1, PhaseValues DEF PromiseOf
    <3>2. PromiseOf(r)' = [PromiseOf(r) EXCEPT !.phase = "acted"]
      BY <2>b, <2>9, ConfirmEffect, PhaseValues
         DEF PromiseOf, Unsubmitted, Terminal, OpenStatuses, AwaitingFinance,
             Written
    <3> QED
      BY <2>c, <3>0, <3>1, <3>2, PromiseStep DEF Promise!Next, Promise!Act
  <2>10. ASSUME NEW m \in Merchants, NEW r \in Requests, Pay(m, r)
        PROVE  [Promise!Next]_Promised
    <3>0. OthersKept(r)
      BY <2>b, <2>10, PayEffect DEF Written
    <3>1. PromiseOf(r).phase = "open" /\ PromiseOf(r).holder # None
      <4>1. row[r].status = "assigned" /\ row[r].assigned = m /\ m # None
        BY <2>b, <2>10, PayEffect, LifecycleAssumption
      <4> QED
        BY <4>1, PhaseValues DEF PromiseOf
    <3>2. PromiseOf(r)' = [PromiseOf(r) EXCEPT !.phase = "acted"]
      BY <2>b, <2>10, PayEffect, PhaseValues
         DEF PromiseOf, Unsubmitted, Terminal, OpenStatuses, AwaitingFinance,
             Written
    <3> QED
      BY <2>c, <3>0, <3>1, <3>2, PromiseStep DEF Promise!Next, Promise!Act
  <2>11. ASSUME NEW m \in Merchants, NEW r \in Requests, HandBack(m, r)
        PROVE  [Promise!Next]_Promised
    <3>0. OthersKept(r)
      BY <2>b, <2>11, HandBackEffect DEF Written
    <3>1. PromiseOf(r).phase = "open"
      BY <2>b, <2>11, HandBackEffect, PhaseValues
         DEF PromiseOf, OpenStatuses, AwaitingFinance
    <3>2. PromiseOf(r)' = [PromiseOf(r) EXCEPT !.holder = None]
      BY <2>b, <2>11, HandBackEffect, PhaseValues
         DEF PromiseOf, Unsubmitted, Terminal, OpenStatuses, AwaitingFinance,
             Written
    <3> QED
      BY <2>c, <3>0, <3>1, <3>2, PromiseStep DEF Promise!Next, Promise!Assign
  <2>12. ASSUME NEW a \in Actors, NEW r \in Requests, Reject(a, r)
        PROVE  [Promise!Next]_Promised
    <3>0. OthersKept(r)
      BY <2>b, <2>12, RejectEffect DEF Written
    <3>1. PromiseOf(r).phase \in {"open", "acted", "booked"}
      BY <2>b, <2>12, RejectEffect, PhaseValues
         DEF PromiseOf, OpenStatuses, AwaitingFinance
    <3>2. PromiseOf(r)' = [PromiseOf(r) EXCEPT !.phase = "ended"]
      BY <2>b, <2>12, RejectEffect, PhaseValues
         DEF PromiseOf, Unsubmitted, Terminal, OpenStatuses, AwaitingFinance,
             Written
    <3> QED
      BY <2>c, <3>0, <3>1, <3>2, PromiseStep DEF Promise!Next, Promise!End
  <2>13. ASSUME NEW a \in Actors, NEW r \in Requests, NEW amt \in Amounts,
                CorrectAmount(a, r, amt)
        PROVE  [Promise!Next]_Promised
    <3>0. OthersKept(r)
      BY <2>b, <2>13, CorrectAmountEffect DEF Written
    <3>1. PromiseOf(r).phase \in {"open", "acted"}
      BY <2>b, <2>13, CorrectAmountEffect, PhaseValues
         DEF PromiseOf, OpenStatuses, AwaitingFinance, AmountEditable
    <3>2. PromiseOf(r)' = [PromiseOf(r) EXCEPT !.figure = amt]
      BY <2>b, <2>13, CorrectAmountEffect, PhaseValues
         DEF PromiseOf, Unsubmitted, Terminal, OpenStatuses, AwaitingFinance,
             Written, AmountEditable
    <3> QED
      BY <2>c, <3>0, <3>1, <3>2, PromiseStep DEF Promise!Next, Promise!Adjust
  <2>14. CASE UNCHANGED row
    BY <2>14 DEF Promised
  <2> QED
    BY <2>a, <2>1, <2>2, <2>3, <2>4, <2>5, <2>6, <2>7, <2>8, <2>9, <2>10, <2>11,
       <2>12, <2>13, <2>14
       DEF Next, vars, Submission, FinanceMove, MerchantMove, EitherMove, Open, Leave,
           EditMerchant
<1> QED
  BY <1>1, <1>2, TypeCorrect, SoundAlways, PTL DEF Spec, KeepsPromise, Promise!Spec

=============================================================================
