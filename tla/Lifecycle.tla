----------------------------- MODULE Lifecycle -----------------------------
(***************************************************************************)
(* The life of a deposit or withdrawal request                             *)
(* (apps/transactions/services.py), as Finance operators, merchants and    *)
(* the submitting client drive it concurrently.                            *)
(*                                                                         *)
(* A move is two steps, because the program takes it in two: a view reads  *)
(* the request without a lock (Open), and apply_transition or              *)
(* correct_amount later re-reads the row under SELECT ... FOR UPDATE and   *)
(* commits (every other operator action).  Anything may happen in between. *)
(***************************************************************************)
CONSTANTS
  Requests,    \* request identities
  Merchants,   \* merchant records; a merchant's one account acts as it
  Staff,       \* Finance operators
  Amounts,     \* dollar amounts within the bounds of pricing.bounds_for
  Directions,  \* the request types clients submit
  Editable,    \* merchants whose record Finance edits meanwhile,
  Switches,    \* and what it switches on and off there
  Granted,     \* the permissions each account effectively holds
  None         \* a null foreign key

Actors == Staff \cup Merchants

Switch == {"is_active", "covers", "wallet"}

Permission == {"approve_request", "route_request", "credit_request",
               "close_request", "confirm_request", "reject_request",
               "return_request", "cancel_request", "change_request_amount"}

ASSUME LifecycleAssumption ==
  /\ None \notin Merchants \cup Amounts \cup Requests
  /\ Staff \cap Merchants = {}
  /\ Directions \subseteq {"deposit", "withdrawal"}
  /\ Editable \subseteq Merchants
  /\ Switches \subseteq Switch
  /\ Granted \in [Actors -> SUBSET Permission]

VARIABLES
  row,       \* the Request row, and the Draft it is created from
  page,      \* what each actor's view last read, without a lock
  merchant,  \* the merchant records routing depends on
  thread,    \* reasons posted in the request's thread: <<move, audience>>
  trail      \* what the audit log says has happened to the request

vars == <<row, page, merchant, thread, trail>>

(***************************************************************************)
(* Data.  A definition marked "fault" is a slip the code does not make: no *)
(* behaviour of Spec uses it, and putting it in place of the definition    *)
(* that follows breaks one of the properties below.                        *)
(***************************************************************************)
Both == {"deposit", "withdrawal"}

AwaitingFinance == {"submitted", "under_review", "pending",
                    "merchant_confirmed", "merchant_paid", "credited"}
OpenStatuses == AwaitingFinance \cup {"assigned"}
Terminal == {"closed", "rejected", "cancelled"}

\* fault: a credited request may still be corrected
EditableWhileOpen == OpenStatuses

AmountEditable == OpenStatuses \ {"credited"}

\* "absent" and "drafted" are requests without a row: nothing, and a Draft
\* that build_draft has accepted and create_request has not yet written.
Unsubmitted == {"absent", "drafted"}
Status == OpenStatuses \cup Terminal \cup Unsubmitted

Stamp == {"assigned_at", "merchant_actioned_at", "closed_at"}

Row == [type: Both, status: Status, selected: Merchants \cup {None},
        assigned: Merchants \cup {None}, amount: Amounts \cup {None},
        submitted: Amounts \cup {None}, stamps: SUBSET Stamp,
        rejection_reason: {"", "reject", "cancel"}]

Page == [req: Requests \cup {None}, holder: Merchants \cup {None},
         amount: Amounts \cup {None}, options: SUBSET Merchants]

\* What routing asks of a merchant.  is_active is off while archived: archiving
\* switches it off and restoring leaves it so.  covers: an active link to the
\* payment method; wallet: an active wallet on that link.
MerchantRecord == [Switch -> BOOLEAN]

ReasonMoves == {"hand_back", "park", "cancel", "reject"}

\* acted: the merchant whose confirm or pay stands for the present
\* assignment; payers: everyone who marked it paid; booked and seen: the
\* amount on the row, and on the operator's screen, when it was credited.
Trail == [reviewed: BOOLEAN, acted: Merchants \cup {None},
          payers: SUBSET Merchants, booked: Amounts \cup {None},
          seen: Amounts \cup {None}]

NoPage == [req |-> None, holder |-> None, amount |-> None, options |-> {}]

TypeOK ==
  /\ row \in [Requests -> Row]
  /\ page \in [Actors -> Page]
  /\ merchant \in [Merchants -> MerchantRecord]
  /\ thread \in [Requests -> SUBSET (ReasonMoves \X {"client", "desk"})]
  /\ trail \in [Requests -> Trail]

Init ==
  /\ row = [r \in Requests |->
       [type |-> "deposit", status |-> "absent", selected |-> None,
        assigned |-> None, amount |-> None, submitted |-> None,
        stamps |-> {}, rejection_reason |-> ""]]
  /\ page = [a \in Actors |-> NoPage]
  /\ merchant = [m \in Merchants |-> [k \in Switch |-> TRUE]]
  /\ thread = [r \in Requests |-> {}]
  /\ trail = [r \in Requests |->
       [reviewed |-> FALSE, acted |-> None, payers |-> {},
        booked |-> None, seen |-> None]]

(***************************************************************************)
(* The rule a merchant list is filtered by, for clients (catalog.py) and   *)
(* for the route form (eligible_merchants): active, not archived, covering *)
(* the method and, for a deposit, with a wallet in force.                  *)
(***************************************************************************)
Eligible(m, type) ==
  /\ merchant[m].is_active
  /\ merchant[m].covers
  /\ type = "deposit" => merchant[m].wallet

-----------------------------------------------------------------------------
(***************************************************************************)
(* Submission: build_draft reads the catalogue outside any transaction,    *)
(* create_request writes the row and hands a deposit to auto_route.        *)
(***************************************************************************)
BuildDraft(r, type, m, amt) ==
  /\ row[r].status = "absent"
  /\ type \in Directions
  /\ Eligible(m, type)
  /\ row' = [row EXCEPT ![r] = [row[r] EXCEPT !.type = type, !.status = "drafted",
                                              !.selected = m, !.amount = amt]]
  /\ UNCHANGED <<page, merchant, thread, trail>>

\* fault: a withdrawal is routed like a deposit
AutoRoutedAlways(rec) == merchant[rec.selected].covers

\* auto_route re-reads the merchant's method link only; the merchant itself is
\* the instance build_draft loaded, so its is_active is the draft's.
AutoRouted(rec) == rec.type = "deposit" /\ merchant[rec.selected].covers

CreateRequest(r) ==
  LET draft == row[r] IN
  /\ draft.status = "drafted"
  /\ row' = [row EXCEPT ![r] =
       IF AutoRouted(draft)
       THEN [draft EXCEPT !.status = "assigned", !.assigned = draft.selected,
                          !.submitted = draft.amount, !.stamps = {"assigned_at"}]
       ELSE [draft EXCEPT !.status = "submitted", !.submitted = draft.amount]]
  /\ UNCHANGED <<page, merchant, thread, trail>>

-----------------------------------------------------------------------------
(***************************************************************************)
(* The unlocked read a POST is decided from.  A merchant's queryset only   *)
(* finds requests assigned to an active merchant; the route form lists the *)
(* merchants eligible now.                                                 *)
(***************************************************************************)
Open(a, r) ==
  /\ row[r].status \notin Unsubmitted
  /\ a \in Merchants => merchant[a].is_active /\ row[r].assigned = a
  /\ page' = [page EXCEPT ![a] =
       [req |-> r, holder |-> row[r].assigned, amount |-> row[r].amount,
        options |-> IF a \in Staff
                    THEN {m \in Merchants : Eligible(m, row[r].type)}
                    ELSE {}]]
  /\ UNCHANGED <<row, merchant, thread, trail>>

\* A refused POST redirects without writing; so does walking away.
Leave(a) ==
  /\ page[a].req # None
  /\ page' = [page EXCEPT ![a] = NoPage]
  /\ UNCHANGED <<row, merchant, thread, trail>>

(***************************************************************************)
(* apply_transition's gates, in its order: role and permission on the      *)
(* caller, then type, holder and source status on the locked row.          *)
(***************************************************************************)
\* fault: the holder is checked on the row the page was rendered from
GateOnPage(a, r, perm, types, sources) ==
  /\ page[a].req = r
  /\ perm \in Granted[a]
  /\ row[r].type \in types
  /\ a \in Merchants => page[a].holder = a
  /\ row[r].status \in sources

Gate(a, r, perm, types, sources) ==
  /\ page[a].req = r
  /\ perm \in Granted[a]
  /\ row[r].type \in types
  /\ a \in Merchants => row[r].assigned = a
  /\ row[r].status \in sources

\* locked.save(): the redirect that follows leaves the page behind.
Save(a, r, new) ==
  /\ row' = [row EXCEPT ![r] = new]
  /\ page' = [page EXCEPT ![a] = NoPage]
  /\ UNCHANGED merchant

Post(r, move, audience) ==
  thread' = [thread EXCEPT ![r] = @ \cup {<<move, audience>>}]

-----------------------------------------------------------------------------
(***************************************************************************)
(* Finance's moves.                                                        *)
(***************************************************************************)
Review(s, r) ==
  /\ Gate(s, r, "approve_request", Both, {"submitted"})
  /\ Save(s, r, [row[r] EXCEPT !.status = "under_review"])
  /\ trail' = [trail EXCEPT ![r].reviewed = TRUE]
  /\ UNCHANGED thread

\* fault: a parked request cannot be routed onward
RouteUnparked(s, r, m) ==
  /\ Gate(s, r, "route_request", Both, {"under_review", "assigned"})
  /\ m \in page[s].options
  /\ merchant[m].covers
  /\ Save(s, r, [row[r] EXCEPT !.status = "assigned", !.assigned = m,
                               !.stamps = @ \cup {"assigned_at"}])
  /\ trail' = [trail EXCEPT ![r].acted = None]
  /\ UNCHANGED thread

\* The merchant instance was loaded by the form, so only the method link is
\* looked up again after the lock (_validate_merchant).
Route(s, r, m) ==
  /\ Gate(s, r, "route_request", Both, {"under_review", "assigned", "pending"})
  /\ m \in page[s].options
  /\ merchant[m].covers
  /\ Save(s, r, [row[r] EXCEPT !.status = "assigned", !.assigned = m,
                               !.stamps = @ \cup {"assigned_at"}])
  /\ trail' = [trail EXCEPT ![r].acted = None]
  /\ UNCHANGED thread

\* fault: the reason of a park is stored as the reason the request ended
ParkExplained(s, r) ==
  /\ Gate(s, r, "approve_request", Both, AwaitingFinance \cup {"assigned"})
  /\ Save(s, r, [row[r] EXCEPT !.status = "pending", !.rejection_reason = "park"])
  /\ Post(r, "park", "desk")
  /\ UNCHANGED trail

\* fault: parking is offered from every open status, credited included
ParkCredited(s, r) ==
  /\ Gate(s, r, "approve_request", Both, OpenStatuses)
  /\ Save(s, r, [row[r] EXCEPT !.status = "pending"])
  /\ Post(r, "park", "desk")
  /\ UNCHANGED trail

Park(s, r) ==
  /\ Gate(s, r, "approve_request", Both,
          {"submitted", "under_review", "assigned",
           "merchant_confirmed", "merchant_paid"})
  /\ Save(s, r, [row[r] EXCEPT !.status = "pending"])
  /\ Post(r, "park", "desk")
  /\ UNCHANGED trail

\* fault: a deposit parked after its confirmation is credited from there
CreditParked(s, r) ==
  /\ Gate(s, r, "credit_request", {"deposit"}, {"merchant_confirmed", "pending"})
  /\ Save(s, r, [row[r] EXCEPT !.status = "credited"])
  /\ trail' = [trail EXCEPT ![r].booked = row[r].amount,
                            ![r].seen = page[s].amount]
  /\ UNCHANGED thread

Credit(s, r) ==
  /\ Gate(s, r, "credit_request", {"deposit"}, {"merchant_confirmed"})
  /\ Save(s, r, [row[r] EXCEPT !.status = "credited"])
  /\ trail' = [trail EXCEPT ![r].booked = row[r].amount,
                            ![r].seen = page[s].amount]
  /\ UNCHANGED thread

Close(s, r) ==
  /\ Gate(s, r, "close_request", Both, {"credited", "merchant_paid"})
  /\ Save(s, r, [row[r] EXCEPT !.status = "closed",
                               !.stamps = @ \cup {"closed_at"}])
  /\ UNCHANGED <<thread, trail>>

\* fault: a request somebody else has just rejected can still be cancelled
CancelRejected(s, r) ==
  /\ Gate(s, r, "cancel_request", Both, OpenStatuses \cup {"rejected"})
  /\ Save(s, r, [row[r] EXCEPT !.status = "cancelled",
                               !.stamps = @ \cup {"closed_at"},
                               !.rejection_reason = "cancel"])
  /\ Post(r, "cancel", "client")
  /\ UNCHANGED trail

Cancel(s, r) ==
  /\ Gate(s, r, "cancel_request", Both, OpenStatuses)
  /\ Save(s, r, [row[r] EXCEPT !.status = "cancelled",
                               !.stamps = @ \cup {"closed_at"},
                               !.rejection_reason = "cancel"])
  /\ Post(r, "cancel", "client")
  /\ UNCHANGED trail

-----------------------------------------------------------------------------
(***************************************************************************)
(* The merchant's moves.  Pay files the proof of transfer in the same      *)
(* transaction (merchant_panel.actions.execute).                           *)
(***************************************************************************)
\* fault: one move serves both directions
ConfirmEither(m, r) ==
  /\ Gate(m, r, "confirm_request", Both, {"assigned"})
  /\ Save(m, r, [row[r] EXCEPT !.status = "merchant_confirmed",
                               !.stamps = @ \cup {"merchant_actioned_at"}])
  /\ trail' = [trail EXCEPT ![r].acted = m]
  /\ UNCHANGED thread

Confirm(m, r) ==
  /\ Gate(m, r, "confirm_request", {"deposit"}, {"assigned"})
  /\ Save(m, r, [row[r] EXCEPT !.status = "merchant_confirmed",
                               !.stamps = @ \cup {"merchant_actioned_at"}])
  /\ trail' = [trail EXCEPT ![r].acted = m]
  /\ UNCHANGED thread

Pay(m, r) ==
  /\ Gate(m, r, "confirm_request", {"withdrawal"}, {"assigned"})
  /\ Save(m, r, [row[r] EXCEPT !.status = "merchant_paid",
                               !.stamps = @ \cup {"merchant_actioned_at"}])
  /\ trail' = [trail EXCEPT ![r].acted = m, ![r].payers = @ \cup {m}]
  /\ UNCHANGED thread

HandBack(m, r) ==
  /\ Gate(m, r, "return_request", Both, {"assigned"})
  /\ Save(m, r, [row[r] EXCEPT !.status = "pending", !.assigned = None])
  /\ Post(r, "hand_back", "desk")
  /\ UNCHANGED trail

-----------------------------------------------------------------------------
(***************************************************************************)
(* Moves of either side.                                                   *)
(***************************************************************************)
\* fault: the reason of a rejection is posted as an internal note
RejectQuietly(a, r) ==
  /\ Gate(a, r, "reject_request", Both, OpenStatuses)
  /\ Save(a, r, [row[r] EXCEPT !.status = "rejected",
                               !.stamps = @ \cup {"closed_at"},
                               !.rejection_reason = "reject"])
  /\ Post(r, "reject", "desk")
  /\ UNCHANGED trail

Reject(a, r) ==
  /\ Gate(a, r, "reject_request", Both, OpenStatuses)
  /\ Save(a, r, [row[r] EXCEPT !.status = "rejected",
                               !.stamps = @ \cup {"closed_at"},
                               !.rejection_reason = "reject"])
  /\ Post(r, "reject", "client")
  /\ UNCHANGED trail

\* fault: the first figure is overwritten by the corrected one
CorrectBoth(a, r, amt) ==
  /\ Gate(a, r, "change_request_amount",
          IF a \in Merchants THEN {"deposit"} ELSE Both, AmountEditable)
  /\ amt # row[r].amount
  /\ Save(a, r, [row[r] EXCEPT !.amount = amt, !.submitted = amt])
  /\ UNCHANGED <<thread, trail>>

\* correct_amount: a merchant may correct a deposit only, and the figure
\* originally submitted stays where it is.
CorrectAmount(a, r, amt) ==
  /\ Gate(a, r, "change_request_amount",
          IF a \in Merchants THEN {"deposit"} ELSE Both, AmountEditable)
  /\ amt # row[r].amount
  /\ Save(a, r, [row[r] EXCEPT !.amount = amt])
  /\ UNCHANGED <<thread, trail>>

-----------------------------------------------------------------------------
(***************************************************************************)
(* Finance edits merchant records, links and wallets from other screens.   *)
(***************************************************************************)
EditMerchant(m) ==
  /\ m \in Editable
  /\ \E k \in Switches : merchant' = [merchant EXCEPT ![m][k] = ~@]
  /\ UNCHANGED <<row, page, thread, trail>>

Submission(r) ==
  \/ \E type \in Directions, m \in Merchants, amt \in Amounts :
       BuildDraft(r, type, m, amt)
  \/ CreateRequest(r)

FinanceMove(s, r) ==
  \/ Review(s, r) \/ Park(s, r) \/ Credit(s, r) \/ Close(s, r) \/ Cancel(s, r)
  \/ \E m \in Merchants : Route(s, r, m)

MerchantMove(m, r) == Confirm(m, r) \/ Pay(m, r) \/ HandBack(m, r)

EitherMove(a, r) == Reject(a, r) \/ \E amt \in Amounts : CorrectAmount(a, r, amt)

Next ==
  \/ \E r \in Requests : Submission(r)
  \/ \E a \in Actors, r \in Requests : Open(a, r) \/ EitherMove(a, r)
  \/ \E a \in Actors : Leave(a)
  \/ \E s \in Staff, r \in Requests : FinanceMove(s, r)
  \/ \E m \in Merchants, r \in Requests : MerchantMove(m, r)
  \/ \E m \in Merchants : EditMerchant(m)

Spec == Init /\ [][Next]_vars

(***************************************************************************)
(* People keep working: an operator who can, and a merchant while the      *)
(* request waits on them, opens it in the end, and whoever is repeatedly   *)
(* offered a move that takes it forward makes it in the end; no merchant   *)
(* the route form keeps offering is passed over for ever.  The code        *)
(* schedules nothing; what it owes is that these moves are never all       *)
(* withdrawn.  Parking, handing back and correcting need never stop.       *)
(***************************************************************************)
Attend(a, r) == Open(a, r) /\ (a \in Merchants => row[r].status = "assigned")

Advance(s, r) == Review(s, r) \/ Credit(s, r) \/ Close(s, r)
Execute(m, r) == Confirm(m, r) \/ Pay(m, r)

Fairness ==
  \A r \in Requests :
    /\ \A a \in Actors : SF_vars(Attend(a, r))
    /\ \A s \in Staff : SF_vars(Advance(s, r))
    /\ \A s \in Staff, m \in Merchants : SF_vars(Route(s, r, m))
    /\ \A m \in Merchants : SF_vars(Execute(m, r))

FairSpec == Spec /\ Fairness

-----------------------------------------------------------------------------
(***************************************************************************)
(* Invariants.                                                             *)
(***************************************************************************)

\* A request never holds a status of the other direction, however often it is
\* parked and routed again (models.DEPOSIT_STATUSES, WITHDRAWAL_STATUSES).
StatusFitsDirection ==
  \A r \in Requests :
    /\ row[r].status \in {"merchant_confirmed", "credited"} => row[r].type = "deposit"
    /\ row[r].status = "merchant_paid" => row[r].type = "withdrawal"

\* Nothing is credited or closed on anybody's word but that of the merchant it
\* is assigned to now, through every reroute, hand-back and park on the way.
CreditedOnConfirmation ==
  \A r \in Requests :
    row[r].status \in {"merchant_confirmed", "merchant_paid", "credited", "closed"}
      => row[r].assigned # None /\ trail[r].acted = row[r].assigned

\* The figure recorded in B2CORE stays the figure on the row: a credited
\* request only ends, and nothing corrects it any more.
BookedFigureFrozen ==
  \A r \in Requests :
    trail[r].booked # None
      => /\ row[r].status \in {"credited"} \cup Terminal
         /\ row[r].amount = trail[r].booked

\* A request is stamped closed exactly when it has ended, and the client can
\* read why exactly when it was rejected or cancelled; what a merchant or the
\* desk says of a hand-back or a park never reaches the client.
EndIsExplained ==
  \A r \in Requests :
    /\ "closed_at" \in row[r].stamps <=> row[r].status \in Terminal
    /\ row[r].status = "rejected" <=> <<"reject", "client">> \in thread[r]
    /\ row[r].status = "cancelled" <=> <<"cancel", "client">> \in thread[r]
    /\ row[r].rejection_reason = IF row[r].status = "rejected" THEN "reject"
                                 ELSE IF row[r].status = "cancelled" THEN "cancel"
                                 ELSE ""
    /\ {<<"hand_back", "client">>, <<"park", "client">>} \cap thread[r] = {}

-----------------------------------------------------------------------------
(***************************************************************************)
(* Action properties.                                                      *)
(***************************************************************************)

\* An ended request is never written again, whatever page is still open on it.
TerminalFinal ==
  [][\A r \in Requests : row[r].status \in Terminal => row'[r] = row[r]]_vars

\* What the client asked for survives every reroute and every correction.
SubmissionKept ==
  [][\A r \in Requests : row[r].submitted # None
       => /\ row'[r].submitted = row[r].submitted
          /\ row'[r].selected = row[r].selected
          /\ row'[r].type = row[r].type]_vars

\* A merchant's POST changes a request only while the request is theirs, even
\* when it was taken from them after their page was loaded.
MerchantWritesOnlyHeld ==
  [][\A m \in Merchants, r \in Requests :
       page[m].req = r /\ page'[m] = NoPage /\ row'[r] # row[r]
         => row[r].assigned = m]_vars

\* No withdrawal reaches a merchant except by an operator's own route.
WithdrawalThroughDesk ==
  [][\A r \in Requests :
       row'[r].type = "withdrawal" /\ row'[r].assigned \notin {None, row[r].assigned}
         => \E s \in Staff : page[s].req = r /\ page'[s] = NoPage]_vars

-----------------------------------------------------------------------------
(***************************************************************************)
(* The abstract promise about the money, and progress.                     *)
(***************************************************************************)
Phase(status) ==
  CASE status \in Unsubmitted -> "absent"
    [] status \in Terminal -> "ended"
    [] status = "credited" -> "booked"
    [] status \in {"merchant_confirmed", "merchant_paid"} -> "acted"
    [] OTHER -> "open"

\* A draft that has not been submitted is nobody's request yet.
Promised ==
  [r \in Requests |->
     [phase |-> Phase(row[r].status), holder |-> row[r].assigned,
      figure |-> IF row[r].status \in Unsubmitted THEN None ELSE row[r].amount]]

Promise == INSTANCE RequestPromise WITH promise <- Promised

\* The lifecycle implements RequestPromise.
KeepsPromise == Promise!Spec

\* Every submitted request ends: parked is not finished, and a handed-back or
\* parked request can always be taken forward (RequestStatus.PENDING).
EveryRequestEnds ==
  \A r \in Requests : row[r].status \in OpenStatuses ~> row[r].status \in Terminal

-----------------------------------------------------------------------------
(***************************************************************************)
(* What the comments and the README say, and the code does not do.         *)
(***************************************************************************)

\* "the source statuses, so a request cannot skip review"; a withdrawal
\* "still goes through review first" (services.py).
NoPayoutWithoutReview ==
  \A r \in Requests : row[r].status = "merchant_paid" => trail[r].reviewed

\* "the second press must be told the request already moved rather than
\* silently overwrite the first one's decision" (apply_transition).
NoRouteOverwritten ==
  [][\A s \in Staff, r \in Requests :
       /\ page[s].req = r /\ page'[s] = NoPage
       /\ row'[r].assigned \notin {None, row[r].assigned}
       => page[s].holder = row[r].assigned]_vars

\* A route "must refuse a merchant who stopped being able to execute the
\* request" (services.py); README: re-checked "regardless of what the form
\* allowed".
RoutedMerchantCanExecute ==
  [][\A r \in Requests :
       row'[r].assigned \notin {None, row[r].assigned}
         => Eligible(row'[r].assigned, row[r].type)]_vars

\* A request "may be moved to another merchant while the first has not acted"
\* (services.py): so no withdrawal is paid by two merchants.
PaidOnce ==
  \A r \in Requests : \A m1, m2 \in trail[r].payers : m1 = m2
=============================================================================
