---------------------------- MODULE Conversation ----------------------------
(***************************************************************************)
(* The thread of a request (apps/transactions/messaging.py), who reads     *)
(* what of it on the three surfaces, and the unread markers of             *)
(* apps/transactions/reads.py.                                             *)
(*                                                                         *)
(* A lifecycle move is kept here as far as it moves a request between      *)
(* readers, stamps it or writes into its thread; what the moves allow is   *)
(* module Lifecycle.  A message is two steps: its created_at is taken when *)
(* the row is saved and others see it when the transaction commits.  So is *)
(* a detail page: the view reads the thread and then calls mark_seen.      *)
(***************************************************************************)
EXTENDS Naturals, FiniteSets, FiniteSetsExt

CONSTANTS
  Requests,   \* request identities
  Desk,       \* Finance accounts
  Merchants,  \* merchants; a merchant's one account acts as it
  Client,     \* the client whose requests these are
  Uploads,    \* whether messages come without a file, with one, or both
  MaxTime,    \* bound: how many stamps a behaviour takes
  MaxPages,   \* bound: how many people have a page open at one time
  None        \* a null foreign key

Users == Desk \cup Merchants
People == Users \cup {Client}

ASSUME ConversationAssumption ==
  /\ Desk \cap Merchants = {}
  /\ Client \notin Users
  /\ None \notin Requests \cup People
  /\ Uploads \subseteq BOOLEAN
  /\ MaxTime \in Nat /\ MaxPages \in Nat

VARIABLES
  now,      \* the last stamp taken: every timezone.now() is later than the one before
  row,      \* the Request rows
  thread,   \* the messages committed to each request
  writing,  \* the message each person's transaction has stamped and not committed
  seen,     \* RequestRead: when each account last marked each request
  screen    \* what each person's browser shows

talk == <<now, row, thread, writing, seen, screen>>

-----------------------------------------------------------------------------
\* The statuses as far as a list or a badge tells them apart: "desk" is
\* submitted, under_review or pending, "acted" merchant_confirmed,
\* merchant_paid or credited, "ended" closed, rejected or cancelled.
AwaitingFinance == {"desk", "acted"}
OpenStatuses == AwaitingFinance \cup {"assigned"}
Status == OpenStatuses \cup {"absent", "ended"}

Time == 0..MaxTime

Row == [status: Status, assigned: Merchants \cup {None},
        submitted_at: Time, assigned_at: Time, merchant_actioned_at: Time]

\* No two messages have one stamp.  attachment: whether a file came with it.
Message == [created_at: Time, sender_role: {"client", "merchant", "finance"},
            sender_id: People, is_internal_note: BOOLEAN, attachment: BOOLEAN]

Written == [req: Requests, message: Message] \cup {None}

\* words: the messages on a detail page; files: the messages whose file its
\* list of files holds; rows: the requests in a list.  marked: mark_seen has run.
Screen == [kind: {"away", "detail", "queue"}, req: Requests \cup {None},
           words: SUBSET Message, files: SUBSET Message, rows: SUBSET Requests,
           marked: BOOLEAN]

Away == [kind |-> "away", req |-> None, words |-> {}, files |-> {},
         rows |-> {}, marked |-> FALSE]

TypeOK ==
  /\ now \in Time
  /\ row \in [Requests -> Row]
  /\ thread \in [Requests -> SUBSET Message]
  /\ writing \in [People -> Written]
  /\ seen \in [Users -> [Requests -> Time]]
  /\ screen \in [People -> Screen]

Init ==
  /\ now = 0
  /\ row = [r \in Requests |->
       [status |-> "absent", assigned |-> None, submitted_at |-> 0,
        assigned_at |-> 0, merchant_actioned_at |-> 0]]
  /\ thread = [r \in Requests |-> {}]
  /\ writing = [p \in People |-> None]
  /\ seen = [u \in Users |-> [r \in Requests |-> 0]]
  /\ screen = [p \in People |-> Away]

Tick == now < MaxTime /\ now' = now + 1

RoleOf(p) == IF p = Client THEN "client" ELSE IF p \in Desk THEN "finance" ELSE "merchant"

Said(p, note, file) ==
  [created_at |-> now + 1, sender_role |-> RoleOf(p), sender_id |-> p,
   is_internal_note |-> note, attachment |-> file]

-----------------------------------------------------------------------------
(***************************************************************************)
(* Who reads what.                                                         *)
(***************************************************************************)
\* fault: a note by a merchant is read by any merchant
VisibleNote(m, p) ==
  \/ p \in Desk
  \/ m.is_internal_note /\ p \in Merchants /\ m.sender_role = "merchant"
  \/ ~m.is_internal_note /\ (m.sender_role = "merchant" /\ p \in Merchants => m.sender_id = p)

is_visible_to(m, p) ==
  \/ p \in Desk
  \/ p \in Merchants /\ m.sender_role = "merchant" /\ m.sender_id = p
  \/ ~m.is_internal_note /\ ~(p \in Merchants /\ m.sender_role = "merchant")

\* The client's: every request here is its.
find(r) == row[r].status # "absent"

\* The desk's whole table; requests_for and request_or_none for a merchant.
InScope(p, r) ==
  /\ find(r)
  /\ p \in Merchants => row[r].assigned = p

Words(p, r) == {m \in thread[r] : is_visible_to(m, p)}

\* Both detail payloads list request.attachments.all().
Files(p, r) == {m \in thread[r] : m.attachment}

Queue(p) == {r \in Requests : InScope(p, r) /\ row[r].status \in OpenStatuses}

(***************************************************************************)
(* Who has something to read (annotate_activity).                          *)
(***************************************************************************)
\* fault: the desk's own messages count for the desk
IncomingAll(u, m) == m.sender_role # RoleOf(u) \/ u \in Desk

INCOMING_SENDERS(u, m) == m.sender_role # RoleOf(u)

Incoming(u, r) == {m \in thread[r] : INCOMING_SENDERS(u, m) /\ ~m.is_internal_note}

seen_at(u, r) == seen[u][r]

_base_event(u, r) ==
  LET at == IF u \in Merchants THEN row[r].assigned_at ELSE row[r].merchant_actioned_at
  IN IF at = 0 THEN row[r].submitted_at ELSE at

last_activity_at(u, r) ==
  Max({_base_event(u, r)} \cup {m.created_at : m \in Incoming(u, r)})

is_unread(u, r) == seen_at(u, r) = 0 \/ seen_at(u, r) < last_activity_at(u, r)

\* The pulse counts over what is in flight: the desk's own turn, or all that
\* is open with the merchant.
Badge(u) ==
  Cardinality({r \in Queue(u) : is_unread(u, r)
                                /\ (u \in Desk => row[r].status \in AwaitingFinance)})

latest_activity(u) ==
  <<Max({0} \cup {last_activity_at(u, r) : r \in Queue(u)}), Cardinality(Queue(u))>>

-----------------------------------------------------------------------------
(***************************************************************************)
(* The moves of a request.                                                 *)
(***************************************************************************)
\* create_request, and auto_route in the same transaction when it can place a deposit.
Submit(r) ==
  /\ row[r].status = "absent"
  /\ Tick
  /\ \E m \in Merchants \cup {None} :
       row' = [row EXCEPT ![r] =
         [status |-> IF m = None THEN "desk" ELSE "assigned", assigned |-> m,
          submitted_at |-> now + 1, assigned_at |-> IF m = None THEN 0 ELSE now + 1,
          merchant_actioned_at |-> 0]]
  /\ UNCHANGED <<thread, writing, seen, screen>>

Route(r, m) ==
  /\ row[r].status \in {"desk", "assigned"}
  /\ Tick
  /\ row' = [row EXCEPT ![r].status = "assigned", ![r].assigned = m,
                        ![r].assigned_at = now + 1]
  /\ UNCHANGED <<thread, writing, seen, screen>>

\* confirm and pay
Act(m, r) ==
  /\ row[r].status = "assigned" /\ row[r].assigned = m
  /\ Tick
  /\ row' = [row EXCEPT ![r].status = "acted", ![r].merchant_actioned_at = now + 1]
  /\ UNCHANGED <<thread, writing, seen, screen>>

\* fault: what is handed back has a status no list holds
HandBackNowhere(m, r) ==
  /\ row[r].status = "assigned" /\ row[r].assigned = m
  /\ Tick
  /\ row' = [row EXCEPT ![r].status = "returned", ![r].assigned = None]
  /\ thread' = [thread EXCEPT ![r] = @ \cup {Said(m, TRUE, FALSE)}]
  /\ UNCHANGED <<writing, seen, screen>>

\* The reason of hand_back and of park is a note, in the move's transaction.
HandBack(m, r) ==
  /\ row[r].status = "assigned" /\ row[r].assigned = m
  /\ Tick
  /\ row' = [row EXCEPT ![r].status = "desk", ![r].assigned = None]
  /\ thread' = [thread EXCEPT ![r] = @ \cup {Said(m, TRUE, FALSE)}]
  /\ UNCHANGED <<writing, seen, screen>>

\* park leaves the request with the merchant it was assigned to.
Park(d, r) ==
  /\ row[r].status \in {"desk", "assigned", "acted"}
  /\ Tick
  /\ row' = [row EXCEPT ![r].status = "desk"]
  /\ thread' = [thread EXCEPT ![r] = @ \cup {Said(d, TRUE, FALSE)}]
  /\ UNCHANGED <<writing, seen, screen>>

\* reject and cancel, whose reason everybody reads; by the merchant, reject alone.
Reject(u, r) ==
  /\ row[r].status \in OpenStatuses
  /\ u \in Merchants => row[r].assigned = u
  /\ Tick
  /\ row' = [row EXCEPT ![r].status = "ended"]
  /\ thread' = [thread EXCEPT ![r] = @ \cup {Said(u, FALSE, FALSE)}]
  /\ UNCHANGED <<writing, seen, screen>>

Close(r) ==
  /\ row[r].status = "acted"
  /\ row' = [row EXCEPT ![r].status = "ended"]
  /\ UNCHANGED <<now, thread, writing, seen, screen>>

-----------------------------------------------------------------------------
(***************************************************************************)
(* Writing.  A surface's view finds the request, then messaging.post       *)
(* stores the file and the message in one transaction.  The row is not     *)
(* locked, so the request may be routed away before the commit; any        *)
(* status will do.                                                         *)
(***************************************************************************)
post(p, r, note, file) ==
  /\ writing[p] = None
  /\ Tick
  /\ writing' = [writing EXCEPT ![p] = [req |-> r, message |-> Said(p, note, file)]]
  /\ UNCHANGED <<row, thread, seen, screen>>

\* The desk's form offers a note and a file side by side; a merchant's, no note.
FinanceMessageForm == [is_internal_note: BOOLEAN, attachment: Uploads]
MerchantMessageForm == [attachment: Uploads]

DeskWrites(d, r) ==
  /\ InScope(d, r)
  /\ \E form \in FinanceMessageForm : post(d, r, form.is_internal_note, form.attachment)

MerchantWrites(m, r) ==
  /\ InScope(m, r)
  /\ \E form \in MerchantMessageForm : post(m, r, FALSE, form.attachment)

\* The client's message comes without a form.
ClientWrites(r) ==
  /\ find(r)
  /\ \E file \in Uploads : post(Client, r, FALSE, file)

Commit(p) ==
  /\ writing[p] # None
  /\ thread' = [thread EXCEPT ![writing[p].req] = @ \cup {writing[p].message}]
  /\ writing' = [writing EXCEPT ![p] = None]
  /\ UNCHANGED <<now, row, seen, screen>>

-----------------------------------------------------------------------------
(***************************************************************************)
(* Reading.                                                                *)
(***************************************************************************)
Detail(p, r) ==
  [kind |-> "detail", req |-> r, words |-> Words(p, r), files |-> Files(p, r),
   rows |-> {}, marked |-> FALSE]

Seated(p) == Cardinality({q \in People \ {p} : screen[q].kind # "away"}) < MaxPages

\* The detail view's reads.  A client's page is asked for by flow.js.
Open(p, r) ==
  /\ InScope(p, r) /\ Seated(p)
  /\ screen' = [screen EXCEPT ![p] = Detail(p, r)]
  /\ UNCHANGED <<now, row, thread, writing, seen>>

\* fault: one member of the desk marks for all of it
MarkForAll(u) ==
  /\ screen[u].kind = "detail" /\ ~screen[u].marked
  /\ Tick
  /\ seen' = [v \in Users |-> IF RoleOf(v) = RoleOf(u)
                              THEN [seen[v] EXCEPT ![screen[u].req] = now + 1] ELSE seen[v]]
  /\ screen' = [screen EXCEPT ![u].marked = TRUE]
  /\ UNCHANGED <<row, thread, writing>>

\* The rest of the same view: update_or_create stamps the moment it runs.
mark_seen(u) ==
  /\ screen[u].kind = "detail" /\ ~screen[u].marked
  /\ Tick
  /\ seen' = [seen EXCEPT ![u][screen[u].req] = now + 1]
  /\ screen' = [screen EXCEPT ![u].marked = TRUE]
  /\ UNCHANGED <<row, thread, writing>>

List(u) == [Away EXCEPT !.kind = "queue", !.rows = Queue(u), !.marked = TRUE]

OpenQueue(u) ==
  /\ Seated(u)
  /\ screen' = [screen EXCEPT ![u] = List(u)]
  /\ UNCHANGED <<now, row, thread, writing, seen>>

Leave(p) ==
  /\ screen[p].kind # "away"
  /\ screen' = [screen EXCEPT ![p] = Away]
  /\ UNCHANGED <<now, row, thread, writing, seen>>

Move ==
  \E r \in Requests :
    \/ Submit(r)
    \/ \E m \in Merchants : Route(r, m) \/ Act(m, r) \/ HandBack(m, r)
    \/ \E d \in Desk : Park(d, r)
    \/ \E u \in Users : Reject(u, r)
    \/ Close(r)

Talk ==
  \/ \E r \in Requests :
       \/ \E d \in Desk : DeskWrites(d, r)
       \/ \E m \in Merchants : MerchantWrites(m, r)
       \/ ClientWrites(r)
  \/ \E p \in People : Commit(p)

Read ==
  \/ \E p \in People, r \in Requests : Open(p, r)
  \/ \E u \in Users : mark_seen(u) \/ OpenQueue(u)
  \/ \E p \in People : Leave(p)

Next == Move \/ Talk \/ Read

Spec == Init /\ [][Next]_talk

-----------------------------------------------------------------------------
(***************************************************************************)
(* Properties.                                                             *)
(***************************************************************************)
\* No screen, however it was filled and whoever holds the request meanwhile,
\* carries the words of one merchant to another, of a desk's note past the
\* desk, or of any note to the client: also when the writer's transaction
\* commits after the request was routed away (messaging.py, is_visible_to).
WordsStayWithReaders ==
  \A p \in People \ Desk : \A m \in screen[p].words :
    /\ m.sender_role = "merchant" /\ p \in Merchants => m.sender_id = p
    /\ m.is_internal_note => m.sender_id = p

\* Nothing another person does turns a request read: while it stays in the
\* open list of an account, only that account's own page clears its badge
\* (reads.py: a marker per user, and stamps that never go back).
OnlyOwnEyesClear ==
  [][\A u \in Users : \A r \in Requests :
       is_unread(u, r) /\ ~is_unread(u, r)' =>
         /\ screen[u].kind = "detail" /\ screen[u].req = r
         /\ seen'[u][r] > seen[u][r]]_talk

\* Nobody is woken by themselves: what turns a request unread for an account
\* that had read it is the client's or the other side's doing, and is either
\* an assignment to it, its merchant's move, or a message it can read
\* (reads.py, INCOMING_SENDERS and _base_event).
WokenByOthers ==
  [][\A u \in Users : \A r \in Requests :
       ~is_unread(u, r) /\ is_unread(u, r)' =>
         \/ u \in Merchants /\ row'[r].assigned_at > row[r].assigned_at
         \/ u \in Desk /\ row'[r].merchant_actioned_at > row[r].merchant_actioned_at
         \/ \E m \in thread'[r] \ thread[r] :
              /\ m.sender_role # RoleOf(u)
              /\ is_visible_to(m, u)]_talk

\* What messaging.py says of a note: it never leaves the desk, and nobody else
\* is told one exists.  The lists of files hold a note's file for everybody.
NoteStaysAtDesk ==
  \A p \in People \ Desk : \A m \in screen[p].words \cup screen[p].files :
    m.is_internal_note => m.sender_id = p
=============================================================================
