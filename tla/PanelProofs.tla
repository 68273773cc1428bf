----------------------------- MODULE PanelProofs -----------------------------
(***************************************************************************)
(* Theorems about Panel, and the Conversation it runs over, for any number *)
(* of requests, people, messages, stamps and pages polling: who is shown   *)
(* which words, what turns a request read or unread, and that a page goes  *)
(* on asking.                                                              *)
(***************************************************************************)
EXTENDS Panel, FiniteSetTheorems, WellFoundedInduction, TLAPS

(***************************************************************************)
(* No stamp is ahead of the clock; what is marked or shown in detail was   *)
(* submitted.                                                              *)
(***************************************************************************)
Dated(r) ==
  /\ row[r].submitted_at <= now
  /\ row[r].assigned_at <= now
  /\ row[r].merchant_actioned_at <= now
  /\ \A u \in Users : seen[u][r] <= now
  /\ row[r].status = "absent" => \A u \in Users : seen[u][r] = 0

Opened(p) ==
  screen[p].kind = "detail" =>
    /\ screen[p].req \in Requests
    /\ row[screen[p].req].status # "absent"

TalkInv ==
  /\ TypeOK
  /\ \A r \in Requests : Dated(r)
  /\ \A p \in People : Opened(p)

-----------------------------------------------------------------------------
(* A bounded, non-empty set of naturals has a greatest element, and Max is *)
(* it.                                                                     *)
LEMMA MaxIsGreatest ==
  ASSUME NEW n \in Nat, NEW S \in SUBSET (0 .. n), S # {}
  PROVE  Max(S) \in S /\ \A y \in S : y <= Max(S)
<1> DEFINE T == {n - x : x \in S}
           Less == {ss \in Nat \X Nat : ss[1] < ss[2]}
<1>1. T \subseteq Nat /\ T # {}
  <2>1. \A x \in S : n - x \in Nat
    OBVIOUS
  <2>2. PICK x \in S : TRUE
    OBVIOUS
  <2>3. n - x \in T
    BY <2>2
  <2> QED
    BY <2>1, <2>3
<1>2. IsWellFoundedOn(Less, Nat)
  BY NatLessThanWellFounded DEF OpToRel
<1>3. PICK t \in T : \A y \in T : ~ (<<y, t>> \in Less)
  <2> HIDE DEF T, Less
  <2> QED
    BY <1>1, <1>2, WFMin
<1>4. \A y \in T : t <= y
  <2> TAKE y \in T
  <2>1. t \in Nat /\ y \in Nat /\ ~ (<<y, t>> \in Less)
    BY <1>1, <1>3
  <2>2. ~ (y < t)
    BY <2>1
  <2> HIDE DEF T, Less
  <2> QED
    BY <2>1, <2>2
<1>5. PICK x \in S : t = n - x
  OBVIOUS
<1>6. \A y \in S : y <= x
  BY <1>4, <1>5
<1>7. \E z \in S : \A y \in S : z >= y
  BY <1>5, <1>6
<1> QED
  BY <1>7 DEF Max

(* The last activity is the greatest of the base event and the incoming    *)
(* messages, before a step ...                                             *)
LEMMA Activity ==
  ASSUME TypeOK, NEW u \in Users, NEW r \in Requests
  PROVE  LET last == last_activity_at(u, r)
             base == _base_event(u, r)
             incoming == Incoming(u, r)
         IN  /\ last \in Time /\ base \in Time /\ base <= last
             /\ \A m \in incoming : m.created_at \in Time /\ m.created_at <= last
             /\ last = base \/ \E m \in incoming : last = m.created_at
<1> DEFINE base == _base_event(u, r)
           incoming == Incoming(u, r)
           stamps == {base} \cup {m.created_at : m \in incoming}
<1>1. base \in Time
  BY DEF TypeOK, Row, _base_event
<1>2. \A m \in incoming : m.created_at \in Time
  BY DEF TypeOK, Message, Incoming
<1>3. stamps \subseteq 0 .. MaxTime /\ stamps # {}
  BY <1>1, <1>2 DEF Time
<1>4. MaxTime \in Nat
  BY ConversationAssumption
<1>5. last_activity_at(u, r) = Max(stamps)
  BY DEF last_activity_at
<1> HIDE DEF stamps
<1>6. Max(stamps) \in stamps /\ \A y \in stamps : y <= Max(stamps)
  BY <1>3, <1>4, MaxIsGreatest
<1> USE DEF stamps
<1>7. \A m \in incoming : m.created_at <= Max(stamps)
  BY <1>6
<1> QED
  BY <1>1, <1>2, <1>3, <1>5, <1>6, <1>7 DEF Time

(* ... and after it.                                                       *)
LEMMA ActivityNext ==
  ASSUME TypeOK', NEW u \in Users, NEW r \in Requests
  PROVE  LET last == last_activity_at(u, r)'
             base == _base_event(u, r)'
             incoming == Incoming(u, r)'
         IN  /\ last \in Time /\ base \in Time /\ base <= last
             /\ \A m \in incoming : m.created_at \in Time /\ m.created_at <= last
             /\ last = base \/ \E m \in incoming : last = m.created_at
<1> DEFINE base == _base_event(u, r)'
           incoming == Incoming(u, r)'
           stamps == {base} \cup {m.created_at : m \in incoming}
<1>1. base \in Time
  BY DEF TypeOK, Row, _base_event
<1>2. \A m \in incoming : m.created_at \in Time
  BY DEF TypeOK, Message, Incoming
<1>3. stamps \subseteq 0 .. MaxTime /\ stamps # {}
  BY <1>1, <1>2 DEF Time
<1>4. MaxTime \in Nat
  BY ConversationAssumption
<1>5. last_activity_at(u, r)' = Max(stamps)
  BY DEF last_activity_at
<1> HIDE DEF stamps
<1>6. Max(stamps) \in stamps /\ \A y \in stamps : y <= Max(stamps)
  BY <1>3, <1>4, MaxIsGreatest
<1> USE DEF stamps
<1>7. \A m \in incoming : m.created_at <= Max(stamps)
  BY <1>6
<1> QED
  BY <1>1, <1>2, <1>3, <1>5, <1>6, <1>7 DEF Time

-----------------------------------------------------------------------------
(* What is said is a message, stamped by the tick it is said in.           *)
LEMMA SaidTyped ==
  ASSUME TypeOK, Tick, NEW p \in People, NEW note \in BOOLEAN, NEW file \in BOOLEAN
  PROVE  /\ Said(p, note, file) \in Message
         /\ now' \in Time /\ now < now' /\ now' = now + 1 /\ now \in Nat
<1>1. now \in Nat /\ now + 1 \in Time /\ now' = now + 1
  BY ConversationAssumption DEF TypeOK, Time, Tick
<1>2. RoleOf(p) \in {"client", "merchant", "finance"}
  BY DEF RoleOf
<1> QED
  BY <1>1, <1>2 DEF Said, Message

(* A move of one submitted request, stamped no later than the clock, keeps *)
(* the invariant.                                                          *)
LEMMA RowMoved ==
  ASSUME TalkInv, NEW r \in Requests, NEW new \in Row,
         row' = [row EXCEPT ![r] = new], new.status # "absent",
         now' \in Time, now <= now', new.submitted_at <= now',
         new.assigned_at <= now', new.merchant_actioned_at <= now',
         thread' \in [Requests -> SUBSET Message],
         UNCHANGED <<writing, seen, screen>>
  PROVE  TalkInv'
<1>1. TypeOK'
  BY DEF TalkInv, TypeOK
<1>2. ASSUME NEW q \in Requests PROVE Dated(q)'
  <2>1. /\ now \in Int /\ now' \in Int
        /\ \A u \in Users : seen[u][q] \in Int
        /\ row[q].submitted_at \in Int /\ row[q].assigned_at \in Int
        /\ row[q].merchant_actioned_at \in Int
    BY DEF TalkInv, TypeOK, Row, Time
  <2>2. Dated(q)
    BY DEF TalkInv
  <2>3. CASE q = r
    BY <2>1, <2>2, <2>3 DEF TalkInv, TypeOK, Dated
  <2>4. CASE q # r
    BY <2>1, <2>2, <2>4 DEF TalkInv, TypeOK, Dated
  <2> QED
    BY <2>3, <2>4
<1>3. ASSUME NEW p \in People PROVE Opened(p)'
  BY DEF TalkInv, TypeOK, Opened
<1> QED
  BY <1>1, <1>2, <1>3 DEF TalkInv

(* A thread that takes one more message is a thread.                       *)
LEMMA ThreadTyped ==
  ASSUME TypeOK, NEW r \in Requests, NEW m \in Message,
         thread' = [thread EXCEPT ![r] = @ \cup {m}]
  PROVE  thread' \in [Requests -> SUBSET Message]
BY DEF TypeOK

LEMMA MoveKeeps ==
  ASSUME TalkInv, Move
  PROVE  TalkInv'
<1>0. \A r \in Requests : /\ row[r] \in Row
                          /\ row[r].submitted_at <= now /\ row[r].assigned_at <= now
                          /\ row[r].merchant_actioned_at <= now
                          /\ row[r].submitted_at \in Nat /\ row[r].assigned_at \in Nat
                          /\ row[r].merchant_actioned_at \in Nat /\ now \in Nat
  BY DEF TalkInv, TypeOK, Dated, Row, Time
<1>1. /\ \A p \in Users : p \in People
      /\ \A p \in Desk \cup Merchants : p \in Users
  BY DEF People, Users
<1>2. ASSUME NEW r \in Requests, Submit(r) PROVE TalkInv'
  <2>1. PICK m \in Merchants \cup {None} :
          row' = [row EXCEPT ![r] =
            [status |-> IF m = None THEN "desk" ELSE "assigned", assigned |-> m,
             submitted_at |-> now + 1, assigned_at |-> IF m = None THEN 0 ELSE now + 1,
             merchant_actioned_at |-> 0]]
    BY <1>2 DEF Submit
  <2> DEFINE new == [status |-> IF m = None THEN "desk" ELSE "assigned", assigned |-> m,
                     submitted_at |-> now + 1, assigned_at |-> IF m = None THEN 0 ELSE now + 1,
                     merchant_actioned_at |-> 0]
  <2>2. /\ now \in Nat /\ now' = now + 1 /\ now' \in Time /\ 0 \in Time
        /\ thread' = thread /\ UNCHANGED <<writing, seen, screen>>
    BY <1>2, ConversationAssumption DEF Submit, Tick, TalkInv, TypeOK, Time
  <2>3. /\ new \in Row /\ new.status # "absent" /\ new.submitted_at <= now'
        /\ new.assigned_at <= now' /\ new.merchant_actioned_at <= now'
    BY <2>2 DEF Row, Status, OpenStatuses, AwaitingFinance
  <2>4. thread' \in [Requests -> SUBSET Message] /\ now <= now'
    BY <2>2 DEF TalkInv, TypeOK
  <2> HIDE DEF new
  <2> QED
    BY <2>1, <2>2, <2>3, <2>4, RowMoved DEF new
<1>3. ASSUME NEW r \in Requests, NEW m \in Merchants, Route(r, m) PROVE TalkInv'
  <2> DEFINE new == [row[r] EXCEPT !.status = "assigned", !.assigned = m,
                                   !.assigned_at = now + 1]
  <2>1. /\ UNCHANGED <<writing, seen, screen>>
        /\ row' = [row EXCEPT ![r] = new]
    BY <1>0, <1>3 DEF Route, TalkInv, TypeOK
  <2>2. now' = now + 1 /\ now' \in Time
    BY <1>0, <1>3, ConversationAssumption DEF Route, Tick, Time
  <2>3. /\ new \in Row /\ new.status # "absent" /\ new.submitted_at = row[r].submitted_at
        /\ new.assigned_at = now'
        /\ new.merchant_actioned_at = row[r].merchant_actioned_at
    BY <1>0, <2>2 DEF Row, Status, OpenStatuses, AwaitingFinance
  <2>4. thread' \in [Requests -> SUBSET Message]
    BY <1>3 DEF Route, TalkInv, TypeOK
  <2> HIDE DEF new
  <2>5. /\ new.submitted_at <= now' /\ new.assigned_at <= now'
        /\ new.merchant_actioned_at <= now' /\ now <= now'
    BY <1>0, <2>2, <2>3
  <2> QED
    BY <2>1, <2>2, <2>3, <2>4, <2>5, RowMoved
<1>4. ASSUME NEW r \in Requests, NEW m \in Merchants, Act(m, r) PROVE TalkInv'
  <2> DEFINE new == [row[r] EXCEPT !.status = "acted", !.merchant_actioned_at = now + 1]
  <2>1. /\ UNCHANGED <<writing, seen, screen>>
        /\ row' = [row EXCEPT ![r] = new]
    BY <1>0, <1>4 DEF Act, TalkInv, TypeOK
  <2>2. now' = now + 1 /\ now' \in Time
    BY <1>0, <1>4, ConversationAssumption DEF Act, Tick, Time
  <2>3. /\ new \in Row /\ new.status # "absent" /\ new.submitted_at = row[r].submitted_at
        /\ new.assigned_at = row[r].assigned_at
        /\ new.merchant_actioned_at = now'
    BY <1>0, <2>2 DEF Row, Status, OpenStatuses, AwaitingFinance
  <2>4. thread' \in [Requests -> SUBSET Message]
    BY <1>4 DEF Act, TalkInv, TypeOK
  <2> HIDE DEF new
  <2>5. /\ new.submitted_at <= now' /\ new.assigned_at <= now'
        /\ new.merchant_actioned_at <= now' /\ now <= now'
    BY <1>0, <2>2, <2>3
  <2> QED
    BY <2>1, <2>2, <2>3, <2>4, <2>5, RowMoved
<1>5. ASSUME NEW r \in Requests, NEW m \in Merchants, HandBack(m, r) PROVE TalkInv'
  <2> DEFINE new == [row[r] EXCEPT !.status = "desk", !.assigned = None]
  <2>1. /\ UNCHANGED <<writing, seen, screen>>
        /\ row' = [row EXCEPT ![r] = new]
    BY <1>0, <1>5 DEF HandBack, TalkInv, TypeOK
  <2>2. /\ new \in Row /\ new.status # "absent" /\ new.submitted_at = row[r].submitted_at
        /\ new.assigned_at = row[r].assigned_at
        /\ new.merchant_actioned_at = row[r].merchant_actioned_at
    BY <1>0 DEF Row, Status, OpenStatuses, AwaitingFinance
  <2>3. /\ Said(m, TRUE, FALSE) \in Message /\ now' \in Time /\ now' = now + 1
    BY <1>1, <1>5, SaidTyped DEF HandBack, TalkInv
  <2>4. thread' \in [Requests -> SUBSET Message]
    BY <1>5, <2>3, ThreadTyped DEF HandBack, TalkInv
  <2> HIDE DEF new
  <2>5. /\ new.submitted_at <= now' /\ new.assigned_at <= now'
        /\ new.merchant_actioned_at <= now' /\ now <= now'
    BY <1>0, <2>2, <2>3
  <2> QED
    BY <2>1, <2>2, <2>3, <2>4, <2>5, RowMoved
<1>6. ASSUME NEW r \in Requests, NEW d \in Desk, Park(d, r) PROVE TalkInv'
  <2> DEFINE new == [row[r] EXCEPT !.status = "desk"]
  <2>1. /\ UNCHANGED <<writing, seen, screen>>
        /\ row' = [row EXCEPT ![r] = new]
    BY <1>0, <1>6 DEF Park, TalkInv, TypeOK
  <2>2. /\ new \in Row /\ new.status # "absent" /\ new.submitted_at = row[r].submitted_at
        /\ new.assigned_at = row[r].assigned_at
        /\ new.merchant_actioned_at = row[r].merchant_actioned_at
    BY <1>0 DEF Row, Status, OpenStatuses, AwaitingFinance
  <2>3. /\ Said(d, TRUE, FALSE) \in Message /\ now' \in Time /\ now' = now + 1
    BY <1>1, <1>6, SaidTyped DEF Park, TalkInv
  <2>4. thread' \in [Requests -> SUBSET Message]
    BY <1>6, <2>3, ThreadTyped DEF Park, TalkInv
  <2> HIDE DEF new
  <2>5. /\ new.submitted_at <= now' /\ new.assigned_at <= now'
        /\ new.merchant_actioned_at <= now' /\ now <= now'
    BY <1>0, <2>2, <2>3
  <2> QED
    BY <2>1, <2>2, <2>3, <2>4, <2>5, RowMoved
<1>7. ASSUME NEW r \in Requests, NEW u \in Users, Reject(u, r) PROVE TalkInv'
  <2> DEFINE new == [row[r] EXCEPT !.status = "ended"]
  <2>1. /\ UNCHANGED <<writing, seen, screen>>
        /\ row' = [row EXCEPT ![r] = new]
    BY <1>0, <1>7 DEF Reject, TalkInv, TypeOK
  <2>2. /\ new \in Row /\ new.status # "absent" /\ new.submitted_at = row[r].submitted_at
        /\ new.assigned_at = row[r].assigned_at
        /\ new.merchant_actioned_at = row[r].merchant_actioned_at
    BY <1>0 DEF Row, Status, OpenStatuses, AwaitingFinance
  <2>3. /\ Said(u, FALSE, FALSE) \in Message /\ now' \in Time /\ now' = now + 1
    BY <1>1, <1>7, SaidTyped DEF Reject, TalkInv
  <2>4. thread' \in [Requests -> SUBSET Message]
    BY <1>7, <2>3, ThreadTyped DEF Reject, TalkInv
  <2> HIDE DEF new
  <2>5. /\ new.submitted_at <= now' /\ new.assigned_at <= now'
        /\ new.merchant_actioned_at <= now' /\ now <= now'
    BY <1>0, <2>2, <2>3
  <2> QED
    BY <2>1, <2>2, <2>3, <2>4, <2>5, RowMoved
<1>8. ASSUME NEW r \in Requests, Close(r) PROVE TalkInv'
  <2> DEFINE new == [row[r] EXCEPT !.status = "ended"]
  <2>1. /\ UNCHANGED <<now, thread, writing, seen, screen>>
        /\ row' = [row EXCEPT ![r] = new]
    BY <1>0, <1>8 DEF Close, TalkInv, TypeOK
  <2>2. /\ new \in Row /\ new.status # "absent" /\ new.submitted_at = row[r].submitted_at
        /\ new.assigned_at = row[r].assigned_at
        /\ new.merchant_actioned_at = row[r].merchant_actioned_at
    BY <1>0 DEF Row, Status, OpenStatuses, AwaitingFinance
  <2>3. now' \in Time /\ thread' \in [Requests -> SUBSET Message]
    BY <2>1 DEF TalkInv, TypeOK
  <2> HIDE DEF new
  <2>4. /\ new.submitted_at <= now' /\ new.assigned_at <= now'
        /\ new.merchant_actioned_at <= now' /\ now <= now'
    BY <1>0, <2>1, <2>2
  <2> QED
    BY <2>1, <2>2, <2>3, <2>4, RowMoved
<1> QED
  BY <1>2, <1>3, <1>4, <1>5, <1>6, <1>7, <1>8 DEF Move

(* A message is stamped and committed.                                     *)
LEMMA PostKeeps ==
  ASSUME TalkInv, NEW p \in People, NEW r \in Requests, NEW note \in BOOLEAN,
         NEW file \in BOOLEAN, post(p, r, note, file)
  PROVE  TalkInv'
<1>1. /\ Said(p, note, file) \in Message
      /\ now' \in Time /\ now < now' /\ now' = now + 1 /\ now \in Nat
  BY SaidTyped DEF TalkInv, post
<1>2. [req |-> r, message |-> Said(p, note, file)] \in Written
  BY <1>1 DEF Written
<1>3. UNCHANGED <<row, thread, seen, screen>>
  BY DEF post
<1>4. TypeOK'
  BY <1>1, <1>2, <1>3 DEF TalkInv, TypeOK, post
<1>5. ASSUME NEW q \in Requests PROVE Dated(q)'
  <2>1. /\ now \in Int /\ now' \in Int
        /\ \A u \in Users : seen[u][q] \in Int
        /\ row[q].submitted_at \in Int /\ row[q].assigned_at \in Int
        /\ row[q].merchant_actioned_at \in Int
    BY <1>1 DEF TalkInv, TypeOK, Row, Time
  <2>2. Dated(q)
    BY DEF TalkInv
  <2> QED
    BY <1>1, <1>3, <2>1, <2>2 DEF Dated
<1>6. ASSUME NEW q \in People PROVE Opened(q)'
  BY <1>3 DEF TalkInv, Opened
<1> QED
  BY <1>4, <1>5, <1>6 DEF TalkInv

LEMMA CommitKeeps ==
  ASSUME TalkInv, NEW p \in People, Commit(p)
  PROVE  TalkInv'
<1>1. writing[p].req \in Requests /\ writing[p].message \in Message
  <2>1. writing[p] \in Written /\ writing[p] # None
    BY DEF TalkInv, TypeOK, Commit
  <2> QED
    BY <2>1 DEF Written
<1>2. thread' \in [Requests -> SUBSET Message]
  BY <1>1, ThreadTyped DEF TalkInv, Commit
<1>3. writing' \in [People -> Written]
  BY DEF TalkInv, TypeOK, Commit, Written
<1>4. UNCHANGED <<now, row, seen, screen>>
  BY DEF Commit
<1>5. TypeOK'
  BY <1>2, <1>3, <1>4 DEF TalkInv, TypeOK
<1>6. ASSUME NEW q \in Requests PROVE Dated(q)'
  BY <1>4 DEF TalkInv, Dated
<1>7. ASSUME NEW q \in People PROVE Opened(q)'
  BY <1>4 DEF TalkInv, Opened
<1> QED
  BY <1>5, <1>6, <1>7 DEF TalkInv

LEMMA TalkKeeps ==
  ASSUME TalkInv, Talk
  PROVE  TalkInv'
<1>1. Desk \subseteq People /\ Merchants \subseteq People /\ Client \in People
  BY DEF People, Users
<1>2. Uploads \subseteq BOOLEAN
  BY ConversationAssumption
<1>3. ASSUME NEW r \in Requests, NEW d \in Desk, DeskWrites(d, r) PROVE TalkInv'
  <2>1. PICK form \in FinanceMessageForm : post(d, r, form.is_internal_note, form.attachment)
    BY <1>3 DEF DeskWrites
  <2>2. form.is_internal_note \in BOOLEAN /\ form.attachment \in BOOLEAN
    BY <1>2 DEF FinanceMessageForm
  <2> QED
    BY <1>1, <2>1, <2>2, PostKeeps
<1>4. ASSUME NEW r \in Requests, NEW m \in Merchants, MerchantWrites(m, r) PROVE TalkInv'
  <2>1. PICK form \in MerchantMessageForm : post(m, r, FALSE, form.attachment)
    BY <1>4 DEF MerchantWrites
  <2>2. form.attachment \in BOOLEAN
    BY <1>2 DEF MerchantMessageForm
  <2> QED
    BY <1>1, <2>1, <2>2, PostKeeps
<1>5. ASSUME NEW r \in Requests, ClientWrites(r) PROVE TalkInv'
  <2>1. PICK file \in Uploads : post(Client, r, FALSE, file)
    BY <1>5 DEF ClientWrites
  <2> QED
    BY <1>1, <1>2, <2>1, PostKeeps
<1> QED
  BY <1>3, <1>4, <1>5, CommitKeeps DEF Talk

(* A page somebody is shown changes nothing but their screen.              *)
LEMMA ScreenKeeps ==
  ASSUME TalkInv, NEW p \in People, NEW shown \in Screen,
         screen' = [screen EXCEPT ![p] = shown],
         shown.kind = "detail" => /\ shown.req \in Requests
                                  /\ row[shown.req].status # "absent",
         UNCHANGED <<now, row, thread, writing, seen>>
  PROVE  TalkInv'
<1>1. TypeOK'
  BY DEF TalkInv, TypeOK
<1>2. ASSUME NEW q \in Requests PROVE Dated(q)'
  BY DEF TalkInv, Dated
<1>3. ASSUME NEW q \in People PROVE Opened(q)'
  <2>1. Opened(q) /\ screen \in [People -> Screen]
    BY DEF TalkInv, TypeOK
  <2> QED
    BY <2>1 DEF Opened
<1> QED
  BY <1>1, <1>2, <1>3 DEF TalkInv

LEMMA MarkKeeps ==
  ASSUME TalkInv, NEW u \in Users, mark_seen(u)
  PROVE  TalkInv'
<1> DEFINE r == screen[u].req
<1>1. /\ now \in Nat /\ now' = now + 1 /\ now' \in Time
      /\ UNCHANGED <<row, thread, writing>>
      /\ u \in People /\ r \in Requests /\ row[r].status # "absent"
      /\ seen' = [seen EXCEPT ![u][r] = now + 1]
      /\ screen' = [screen EXCEPT ![u].marked = TRUE]
  <2>1. u \in People
    BY DEF People
  <2>2. Opened(u) /\ screen[u].kind = "detail"
    BY <2>1 DEF TalkInv, mark_seen
  <2>3. now \in Nat /\ now' = now + 1 /\ now' \in Time
    BY ConversationAssumption DEF TalkInv, TypeOK, Time, Tick, mark_seen
  <2> QED
    BY <2>1, <2>2, <2>3 DEF mark_seen, Opened
<1>2. seen' \in [Users -> [Requests -> Time]]
  BY <1>1 DEF TalkInv, TypeOK
<1>3. screen' \in [People -> Screen]
  BY <1>1 DEF TalkInv, TypeOK, Screen
<1>4. TypeOK'
  BY <1>1, <1>2, <1>3 DEF TalkInv, TypeOK
<1>5. ASSUME NEW q \in Requests PROVE Dated(q)'
  <2>1. /\ \A v \in Users : seen[v][q] \in Int
        /\ row[q].submitted_at \in Int /\ row[q].assigned_at \in Int
        /\ row[q].merchant_actioned_at \in Int
        /\ seen \in [Users -> [Requests -> Time]]
    BY DEF TalkInv, TypeOK, Row, Time
  <2>2. Dated(q)
    BY DEF TalkInv
  <2>3. \A v \in Users : seen'[v][q] = IF v = u /\ q = r THEN now + 1 ELSE seen[v][q]
    BY <1>1, <2>1
  <2> HIDE DEF r
  <2> QED
    BY <1>1, <2>1, <2>2, <2>3 DEF Dated
<1>6. ASSUME NEW q \in People PROVE Opened(q)'
  <2>1. /\ Opened(q) /\ screen \in [People -> Screen] /\ row' = row
        /\ screen' = [screen EXCEPT ![u].marked = TRUE]
    BY <1>1 DEF TalkInv, TypeOK
  <2>2. screen'[q].kind = screen[q].kind /\ screen'[q].req = screen[q].req
    BY <2>1 DEF Screen
  <2> QED
    BY <2>1, <2>2 DEF Opened
<1> QED
  BY <1>4, <1>5, <1>6 DEF TalkInv

LEMMA ReadKeeps ==
  ASSUME TalkInv, Read
  PROVE  TalkInv'
<1>1. Users \subseteq People
  BY DEF People
<1>2. ASSUME NEW p \in People, NEW r \in Requests, Open(p, r) PROVE TalkInv'
  <2>1. thread[r] \in SUBSET Message /\ row[r].status # "absent"
    BY <1>2 DEF TalkInv, TypeOK, Open, InScope, find
  <2>2. Words(p, r) \subseteq Message /\ Files(p, r) \subseteq Message
    BY <2>1 DEF Words, Files
  <2>3. /\ Detail(p, r) \in Screen /\ Detail(p, r).kind = "detail"
        /\ Detail(p, r).req = r
    BY <2>2 DEF Detail, Screen
  <2> QED
    BY <1>2, <2>1, <2>3, ScreenKeeps DEF Open
<1>3. ASSUME NEW u \in Users, OpenQueue(u) PROVE TalkInv'
  <2>1. Queue(u) \subseteq Requests
    BY DEF Queue
  <2>2. List(u) \in Screen /\ List(u).kind = "queue"
    BY <2>1 DEF List, Away, Screen
  <2> QED
    BY <1>1, <1>3, <2>2, ScreenKeeps DEF OpenQueue
<1>4. ASSUME NEW p \in People, Leave(p) PROVE TalkInv'
  <2>1. Away \in Screen /\ Away.kind = "away"
    BY DEF Away, Screen
  <2> QED
    BY <1>4, <2>1, ScreenKeeps DEF Leave
<1> QED
  BY <1>2, <1>3, <1>4, MarkKeeps DEF Read

LEMMA TalkStarts ==
  ASSUME Init
  PROVE  TalkInv
<1>1. 0 \in Time
  BY ConversationAssumption DEF Time
<1>2. TypeOK
  <2>1. row \in [Requests -> Row]
    BY <1>1 DEF Init, Row, Status
  <2>2. Away \in Screen
    BY DEF Away, Screen
  <2> QED
    BY <1>1, <2>1, <2>2 DEF Init, TypeOK, Written
<1>3. ASSUME NEW r \in Requests PROVE Dated(r)
  BY DEF Init, Dated
<1>4. ASSUME NEW p \in People PROVE Opened(p)
  BY DEF Init, Opened, Away
<1> QED
  BY <1>2, <1>3, <1>4 DEF TalkInv

LEMMA TalkStep ==
  ASSUME TalkInv, Next
  PROVE  TalkInv'
BY MoveKeeps, TalkKeeps, ReadKeeps DEF Next

-----------------------------------------------------------------------------
(***************************************************************************)
(* Who is shown which words.                                               *)
(***************************************************************************)
Fit(p, m) ==
  /\ m.sender_role = "merchant" /\ p \in Merchants => m.sender_id = p
  /\ m.is_internal_note => m.sender_id = p

(* What is_visible_to lets through to somebody outside the desk is theirs  *)
(* to read.                                                                *)
LEMMA VisibleIsFit ==
  ASSUME NEW p \in People \ Desk, NEW m \in Message, is_visible_to(m, p)
  PROVE  Fit(p, m)
BY DEF is_visible_to, Fit

(* A page somebody opens keeps all pages fit to be read.                   *)
LEMMA PageFit ==
  ASSUME TypeOK, WordsStayWithReaders, NEW q \in People, NEW page,
         screen' = [screen EXCEPT ![q] = page],
         q \notin Desk => \A m \in page.words : Fit(q, m)
  PROVE  WordsStayWithReaders'
<1>1. SUFFICES ASSUME NEW p \in People \ Desk, NEW m \in screen'[p].words PROVE Fit(p, m)
  BY DEF WordsStayWithReaders, Fit
<1>2. screen'[p] = IF p = q THEN page ELSE screen[p]
  BY DEF TypeOK
<1> QED
  BY <1>1, <1>2 DEF WordsStayWithReaders, Fit

LEMMA WordsStep ==
  ASSUME TalkInv, WordsStayWithReaders, Next
  PROVE  WordsStayWithReaders'
<1>1. TypeOK
  BY DEF TalkInv
<1>2. CASE screen' = screen
  BY <1>2 DEF WordsStayWithReaders
<1>3. ASSUME NEW p \in People, NEW r \in Requests, Open(p, r)
      PROVE  WordsStayWithReaders'
  <2>1. screen' = [screen EXCEPT ![p] = Detail(p, r)] /\ thread[r] \in SUBSET Message
    BY <1>1, <1>3 DEF Open, TypeOK
  <2>2. p \notin Desk => \A m \in Detail(p, r).words : Fit(p, m)
    BY <2>1, VisibleIsFit DEF Detail, Words
  <2> QED
    BY <1>1, <2>1, <2>2, PageFit
<1>4. ASSUME NEW u \in Users, mark_seen(u)
      PROVE  WordsStayWithReaders'
  <2>1. screen' = [screen EXCEPT ![u].marked = TRUE]
    BY <1>4 DEF mark_seen
  <2>2. \A p \in People : screen'[p].words = screen[p].words
    BY <1>1, <2>1 DEF TypeOK, Screen
  <2> QED
    BY <2>2 DEF WordsStayWithReaders
<1>5. ASSUME NEW u \in Users, OpenQueue(u)
      PROVE  WordsStayWithReaders'
  <2>1. screen' = [screen EXCEPT ![u] = List(u)] /\ List(u).words = {} /\ u \in People
    BY <1>5 DEF OpenQueue, List, Away, People
  <2> HIDE DEF List
  <2> QED
    BY <1>1, <2>1, PageFit
<1>6. ASSUME NEW p \in People, Leave(p)
      PROVE  WordsStayWithReaders'
  <2>1. screen' = [screen EXCEPT ![p] = Away] /\ Away.words = {}
    BY <1>6 DEF Leave, Away
  <2> HIDE DEF Away
  <2> QED
    BY <1>1, <2>1, PageFit
<1>7. CASE Move
  <2>1. screen' = screen
    BY <1>7 DEF Move, Submit, Route, Act, HandBack, Park, Reject, Close
  <2> QED
    BY <1>2, <2>1
<1>8. CASE Talk
  <2>1. screen' = screen
    BY <1>8 DEF Talk, DeskWrites, MerchantWrites, ClientWrites, post, Commit
  <2> QED
    BY <1>2, <2>1
<1> QED
  BY <1>3, <1>4, <1>5, <1>6, <1>7, <1>8 DEF Next, Read

-----------------------------------------------------------------------------
(***************************************************************************)
(* What turns a request read or unread.                                    *)
(***************************************************************************)
(* What a step may do to what a badge is computed from: messages are only  *)
(* added, a base event of a submitted request only moves forward and only  *)
(* by an assignment or a merchant's move, and only a page's own reader     *)
(* moves their marker, to a later stamp.                                   *)
Grown(r) ==
  /\ thread[r] \subseteq thread'[r]
  /\ row[r].status # "absent" =>
       /\ row'[r].submitted_at = row[r].submitted_at
       /\ row'[r].assigned_at \in {row[r].assigned_at, now + 1}
       /\ row'[r].merchant_actioned_at \in {row[r].merchant_actioned_at, now + 1}

Marked(u, r) ==
  \/ seen'[u][r] = seen[u][r]
  \/ /\ screen[u].kind = "detail" /\ screen[u].req = r
     /\ seen'[u][r] > seen[u][r]

LEMMA MoveGrows ==
  ASSUME TalkInv, Move, NEW r \in Requests
  PROVE  Grown(r) /\ seen' = seen
<1>0. /\ row[r] \in Row
      /\ row[r].submitted_at <= now /\ row[r].assigned_at <= now
      /\ row[r].merchant_actioned_at <= now
      /\ row[r].submitted_at \in Nat /\ row[r].assigned_at \in Nat
      /\ row[r].merchant_actioned_at \in Nat /\ now \in Nat
      /\ row \in [Requests -> Row] /\ thread \in [Requests -> SUBSET Message]
  BY DEF TalkInv, TypeOK, Dated, Row, Time
<1>1. PICK q \in Requests :
        \/ Submit(q)
        \/ \E m \in Merchants : Route(q, m) \/ Act(m, q) \/ HandBack(m, q)
        \/ \E d \in Desk : Park(d, q)
        \/ \E u \in Users : Reject(u, q)
        \/ Close(q)
  BY DEF Move
<1>2. CASE q # r
  <2>1. row'[r] = row[r] /\ thread'[r] = thread[r] /\ seen' = seen
    BY <1>0, <1>1, <1>2 DEF Submit, Route, Act, HandBack, Park, Reject, Close
  <2> QED
    BY <1>0, <2>1 DEF Grown
<1>3. CASE q = r /\ Submit(q)
  BY <1>0, <1>3 DEF Submit, Grown
<1>4. ASSUME NEW m \in Merchants, Route(r, m) PROVE Grown(r) /\ seen' = seen
  BY <1>0, <1>4 DEF Route, Row, Grown
<1>5. ASSUME NEW m \in Merchants, Act(m, r) PROVE Grown(r) /\ seen' = seen
  BY <1>0, <1>5 DEF Act, Row, Grown
<1>6. ASSUME NEW m \in Merchants, HandBack(m, r) PROVE Grown(r) /\ seen' = seen
  BY <1>0, <1>6 DEF HandBack, Row, Grown
<1>7. ASSUME NEW d \in Desk, Park(d, r) PROVE Grown(r) /\ seen' = seen
  BY <1>0, <1>7 DEF Park, Row, Grown
<1>8. ASSUME NEW u \in Users, Reject(u, r) PROVE Grown(r) /\ seen' = seen
  BY <1>0, <1>8 DEF Reject, Row, Grown
<1>9. CASE Close(r)
  BY <1>0, <1>9 DEF Close, Row, Grown
<1> QED
  BY <1>1, <1>2, <1>3, <1>4, <1>5, <1>6, <1>7, <1>8, <1>9

(* A step of the conversation, or one that only changes what is shown.     *)
Step == Next \/ UNCHANGED <<now, row, thread, writing, seen>>

LEMMA StepGrows ==
  ASSUME TalkInv, Step, NEW r \in Requests, NEW u \in Users
  PROVE  Grown(r) /\ Marked(u, r)
<1>0. /\ row[r].submitted_at \in Nat /\ row[r].assigned_at \in Nat
      /\ row[r].merchant_actioned_at \in Nat /\ now \in Nat
      /\ thread \in [Requests -> SUBSET Message] /\ seen \in [Users -> [Requests -> Time]]
  BY DEF TalkInv, TypeOK, Row, Time
<1>1. CASE Move
  BY <1>1, MoveGrows DEF Marked
<1>2. CASE Talk
  <2>1. row' = row /\ seen' = seen /\ thread[r] \subseteq thread'[r]
    BY <1>0, <1>2 DEF Talk, DeskWrites, MerchantWrites, ClientWrites, post, Commit
  <2> QED
    BY <1>0, <2>1 DEF Grown, Marked
<1>3. CASE \E v \in Users : mark_seen(v)
  <2>1. PICK v \in Users : mark_seen(v)
    BY <1>3
  <2>2. Grown(r)
    BY <1>0, <2>1 DEF mark_seen, Grown
  <2>3. CASE v = u /\ screen[v].req = r
    <3>1. seen'[u][r] = now + 1
      BY <1>0, <2>1, <2>3 DEF mark_seen
    <3>2. seen[u][r] <= now /\ seen[u][r] \in Int
      BY <1>0 DEF TalkInv, Dated, Time
    <3> QED
      BY <1>0, <2>1, <2>2, <2>3, <3>1, <3>2 DEF mark_seen, Marked
  <2>4. CASE ~(v = u /\ screen[v].req = r)
    BY <1>0, <2>1, <2>2, <2>4 DEF mark_seen, Marked
  <2> QED
    BY <2>3, <2>4
<1>4. CASE UNCHANGED <<now, row, thread, writing, seen>>
  BY <1>0, <1>4 DEF Grown, Marked
<1> QED
  BY <1>1, <1>2, <1>3, <1>4 DEF Step, Next, Read, Open, OpenQueue, Leave

(* A base event that moved moved forward, by an assignment for a merchant  *)
(* and by a merchant's move for the desk.                                  *)
LEMMA BaseGrows ==
  ASSUME TalkInv, NEW u \in Users, NEW r \in Requests, Grown(r),
         row[r].status # "absent"
  PROVE  /\ _base_event(u, r)' >= _base_event(u, r)
         /\ _base_event(u, r)' > _base_event(u, r) =>
              \/ u \in Merchants /\ row'[r].assigned_at > row[r].assigned_at
              \/ u \in Desk /\ row'[r].merchant_actioned_at > row[r].merchant_actioned_at
<1>1. /\ row[r].submitted_at \in Nat /\ row[r].assigned_at \in Nat
      /\ row[r].merchant_actioned_at \in Nat /\ now \in Nat
      /\ row[r].submitted_at <= now /\ row[r].assigned_at <= now
      /\ row[r].merchant_actioned_at <= now
  BY DEF TalkInv, TypeOK, Dated, Row, Time
<1>2. /\ row'[r].submitted_at = row[r].submitted_at
      /\ row'[r].assigned_at \in {row[r].assigned_at, now + 1}
      /\ row'[r].merchant_actioned_at \in {row[r].merchant_actioned_at, now + 1}
  BY DEF Grown
<1>3. CASE u \in Merchants
  BY <1>1, <1>2, <1>3 DEF _base_event
<1>4. CASE u \in Desk /\ u \notin Merchants
  BY <1>1, <1>2, <1>4 DEF _base_event
<1> QED
  BY <1>3, <1>4 DEF Users

(* Everybody's badge, step by step.                                        *)
LEMMA OnlyOwnEyesStep ==
  ASSUME TalkInv, TalkInv', Step, NEW u \in Users, NEW r \in Requests,
         is_unread(u, r), ~is_unread(u, r)'
  PROVE  /\ screen[u].kind = "detail" /\ screen[u].req = r
         /\ seen'[u][r] > seen[u][r]
<1> DEFINE last == last_activity_at(u, r)
           base == _base_event(u, r)
           base1 == _base_event(u, r)'
           last1 == last_activity_at(u, r)'
<1>1. SUFFICES ASSUME seen'[u][r] = seen[u][r] PROVE FALSE
  BY StepGrows DEF Marked
<1>2. /\ seen[u][r] \in Nat /\ seen[u][r] # 0 /\ ~(seen[u][r] < last1)
      /\ seen[u][r] < last
  BY <1>1 DEF is_unread, seen_at, TalkInv, TypeOK, Time
<1>3. row[r].status # "absent"
  BY <1>2 DEF TalkInv, Dated
<1>4. Grown(r) /\ TypeOK /\ TypeOK'
  BY StepGrows DEF TalkInv
<1>5. base1 >= base
  BY <1>3, <1>4, BaseGrows
<1>6. Incoming(u, r) \subseteq Incoming(u, r)'
  BY <1>4 DEF Grown, Incoming
<1>7. /\ last \in Time /\ base \in Time
      /\ last = base \/ \E m \in Incoming(u, r) : last = m.created_at
  BY <1>4, Activity
<1>8. /\ last1 \in Time /\ base1 \in Time /\ base1 <= last1
      /\ \A m \in Incoming(u, r)' : m.created_at <= last1
  BY <1>4, ActivityNext
<1> HIDE DEF last, base, last1, base1
<1>9. last <= last1
  BY <1>5, <1>6, <1>7, <1>8 DEF Time
<1> QED
  BY <1>2, <1>7, <1>8, <1>9 DEF Time

LEMMA WokenStep ==
  ASSUME TalkInv, TalkInv', Step, NEW u \in Users, NEW r \in Requests,
         ~is_unread(u, r), is_unread(u, r)'
  PROVE  \/ u \in Merchants /\ row'[r].assigned_at > row[r].assigned_at
         \/ u \in Desk /\ row'[r].merchant_actioned_at > row[r].merchant_actioned_at
         \/ \E m \in thread'[r] \ thread[r] :
              /\ m.sender_role # RoleOf(u)
              /\ is_visible_to(m, u)
<1> DEFINE last == last_activity_at(u, r)
           base == _base_event(u, r)
           base1 == _base_event(u, r)'
           last1 == last_activity_at(u, r)'
<1>1. /\ seen[u][r] \in Nat /\ seen'[u][r] \in Nat /\ seen[u][r] # 0
      /\ ~(seen[u][r] < last)
      /\ seen'[u][r] = 0 \/ seen'[u][r] < last1
  BY DEF is_unread, seen_at, TalkInv, TypeOK, Time
<1>2. row[r].status # "absent"
  BY <1>1 DEF TalkInv, Dated
<1>3. Grown(r) /\ TypeOK /\ TypeOK' /\ seen'[u][r] >= seen[u][r]
  BY <1>1, StepGrows DEF Marked, TalkInv
<1>4. /\ base1 >= base
      /\ base1 > base =>
           \/ u \in Merchants /\ row'[r].assigned_at > row[r].assigned_at
           \/ u \in Desk /\ row'[r].merchant_actioned_at > row[r].merchant_actioned_at
  BY <1>2, <1>3, BaseGrows
<1>5. /\ last \in Time /\ base \in Time /\ base <= last
      /\ \A m \in Incoming(u, r) : m.created_at <= last
  BY <1>3, Activity
<1>6. /\ last1 \in Time /\ base1 \in Time
      /\ last1 = base1 \/ \E m \in Incoming(u, r)' : last1 = m.created_at
  BY <1>3, ActivityNext
<1> HIDE DEF last, base, last1, base1
<1>7. last < last1
  BY <1>1, <1>3, <1>5, <1>6 DEF Time
<1>8. CASE last1 = base1
  BY <1>4, <1>5, <1>6, <1>7, <1>8 DEF Time
<1>9. ASSUME NEW m \in Incoming(u, r)', last1 = m.created_at
      PROVE  \E n \in thread'[r] \ thread[r] :
               n.sender_role # RoleOf(u) /\ is_visible_to(n, u)
  <2>1. m \notin Incoming(u, r)
    BY <1>5, <1>6, <1>7, <1>9 DEF Time
  <2>2. m \in thread'[r] /\ m.sender_role # RoleOf(u) /\ ~m.is_internal_note
    BY <1>9 DEF Incoming, INCOMING_SENDERS
  <2>3. m \notin thread[r]
    BY <2>1, <2>2 DEF Incoming, INCOMING_SENDERS
  <2>4. is_visible_to(m, u)
    BY <2>2, ConversationAssumption DEF is_visible_to, RoleOf, Users
  <2> QED
    BY <2>2, <2>3, <2>4
<1> QED
  BY <1>6, <1>8, <1>9

-----------------------------------------------------------------------------
(***************************************************************************)
(* The pages' scripts.  A fragment on its way has to be as fit as the page *)
(* it will replace, since it is swapped in whoever has read what meanwhile.*)
(***************************************************************************)
PageFits(u, page) ==
  /\ page.kind # "away"
  /\ page.kind = "detail" => page.req \in Requests /\ row[page.req].status # "absent"
  /\ u \notin Desk => \A m \in page.words : Fit(u, m)

TabFits(u) ==
  /\ tab[u].running => screen[u].kind # "away"
  /\ tab[u].timer \/ tab[u].hidden => tab[u].running
  /\ \A s \in Slots :
       /\ tab[u].flight[s].step # "idle" => tab[u].running
       /\ tab[u].flight[s].step = "page" => PageFits(u, tab[u].flight[s].page)

PanelInv ==
  /\ TalkInv
  /\ WordsStayWithReaders
  /\ tab \in [Watchers -> Tab]
  /\ \A u \in Watchers : TabFits(u)

(* A submitted request stays submitted.                                    *)
LEMMA SubmittedStays ==
  ASSUME TalkInv, Next, NEW r \in Requests, row[r].status # "absent"
  PROVE  row'[r].status # "absent"
<1>0. row \in [Requests -> Row]
  BY DEF TalkInv, TypeOK
<1>1. CASE Move
  <2>1. PICK q \in Requests :
          \/ Submit(q)
          \/ \E m \in Merchants : Route(q, m) \/ Act(m, q) \/ HandBack(m, q)
          \/ \E d \in Desk : Park(d, q)
          \/ \E u \in Users : Reject(u, q)
          \/ Close(q)
    BY <1>1 DEF Move
  <2>2. CASE q # r
    BY <1>0, <2>1, <2>2 DEF Submit, Route, Act, HandBack, Park, Reject, Close
  <2>3. CASE q = r
    <3>1. ~Submit(q)
      BY <2>3 DEF Submit
    <3>2. CASE \E m \in Merchants : Route(q, m) \/ Act(m, q) \/ HandBack(m, q)
      <4>1. PICK m \in Merchants : Route(q, m) \/ Act(m, q) \/ HandBack(m, q)
        BY <3>2
      <4>2. CASE Route(q, m)
        BY <1>0, <2>3, <4>2 DEF Route, Row
      <4>3. CASE Act(m, q)
        BY <1>0, <2>3, <4>3 DEF Act, Row
      <4>4. CASE HandBack(m, q)
        BY <1>0, <2>3, <4>4 DEF HandBack, Row
      <4> QED
        BY <4>1, <4>2, <4>3, <4>4
    <3>3. CASE \E d \in Desk : Park(d, q)
      BY <1>0, <2>3, <3>3 DEF Park, Row
    <3>4. CASE \E u \in Users : Reject(u, q)
      BY <1>0, <2>3, <3>4 DEF Reject, Row
    <3>5. CASE Close(q)
      BY <1>0, <2>3, <3>5 DEF Close, Row
    <3> QED
      BY <2>1, <3>1, <3>2, <3>3, <3>4, <3>5
  <2> QED
    BY <2>2, <2>3
<1>2. CASE Talk
  BY <1>2 DEF Talk, DeskWrites, MerchantWrites, ClientWrites, post, Commit
<1>3. CASE Read
  BY <1>3 DEF Read, Open, mark_seen, OpenQueue, Leave
<1> QED
  BY <1>1, <1>2, <1>3 DEF Next

(* What the server counts for a pulse.                                     *)
LEMMA CountsTyped ==
  ASSUME TypeOK, NEW u \in Users
  PROVE  Badge(u) \in 0 .. Cardinality(Requests) /\ latest_activity(u) \in Version
<1> DEFINE open == Queue(u)
           stamps == {0} \cup {last_activity_at(u, r) : r \in open}
<1>1. IsFiniteSet(Requests) /\ Cardinality(Requests) \in Nat
  BY PanelAssumption, FS_CardinalityType
<1>2. \A T \in SUBSET Requests : Cardinality(T) \in 0 .. Cardinality(Requests)
  <2> TAKE T \in SUBSET Requests
  <2>1. IsFiniteSet(T) /\ Cardinality(T) <= Cardinality(Requests)
    BY <1>1, FS_Subset
  <2>2. Cardinality(T) \in Nat
    BY <2>1, FS_CardinalityType
  <2> QED
    BY <1>1, <2>1, <2>2
<1>3. open \subseteq Requests
  BY DEF Queue
<1>4. Badge(u) \in 0 .. Cardinality(Requests)
  <2>1. PICK T \in SUBSET Requests :
          T = {r \in Queue(u) : is_unread(u, r)
                                 /\ (u \in Desk => row[r].status \in AwaitingFinance)}
    BY <1>3
  <2> QED
    BY <1>2, <2>1 DEF Badge
<1>5. \A r \in Requests : last_activity_at(u, r) \in Time
  BY Activity
<1>6. stamps \subseteq 0 .. MaxTime /\ stamps # {} /\ MaxTime \in Nat
  BY <1>3, <1>5, ConversationAssumption DEF Time
<1> HIDE DEF stamps
<1>7. Max(stamps) \in Time
  BY <1>6, MaxIsGreatest DEF Time
<1>8. latest_activity(u) = <<Max(stamps), Cardinality(open)>>
  BY DEF latest_activity, stamps
<1>9. Cardinality(open) \in 0 .. Cardinality(Requests)
  BY <1>2, <1>3
<1> HIDE DEF open
<1> QED
  BY <1>4, <1>7, <1>8, <1>9 DEF Version

(* The slot a request goes out in is a free one.                           *)
LEMMA FreeSlot ==
  ASSUME NEW u, Free(u) # {}
  PROVE  Min(Free(u)) \in Slots /\ tab[u].flight[Min(Free(u))].step = "idle"
<1> DEFINE free == Free(u)
           Less == {ss \in Nat \X Nat : ss[1] < ss[2]}
<1>1. free \subseteq Nat /\ free # {}
  BY PanelAssumption DEF Free
<1>2. IsWellFoundedOn(Less, Nat)
  BY NatLessThanWellFounded DEF OpToRel
<1>3. PICK t \in free : \A y \in free : ~ (<<y, t>> \in Less)
  <2> HIDE DEF free, Less
  <2> QED
    BY <1>1, <1>2, WFMin
<1>4. \A y \in free : t <= y
  <2> TAKE y \in free
  <2>1. t \in Nat /\ y \in Nat /\ ~ (<<y, t>> \in Less)
    BY <1>1, <1>3
  <2>2. ~ (y < t)
    BY <2>1
  <2> HIDE DEF free, Less
  <2> QED
    BY <2>1, <2>2
<1>5. Min(free) \in free
  <2> HIDE DEF free
  <2> QED
    BY <1>3, <1>4 DEF Min
<1> QED
  BY <1>5 DEF Free

(* The kinds of request a page has out.                                    *)
LEMMA Flights ==
  /\ \A step \in {"idle", "pulse", "fragment", "failed", "refused"} :
       Flying(step) \in Flight /\ Flying(step).step = step
  /\ \A n \in 0 .. Cardinality(Requests), v \in Version :
       /\ [Flying("news") EXCEPT !.badge = n, !.version = v] \in Flight
       /\ [Flying("news") EXCEPT !.badge = n, !.version = v].step = "news"
  /\ \A page \in Screen :
       /\ [Flying("page") EXCEPT !.page = page] \in Flight
       /\ [Flying("page") EXCEPT !.page = page].step = "page"
       /\ [Flying("page") EXCEPT !.page = page].page = page
<1>1. \A step \in {"idle", "pulse", "fragment", "failed", "refused"} :
        Flying(step) \in Flight /\ Flying(step).step = step
  BY DEF Flying, Flight
<1>2. ASSUME NEW n \in 0 .. Cardinality(Requests), NEW v \in Version
      PROVE  /\ [Flying("news") EXCEPT !.badge = n, !.version = v] \in Flight
             /\ [Flying("news") EXCEPT !.badge = n, !.version = v].step = "news"
  BY DEF Flying, Flight
<1>3. ASSUME NEW page \in Screen
      PROVE  /\ [Flying("page") EXCEPT !.page = page] \in Flight
             /\ [Flying("page") EXCEPT !.page = page].step = "page"
             /\ [Flying("page") EXCEPT !.page = page].page = page
  BY DEF Flying, Flight
<1> QED
  BY <1>1, <1>2, <1>3

LEMMA NewsTyped ==
  ASSUME NEW f \in Flight
  PROVE  /\ f.step = "news" => f.badge \in 0 .. Cardinality(Requests) /\ f.version \in Version
         /\ f.step = "page" => f.page \in Screen
<1>1. CASE f \in [step: {"idle", "pulse", "fragment", "failed", "refused"},
                  badge: {0}, version: {<<>>}, page: {Away}]
  BY <1>1
<1>2. CASE f \in [step: {"news"}, badge: 0..Cardinality(Requests), version: Version,
                  page: {Away}]
  BY <1>2
<1>3. CASE f \in [step: {"page"}, badge: {0}, version: {<<>>}, page: Screen]
  BY <1>3
<1> QED
  BY <1>1, <1>2, <1>3 DEF Flight

(* One page's script takes one step, whose new state t has its requests    *)
(* fit.                                                                    *)
LEMMA TabMoved ==
  ASSUME PanelInv, NEW u \in Watchers, NEW t \in Tab,
         tab' = [tab EXCEPT ![u] = t],
         t.running => screen[u].kind # "away", t.timer \/ t.hidden => t.running,
         \A s \in Slots : /\ t.flight[s].step # "idle" => t.running
                          /\ t.flight[s].step = "page" => PageFits(u, t.flight[s].page),
         UNCHANGED talk
  PROVE  PanelInv'
<1>1. UNCHANGED <<now, row, thread, writing, seen, screen>>
  BY DEF talk
<1>2. TalkInv' /\ WordsStayWithReaders'
  BY <1>1 DEF PanelInv, TalkInv, TypeOK, Dated, Opened, WordsStayWithReaders
<1>3. tab' \in [Watchers -> Tab]
  BY DEF PanelInv
<1>4. ASSUME NEW v \in Watchers PROVE TabFits(v)'
  <2>1. tab'[v] = IF v = u THEN t ELSE tab[v]
    BY DEF PanelInv
  <2>2. TabFits(v)
    BY DEF PanelInv
  <2> QED
    BY <1>1, <2>1, <2>2 DEF TabFits, PageFits
<1> QED
  BY <1>2, <1>3, <1>4 DEF PanelInv

(* The same for one request f of the page, in slot s.                      *)
Becomes(u, t) == tab' = [tab EXCEPT ![u] = t] /\ UNCHANGED talk

OneSlot(u, s, f, t) ==
  /\ t.running = tab[u].running
  /\ \A z \in Slots : t.flight[z] = IF z = s THEN f ELSE tab[u].flight[z]
  /\ f.step # "idle" \/ t.timer \/ t.hidden => tab[u].running
  /\ f.step = "page" => PageFits(u, f.page)

LEMMA SlotMoved ==
  ASSUME PanelInv, NEW u \in Watchers, NEW s \in Slots, NEW f, NEW t \in Tab,
         OneSlot(u, s, f, t), Becomes(u, t)
  PROVE  PanelInv'
<1>1. TabFits(u) /\ tab[u] \in Tab
  BY DEF PanelInv
<1>2. \A z \in Slots : /\ t.flight[z].step # "idle" => t.running
                       /\ t.flight[z].step = "page" => PageFits(u, t.flight[z].page)
  BY <1>1 DEF TabFits, OneSlot
<1>3. (t.running => screen[u].kind # "away") /\ (t.timer \/ t.hidden => t.running)
  BY <1>1 DEF TabFits, OneSlot
<1> QED
  BY <1>2, <1>3, TabMoved DEF Becomes

LEMMA NoScriptTyped ==
  /\ NoScript \in Tab /\ ~NoScript.running /\ ~NoScript.timer /\ ~NoScript.hidden
  /\ \A s \in Slots : NoScript.flight[s].step = "idle"
<1>1. Flying("idle") \in Flight /\ Flying("idle").step = "idle"
  BY Flights
<1>2. 0 \in 0 .. Cardinality(Requests) /\ <<>> \in Version
  BY PanelAssumption, FS_CardinalityType DEF Version
<1> QED
  BY <1>1, <1>2 DEF NoScript, Tab

LEMMA StartKeeps ==
  ASSUME PanelInv, NEW u \in Watchers, Start(u)
  PROVE  PanelInv'
<1>1. PICK t : t = [NoScript EXCEPT !.running = TRUE, !.timer = TRUE]
  OBVIOUS
<1>2. t \in Tab /\ t.flight = NoScript.flight /\ t.running
  BY <1>1, NoScriptTyped DEF Tab
<1>3. /\ tab' = [tab EXCEPT ![u] = t] /\ UNCHANGED talk /\ screen[u].kind # "away"
  BY <1>1 DEF Start
<1> QED
  BY <1>2, <1>3, NoScriptTyped, TabMoved

LEMMA TimerKeeps ==
  ASSUME PanelInv, NEW u \in Watchers, Tock(u) \/ Hide(u) \/ Show(u)
  PROVE  PanelInv'
<1>0. TabFits(u) /\ tab[u] \in Tab /\ UNCHANGED talk /\ tab \in [Watchers -> Tab]
  BY DEF PanelInv, Tock, Hide, Show
<1>1. ASSUME NEW t, tab' = [tab EXCEPT ![u] = t], t \in Tab,
             t.running = tab[u].running, t.flight = tab[u].flight,
             t.timer \/ t.hidden => tab[u].running
      PROVE  PanelInv'
  <2>1. \A s \in Slots : /\ t.flight[s].step # "idle" => t.running
                         /\ t.flight[s].step = "page" => PageFits(u, t.flight[s].page)
    BY <1>0, <1>1 DEF TabFits
  <2>2. t.running => screen[u].kind # "away"
    BY <1>0, <1>1 DEF TabFits
  <2> QED
    BY <1>0, <1>1, <2>1, <2>2, TabMoved
<1>2. ASSUME NEW h \in BOOLEAN, Free(u) # {},
             tab' = [tab EXCEPT ![u] = [Asking(@, Min(Free(u))) EXCEPT !.hidden = h]],
             tab[u].running
      PROVE  PanelInv'
  <2>1. PICK s \in Slots : s = Min(Free(u))
    BY <1>2, FreeSlot
  <2>2. PICK f \in Flight : f = Flying("pulse") /\ f.step = "pulse"
    BY Flights
  <2>3. PICK t : t = [Asking(tab[u], s) EXCEPT !.hidden = h]
    OBVIOUS
  <2>4. /\ t \in Tab /\ t.running = tab[u].running
        /\ \A z \in Slots : t.flight[z] = IF z = s THEN f ELSE tab[u].flight[z]
    BY <1>0, <2>2, <2>3 DEF Asking, Tab
  <2>5. tab' = [tab EXCEPT ![u] = t]
    BY <1>0, <1>2, <2>1, <2>3
  <2>6. f.step # "idle" /\ f.step # "page"
    BY <2>2
  <2>7. OneSlot(u, s, f, t)
    BY <1>2, <2>4, <2>6 DEF OneSlot
  <2>8. Becomes(u, t)
    BY <1>0, <2>5 DEF Becomes
  <2>9. t \in Tab
    BY <2>4
  <2> QED
    BY <2>7, <2>8, <2>9, SlotMoved
<1>3. CASE Tock(u)
  <2>1. CASE tab[u].stopped
    <3>1. PICK t : t = [tab[u] EXCEPT !.timer = FALSE]
      OBVIOUS
    <3>2. /\ t \in Tab /\ t.running = tab[u].running /\ t.flight = tab[u].flight
          /\ t.timer \/ t.hidden => tab[u].running
      BY <1>0, <3>1 DEF Tab, TabFits
    <3>3. tab' = [tab EXCEPT ![u] = t]
      BY <1>0, <1>3, <2>1, <3>1 DEF Tock
    <3> QED
      BY <1>1, <3>2, <3>3
  <2>2. CASE ~tab[u].stopped
    <3>1. /\ Free(u) # {} /\ tab[u].running
          /\ tab' = [tab EXCEPT ![u] = Asking(@, Min(Free(u)))]
      BY <1>0, <1>3, <2>2 DEF Tock, TabFits
    <3>2. PICK s \in Slots : s = Min(Free(u))
      BY <3>1, FreeSlot
    <3>3. PICK f \in Flight : f = Flying("pulse") /\ f.step = "pulse"
      BY Flights
    <3>4. PICK t : t = Asking(tab[u], s)
      OBVIOUS
    <3>5. /\ t \in Tab /\ t.running = tab[u].running
          /\ \A z \in Slots : t.flight[z] = IF z = s THEN f ELSE tab[u].flight[z]
      BY <1>0, <3>3, <3>4 DEF Asking, Tab
    <3>6. tab' = [tab EXCEPT ![u] = t]
      BY <1>0, <3>1, <3>2, <3>4
    <3>7. f.step # "idle" /\ f.step # "page"
      BY <3>3
    <3>8. OneSlot(u, s, f, t)
      BY <3>1, <3>5, <3>7 DEF OneSlot
    <3>9. Becomes(u, t)
      BY <1>0, <3>6 DEF Becomes
    <3>10. t \in Tab
      BY <3>5
    <3> QED
      BY <3>8, <3>9, <3>10, SlotMoved
  <2> QED
    BY <2>1, <2>2
<1>4. CASE Hide(u)
  <2>1. PICK t : t = [tab[u] EXCEPT !.hidden = TRUE]
    OBVIOUS
  <2>2. /\ t \in Tab /\ t.running = tab[u].running /\ t.flight = tab[u].flight
        /\ tab[u].running
    BY <1>0, <1>4, <2>1 DEF Tab, Hide
  <2>3. tab' = [tab EXCEPT ![u] = t]
    BY <1>0, <1>4, <2>1 DEF Hide
  <2> QED
    BY <1>1, <2>2, <2>3
<1>5. CASE Show(u)
  <2>1. tab[u].running
    BY <1>0, <1>5 DEF Show, TabFits
  <2>2. CASE tab[u].stopped
    <3>1. PICK t : t = [tab[u] EXCEPT !.hidden = FALSE]
      OBVIOUS
    <3>2. t \in Tab /\ t.running = tab[u].running /\ t.flight = tab[u].flight
      BY <1>0, <3>1 DEF Tab
    <3>3. tab' = [tab EXCEPT ![u] = t]
      BY <1>0, <1>5, <2>2, <3>1 DEF Show
    <3> QED
      BY <1>1, <2>1, <3>2, <3>3
  <2>3. CASE ~tab[u].stopped
    BY <1>2, <1>5, <2>1, <2>3 DEF Show
  <2> QED
    BY <2>2, <2>3
<1> QED
  BY <1>3, <1>4, <1>5

(* The end of a tick.                                                      *)
LEMMA ScheduledTyped ==
  ASSUME NEW t \in Tab, NEW s \in Slots
  PROVE  /\ Scheduled(t, s) \in Tab /\ Scheduled(t, s).running = t.running
         /\ Scheduled(t, s).stopped = t.stopped /\ Scheduled(t, s).hidden = t.hidden
         /\ ~t.stopped => Scheduled(t, s).timer
         /\ \A z \in Slots : Scheduled(t, s).flight[z]
                                = IF z = s THEN Flying("idle") ELSE t.flight[z]
<1>1. PICK timer \in BOOLEAN : timer = (t.timer \/ ~t.stopped)
  OBVIOUS
<1>2. PICK f \in Flight : f = Flying("idle")
  BY Flights
<1>3. PICK n : n = [t EXCEPT !.flight[s] = f, !.timer = timer]
  OBVIOUS
<1>4. n = Scheduled(t, s)
  BY <1>1, <1>2, <1>3 DEF Scheduled, Tab
<1>5. /\ n \in Tab /\ n.running = t.running /\ n.stopped = t.stopped
      /\ n.hidden = t.hidden /\ n.timer = timer
      /\ \A z \in Slots : n.flight[z] = IF z = s THEN f ELSE t.flight[z]
  BY <1>3 DEF Tab
<1>6. ~t.stopped => timer
  BY <1>1
<1> QED
  BY <1>2, <1>4, <1>5, <1>6

(* The request in slot s is replaced.                                      *)
LEMMA FlightReplaced ==
  ASSUME PanelInv, NEW u \in Watchers, NEW s \in Slots, NEW f \in Flight,
         tab[u].flight[s].step # "idle", f.step = "page" => PageFits(u, f.page),
         tab' = [tab EXCEPT ![u].flight[s] = f], UNCHANGED talk
  PROVE  PanelInv'
<1>1. TabFits(u) /\ tab[u] \in Tab /\ tab \in [Watchers -> Tab]
  BY DEF PanelInv
<1>2. PICK t : t = [tab[u] EXCEPT !.flight[s] = f]
  OBVIOUS
<1>3. /\ t \in Tab /\ t.running = tab[u].running
      /\ t.timer = tab[u].timer /\ t.hidden = tab[u].hidden
      /\ \A z \in Slots : t.flight[z] = IF z = s THEN f ELSE tab[u].flight[z]
  BY <1>1, <1>2 DEF Tab
<1>4. Becomes(u, t)
  BY <1>1, <1>2 DEF Becomes
<1>5. tab[u].running
  BY <1>1 DEF TabFits
<1>6. OneSlot(u, s, f, t)
  BY <1>3, <1>5 DEF OneSlot
<1>7. t \in Tab
  BY <1>3
<1> QED
  BY <1>4, <1>6, <1>7, SlotMoved

LEMMA ServerAnswers ==
  ASSUME PanelInv, NEW u \in Watchers, NEW s \in Slots,
         Pulse(u, s) \/ Fail(u, s) \/ Refuse(u, s) \/ Fragment(u, s)
  PROVE  PanelInv'
<1>0. TabFits(u) /\ tab[u] \in Tab /\ UNCHANGED talk /\ tab \in [Watchers -> Tab]
  BY DEF PanelInv, Pulse, Fail, Refuse, Fragment
<1>1. u \in Users /\ u \in People
  BY PanelAssumption DEF People
<1>2. tab[u].flight[s].step # "idle" /\ tab[u].running /\ screen[u].kind # "away"
  BY <1>0 DEF Pulse, Fail, Refuse, Fragment, TabFits
<1>3. CASE Pulse(u, s)
  <2>1. PICK f : f = [Flying("news") EXCEPT !.badge = Badge(u), !.version = latest_activity(u)]
    OBVIOUS
  <2>2. f \in Flight /\ f.step = "news"
    BY <1>1, <2>1, CountsTyped, Flights DEF PanelInv, TalkInv
  <2>3. tab' = [tab EXCEPT ![u].flight[s] = f]
    BY <1>3, <2>1 DEF Pulse
  <2> QED
    BY <1>0, <1>2, <2>2, <2>3, FlightReplaced
<1>4. CASE Fail(u, s) \/ Refuse(u, s)
  <2>1. PICK f \in Flight : f.step # "page" /\ tab' = [tab EXCEPT ![u].flight[s] = f]
    BY <1>4, Flights DEF Fail, Refuse
  <2> QED
    BY <1>0, <1>2, <2>1, FlightReplaced
<1>5. CASE Fragment(u, s)
  <2>1. /\ screen[u] \in Screen /\ Opened(u) /\ TypeOK
        /\ thread \in [Requests -> SUBSET Message]
    BY <1>1 DEF PanelInv, TalkInv, TypeOK
  <2>2. CASE screen[u].kind = "queue"
    <3>1. List(u) \in Screen /\ PageFits(u, List(u))
      <4>1. Queue(u) \subseteq Requests
        BY DEF Queue
      <4> QED
        BY <4>1 DEF List, Away, Screen, PageFits
    <3>2. PICK f : f = [Flying("page") EXCEPT !.page = List(u)]
      OBVIOUS
    <3>3. f \in Flight /\ f.page = List(u)
      BY <3>1, <3>2, Flights
    <3>4. tab' = [tab EXCEPT ![u].flight[s] = f]
      BY <1>5, <2>2, <3>2 DEF Fragment
    <3>5. f.step = "page" => PageFits(u, f.page)
      BY <3>1, <3>3
    <3> QED
      BY <1>0, <1>2, <3>3, <3>4, <3>5, FlightReplaced
  <2>3. CASE screen[u].kind # "queue" /\ InScope(u, screen[u].req)
    <3>1. /\ screen[u].kind = "detail" /\ screen[u].req \in Requests
          /\ row[screen[u].req].status # "absent"
      BY <1>2, <2>1, <2>3 DEF Screen, Opened
    <3>2. PICK page : page = [screen[u] EXCEPT !.words = Words(u, screen[u].req)]
      OBVIOUS
    <3>3. /\ Words(u, screen[u].req) \subseteq Message
          /\ u \notin Desk => \A m \in Words(u, screen[u].req) : Fit(u, m)
      BY <1>1, <2>1, <3>1, VisibleIsFit DEF Words
    <3>4. /\ page \in Screen /\ page.kind = "detail" /\ page.req = screen[u].req
          /\ page.words = Words(u, screen[u].req)
      BY <2>1, <3>1, <3>2, <3>3 DEF Screen
    <3>5. PageFits(u, page)
      BY <3>1, <3>3, <3>4 DEF PageFits
    <3>6. PICK f : f = [Flying("page") EXCEPT !.page = page]
      OBVIOUS
    <3>7. f \in Flight /\ f.page = page
      BY <3>4, <3>6, Flights
    <3>8. tab' = [tab EXCEPT ![u].flight[s] = f]
      BY <1>5, <2>3, <3>2, <3>6 DEF Fragment
    <3>9. f.step = "page" => PageFits(u, f.page)
      BY <3>5, <3>7
    <3> QED
      BY <1>0, <1>2, <3>7, <3>8, <3>9, FlightReplaced
  <2>4. CASE screen[u].kind # "queue" /\ ~InScope(u, screen[u].req)
    <3>1. PICK f \in Flight : f.step # "page" /\ tab' = [tab EXCEPT ![u].flight[s] = f]
      BY <1>5, <2>4, Flights DEF Fragment
    <3> QED
      BY <1>0, <1>2, <3>1, FlightReplaced
  <2> QED
    BY <2>2, <2>3, <2>4
<1> QED
  BY <1>3, <1>4, <1>5

(* An answer comes to the page.                                            *)
LEMMA NewsKeeps ==
  ASSUME PanelInv, NEW u \in Watchers, NEW s \in Slots, News(u, s) \/ Caught(u, s)
  PROVE  PanelInv'
<1>0. TabFits(u) /\ tab[u] \in Tab /\ UNCHANGED talk /\ tab \in [Watchers -> Tab]
  BY DEF PanelInv, News, Caught
<1>1. tab[u].flight[s] \in Flight
  BY <1>0 DEF Tab
<1>2. tab[u].flight[s].step # "idle" /\ tab[u].running
  BY <1>0 DEF News, Caught, TabFits
<1>3. Flying("idle") \in Flight /\ Flying("idle").step = "idle"
  BY Flights
<1>4. ASSUME NEW x \in Tab, x.running = tab[u].running, x.flight = tab[u].flight,
             tab' = [tab EXCEPT ![u] = Scheduled(x, s)]
      PROVE  PanelInv'
  <2>1. PICK t : t = Scheduled(x, s)
    OBVIOUS
  <2>2. /\ t \in Tab /\ t.running = tab[u].running
        /\ \A z \in Slots : t.flight[z] = IF z = s THEN Flying("idle") ELSE tab[u].flight[z]
    BY <1>4, <2>1, ScheduledTyped
  <2>3. OneSlot(u, s, Flying("idle"), t)
    BY <1>2, <1>3, <2>2 DEF OneSlot
  <2>4. Becomes(u, t)
    BY <1>0, <1>4, <2>1 DEF Becomes
  <2>5. t \in Tab
    BY <2>2
  <2> QED
    BY <2>3, <2>4, <2>5, SlotMoved
<1>5. CASE News(u, s)
  <2> DEFINE f == tab[u].flight[s]
  <2>1. f.badge \in 0 .. Cardinality(Requests) /\ f.version \in Version
    BY <1>1, <1>5, NewsTyped DEF News
  <2>2. PICK x : x = [tab[u] EXCEPT !.badge = f.badge, !.version = f.version]
    OBVIOUS
  <2>3. x \in Tab /\ x.running = tab[u].running /\ x.flight = tab[u].flight
    BY <1>0, <2>1, <2>2 DEF Tab
  <2>4. CASE tab[u].version \in {<<>>, f.version}
    <3>1. tab' = [tab EXCEPT ![u] = Scheduled(x, s)]
      BY <1>5, <2>2, <2>4 DEF News
    <3> QED
      BY <1>4, <2>3, <3>1
  <2>5. CASE tab[u].version \notin {<<>>, f.version}
    <3>1. PICK g \in Flight : g = Flying("fragment") /\ g.step = "fragment"
      <4>1. Flying("fragment") \in Flight /\ Flying("fragment").step = "fragment"
        BY Flights
      <4> QED
        BY <4>1
    <3>2. PICK t : t = [x EXCEPT !.flight[s] = g]
      OBVIOUS
    <3>3. tab' = [tab EXCEPT ![u] = t]
      BY <1>5, <2>2, <2>5, <3>1, <3>2 DEF News
    <3>4. /\ t \in Tab /\ t.running = tab[u].running
          /\ \A z \in Slots : t.flight[z] = IF z = s THEN g ELSE tab[u].flight[z]
      BY <2>3, <3>2 DEF Tab
    <3>5. OneSlot(u, s, g, t)
      BY <1>2, <3>1, <3>4 DEF OneSlot
    <3>6. Becomes(u, t)
      BY <1>0, <3>3 DEF Becomes
    <3>7. t \in Tab
      BY <3>4
    <3> QED
      BY <3>5, <3>6, <3>7, SlotMoved
  <2> QED
    BY <2>4, <2>5
<1>6. CASE Caught(u, s)
  <2>1. PICK stopped \in BOOLEAN :
          stopped = (tab[u].stopped \/ tab[u].flight[s].step = "refused")
    OBVIOUS
  <2>2. PICK x : x = [tab[u] EXCEPT !.stopped = @ \/ tab[u].flight[s].step = "refused"]
    OBVIOUS
  <2>3. x \in Tab /\ x.running = tab[u].running /\ x.flight = tab[u].flight
    <3>1. x = [tab[u] EXCEPT !.stopped = stopped]
      BY <2>1, <2>2
    <3> QED
      BY <1>0, <3>1 DEF Tab
  <2>4. tab' = [tab EXCEPT ![u] = Scheduled(x, s)]
    BY <1>6, <2>2 DEF Caught
  <2> QED
    BY <1>4, <2>3, <2>4
<1> QED
  BY <1>5, <1>6

(* The fragment replaces what the page shows, and its account's screen is  *)
(* the only one that changes.                                              *)
LEMMA SwapKeeps ==
  ASSUME PanelInv, NEW u \in Watchers, NEW s \in Slots, Swap(u, s)
  PROVE  PanelInv'
<1>0. /\ TabFits(u) /\ tab[u] \in Tab /\ tab \in [Watchers -> Tab]
      /\ UNCHANGED <<now, row, thread, writing, seen>> /\ u \in People
      /\ screen \in [People -> Screen] /\ TypeOK
  BY PanelAssumption DEF PanelInv, TalkInv, TypeOK, Swap, People
<1>1. PICK page : page = tab[u].flight[s].page
  OBVIOUS
<1>2. page \in Screen /\ PageFits(u, page) /\ tab[u].running
  <2>1. tab[u].flight[s] \in Flight /\ tab[u].flight[s].step = "page"
    BY <1>0 DEF Tab, Swap
  <2> QED
    BY <1>0, <1>1, <2>1, NewsTyped DEF TabFits
<1>3. screen' = [screen EXCEPT ![u] = page]
  BY <1>1 DEF Swap
<1>4. TalkInv'
  BY <1>0, <1>2, <1>3, ScreenKeeps DEF PanelInv, PageFits
<1>5. WordsStayWithReaders'
  BY <1>0, <1>2, <1>3, PageFit DEF PanelInv, PageFits
<1>6. PICK t : t = Scheduled(tab[u], s)
  OBVIOUS
<1>7. /\ t \in Tab /\ t.running
      /\ \A z \in Slots : t.flight[z] = IF z = s THEN Flying("idle") ELSE tab[u].flight[z]
  BY <1>0, <1>2, <1>6, ScheduledTyped
<1>8. tab' = [tab EXCEPT ![u] = t]
  BY <1>6 DEF Swap
<1>9. ASSUME NEW v \in Watchers PROVE TabFits(v)'
  <2>1. TabFits(v) /\ v \in People
    BY PanelAssumption DEF PanelInv, People
  <2>2. CASE v = u
    <3>1. Flying("idle").step = "idle"
      BY Flights
    <3>2. tab'[u] = t /\ screen'[u].kind # "away"
      BY <1>0, <1>2, <1>3, <1>8 DEF PageFits
    <3> QED
      BY <1>0, <1>7, <2>1, <2>2, <3>1, <3>2 DEF TabFits, PageFits
  <2>3. CASE v # u
    <3>1. tab'[v] = tab[v] /\ screen'[v] = screen[v]
      BY <1>0, <1>3, <1>8, <2>1, <2>3
    <3> QED
      BY <1>0, <2>1, <3>1 DEF TabFits, PageFits
  <2> QED
    BY <2>2, <2>3
<1>10. tab' \in [Watchers -> Tab]
  BY <1>0, <1>7, <1>8
<1> QED
  BY <1>4, <1>5, <1>9, <1>10 DEF PanelInv

(* The conversation moves on; who leaves or turns a page takes its script  *)
(* along.                                                                  *)
LEMMA TalkingKeeps ==
  ASSUME PanelInv, Talking
  PROVE  PanelInv'
<1>1. Next /\ tab' = Turned
  BY DEF Talking
<1>2. TalkInv' /\ WordsStayWithReaders'
  BY <1>1, TalkStep, WordsStep DEF PanelInv
<1>3. ASSUME NEW u \in Watchers PROVE tab'[u] \in Tab /\ TabFits(u)'
  <2>1. /\ TabFits(u) /\ tab[u] \in Tab /\ u \in People
        /\ screen \in [People -> Screen]
    BY PanelAssumption DEF PanelInv, TalkInv, TypeOK, People
  <2>2. CASE tab'[u] = NoScript
    BY <2>2, NoScriptTyped DEF TabFits
  <2>3. CASE tab'[u] # NoScript
    <3>1. tab'[u] = tab[u] /\ (screen'[u] = screen[u] \/ (screen'[u].marked /\ ~screen[u].marked))
      BY <1>1, <2>3 DEF Turned
    <3>2. \A r \in Requests : row[r].status # "absent" => row'[r].status # "absent"
      BY <1>1, SubmittedStays DEF PanelInv
    <3>3. screen[u].kind # "away" => screen'[u].kind # "away"
      <4>1. CASE screen'[u] = screen[u]
        BY <4>1
      <4>2. CASE screen'[u] # screen[u] /\ screen'[u].kind = "away" /\ screen'[u].marked
        <5>1. \A p \in People, r \in Requests : Detail(p, r).kind = "detail"
          BY DEF Detail
        <5>2. \A v \in Users : List(v).kind = "queue"
          BY DEF List, Away
        <5>3. ~Away.marked
          BY DEF Away
        <5>4. CASE Read
          <6>1. ASSUME NEW p \in People, NEW r \in Requests, Open(p, r) PROVE FALSE
            BY <2>1, <4>2, <5>1, <6>1 DEF Open
          <6>2. ASSUME NEW v \in Users, mark_seen(v) PROVE screen[u].kind = "away"
            BY <2>1, <4>2, <6>2 DEF mark_seen, Screen
          <6>3. ASSUME NEW v \in Users, OpenQueue(v) PROVE FALSE
            BY <2>1, <4>2, <5>2, <6>3 DEF OpenQueue
          <6>4. ASSUME NEW p \in People, Leave(p) PROVE FALSE
            BY <2>1, <4>2, <5>3, <6>4 DEF Leave
          <6> QED
            BY <5>4, <6>1, <6>2, <6>3, <6>4 DEF Read
        <5>5. CASE Move
          BY <4>2, <5>5 DEF Move, Submit, Route, Act, HandBack, Park, Reject, Close
        <5>6. CASE Talk
          BY <4>2, <5>6 DEF Talk, DeskWrites, MerchantWrites, ClientWrites, post, Commit
        <5> QED
          BY <1>1, <5>4, <5>5, <5>6 DEF Next
      <4> QED
        BY <3>1, <4>1, <4>2
    <3> QED
      BY <2>1, <3>1, <3>2, <3>3 DEF TabFits, PageFits
  <2> QED
    BY <2>2, <2>3
<1>4. tab' \in [Watchers -> Tab]
  BY <1>1, <1>3 DEF Turned
<1> QED
  BY <1>2, <1>3, <1>4 DEF PanelInv

LEMMA PanelStarts ==
  ASSUME PanelInit
  PROVE  PanelInv
<1>1. TalkInv
  BY TalkStarts DEF PanelInit
<1>2. WordsStayWithReaders
  BY DEF PanelInit, Init, WordsStayWithReaders, Away
<1>3. tab \in [Watchers -> Tab]
  BY NoScriptTyped DEF PanelInit
<1>4. ASSUME NEW u \in Watchers PROVE TabFits(u)
  BY NoScriptTyped DEF PanelInit, TabFits
<1> QED
  BY <1>1, <1>2, <1>3, <1>4 DEF PanelInv

LEMMA PanelStep ==
  ASSUME PanelInv, [PanelNext]_panel_vars
  PROVE  PanelInv'
<1>1. CASE UNCHANGED panel_vars
  <2>1. UNCHANGED <<now, row, thread, writing, seen, screen, tab>>
    BY <1>1 DEF panel_vars
  <2> QED
    BY <2>1 DEF PanelInv, TalkInv, TypeOK, Dated, Opened, WordsStayWithReaders, TabFits, PageFits
<1>2. ASSUME NEW u \in Watchers, Script(u) PROVE PanelInv'
  BY <1>2, StartKeeps, TimerKeeps, ServerAnswers, NewsKeeps, SwapKeeps DEF Script
<1> QED
  BY <1>1, <1>2, TalkingKeeps DEF PanelNext

(* The inductive invariant.                                                *)
THEOREM PanelAlways == PanelSpec => []PanelInv
<1>1. PanelInit => PanelInv
  BY PanelStarts
<1>2. PanelInv /\ [PanelNext]_panel_vars => PanelInv'
  BY PanelStep
<1> QED
  BY <1>1, <1>2, PTL DEF PanelSpec

(* Every request, thread, marker, page and request of a page's script      *)
(* stays of its type: a detail page has the messages of one request and a  *)
(* list has requests, also after a fragment is swapped in.                 *)
THEOREM TypeCorrect == PanelSpec => []PanelTypeOK
<1>1. PanelInv => PanelTypeOK
  BY DEF PanelInv, TalkInv, PanelTypeOK
<1> QED
  BY <1>1, PanelAlways, PTL

(* No page carries one merchant's words to another, or a note past the     *)
(* desk to anyone but its writer, however late the message commits or the  *)
(* fragment arrives.                                                       *)
THEOREM WordsStay == PanelSpec => []WordsStayWithReaders
<1>1. PanelInv => WordsStayWithReaders
  BY DEF PanelInv
<1> QED
  BY <1>1, PanelAlways, PTL

(* To the conversation a script is a stutter, but for what is shown.       *)
LEMMA ScriptShows ==
  ASSUME [PanelNext]_panel_vars
  PROVE  Step
<1>1. ASSUME NEW u \in Watchers, Script(u)
      PROVE  UNCHANGED <<now, row, thread, writing, seen>>
  <2>1. CASE Start(u) \/ Tock(u) \/ Hide(u) \/ Show(u)
    BY <2>1 DEF Start, Tock, Hide, Show, talk
  <2>2. ASSUME NEW s \in Slots,
               Pulse(u, s) \/ Fail(u, s) \/ Refuse(u, s) \/ Fragment(u, s)
        PROVE  UNCHANGED <<now, row, thread, writing, seen>>
    <3>1. UNCHANGED talk
      BY <2>2 DEF Pulse, Fail, Refuse, Fragment
    <3> QED
      BY <3>1 DEF talk
  <2>3. ASSUME NEW s \in Slots, News(u, s) \/ Swap(u, s) \/ Caught(u, s)
        PROVE  UNCHANGED <<now, row, thread, writing, seen>>
    BY <2>3 DEF News, Swap, Caught, talk
  <2> QED
    BY <1>1, <2>1, <2>2, <2>3 DEF Script
<1>2. CASE UNCHANGED panel_vars
  BY <1>2 DEF panel_vars, Step
<1> QED
  BY <1>1, <1>2 DEF PanelNext, Talking, Step

(* Only an account's own page clears its badge.                            *)
THEOREM OnlyOwnEyes == PanelSpec => OnlyOwnEyesClear
<1>1. PanelInv /\ PanelInv' /\ [PanelNext]_panel_vars =>
        [\A u \in Users : \A r \in Requests :
           is_unread(u, r) /\ ~is_unread(u, r)' =>
             /\ screen[u].kind = "detail" /\ screen[u].req = r
             /\ seen'[u][r] > seen[u][r]]_talk
  BY OnlyOwnEyesStep, ScriptShows DEF PanelInv
<1> QED
  BY <1>1, PanelAlways, PTL DEF PanelSpec, OnlyOwnEyesClear

(* What wakes an account is an assignment to it, its merchant's move, or a *)
(* new message of the other side's that it can read.                       *)
THEOREM WokenOnlyByOthers == PanelSpec => WokenByOthers
<1>1. PanelInv /\ PanelInv' /\ [PanelNext]_panel_vars =>
        [\A u \in Users : \A r \in Requests :
           ~is_unread(u, r) /\ is_unread(u, r)' =>
             \/ u \in Merchants /\ row'[r].assigned_at > row[r].assigned_at
             \/ u \in Desk /\ row'[r].merchant_actioned_at > row[r].merchant_actioned_at
             \/ \E m \in thread'[r] \ thread[r] :
                  /\ m.sender_role # RoleOf(u)
                  /\ is_visible_to(m, u)]_talk
  BY WokenStep, ScriptShows DEF PanelInv
<1> QED
  BY <1>1, PanelAlways, PTL DEF PanelSpec, WokenByOthers

-----------------------------------------------------------------------------
(***************************************************************************)
(* A script goes on asking.                                                *)
(***************************************************************************)
Alive(t) ==
  t.running /\ ~t.stopped => t.timer \/ \E s \in Slots : t.flight[s].step # "idle"

LEMMA AliveMoved ==
  ASSUME PanelInv, PollNeverDies, NEW u \in Watchers, NEW t, Alive(t),
         tab' = [tab EXCEPT ![u] = t]
  PROVE  PollNeverDies'
<1>1. tab \in [Watchers -> Tab]
  BY DEF PanelInv
<1>2. ASSUME NEW v \in Watchers PROVE Alive(tab'[v])
  <2>1. tab'[v] = IF v = u THEN t ELSE tab[v]
    BY <1>1
  <2> QED
    BY <2>1 DEF PollNeverDies, Alive
<1> QED
  BY <1>2 DEF PollNeverDies, Alive

LEMMA AliveOut ==
  ASSUME PanelInv, PollNeverDies, NEW u \in Watchers, NEW s \in Slots, NEW f,
         f.step # "idle", tab' = [tab EXCEPT ![u].flight[s] = f]
  PROVE  PollNeverDies'
<1>1. tab \in [Watchers -> Tab] /\ tab[u] \in Tab
  BY DEF PanelInv
<1>2. PICK t : t = [tab[u] EXCEPT !.flight[s] = f]
  OBVIOUS
<1>3. t.flight[s] = f
  BY <1>1, <1>2 DEF Tab
<1>4. tab' = [tab EXCEPT ![u] = t]
  BY <1>1, <1>2
<1>5. Alive(t)
  BY <1>3 DEF Alive
<1> QED
  BY <1>4, <1>5, AliveMoved

LEMMA ScriptAlive ==
  ASSUME PanelInv, PollNeverDies, NEW u \in Watchers, Script(u)
  PROVE  PollNeverDies'
<1>0. /\ tab[u] \in Tab /\ tab \in [Watchers -> Tab] /\ Alive(tab[u])
      /\ Flying("pulse").step = "pulse" /\ Flying("fragment").step = "fragment"
  BY Flights DEF PanelInv, PollNeverDies, Alive
<1>1. CASE Start(u)
  <2>1. PICK t : t = [NoScript EXCEPT !.running = TRUE, !.timer = TRUE]
    OBVIOUS
  <2>2. t.timer
    BY <2>1 DEF NoScript
  <2>3. tab' = [tab EXCEPT ![u] = t]
    BY <1>1, <2>1 DEF Start
  <2>4. Alive(t)
    BY <2>2 DEF Alive
  <2> QED
    BY <2>3, <2>4, AliveMoved
<1>2. ASSUME NEW t, Free(u) # {}, t.flight = Asking(tab[u], Min(Free(u))).flight,
             tab' = [tab EXCEPT ![u] = t]
      PROVE  PollNeverDies'
  <2>1. Min(Free(u)) \in Slots
    BY <1>2, FreeSlot
  <2>2. t.flight[Min(Free(u))] = Flying("pulse")
    BY <1>0, <1>2, <2>1 DEF Asking, Tab
  <2>3. Alive(t)
    BY <1>0, <2>1, <2>2 DEF Alive
  <2> QED
    BY <1>2, <2>3, AliveMoved
<1>3. CASE Tock(u)
  <2>1. CASE tab[u].stopped
    <3>1. PICK t : t = [tab[u] EXCEPT !.timer = FALSE]
      OBVIOUS
    <3>2. t.stopped /\ tab' = [tab EXCEPT ![u] = t]
      BY <1>0, <1>3, <2>1, <3>1 DEF Tock, Tab
    <3>3. Alive(t)
      BY <3>2 DEF Alive
    <3> QED
      BY <3>2, <3>3, AliveMoved
  <2>2. CASE ~tab[u].stopped
    <3>1. PICK t : t = Asking(tab[u], Min(Free(u)))
      OBVIOUS
    <3>2. Free(u) # {} /\ tab' = [tab EXCEPT ![u] = t]
      BY <1>0, <1>3, <2>2, <3>1 DEF Tock
    <3> QED
      BY <1>2, <3>1, <3>2
  <2> QED
    BY <2>1, <2>2
<1>4. CASE Hide(u)
  <2>1. PICK t : t = [tab[u] EXCEPT !.hidden = TRUE]
    OBVIOUS
  <2>2. /\ t.running = tab[u].running /\ t.stopped = tab[u].stopped
        /\ t.timer = tab[u].timer /\ t.flight = tab[u].flight
    BY <1>0, <2>1 DEF Tab
  <2>3. Alive(t)
    BY <1>0, <2>2 DEF Alive
  <2>4. tab' = [tab EXCEPT ![u] = t]
    BY <1>0, <1>4, <2>1 DEF Hide
  <2> QED
    BY <2>3, <2>4, AliveMoved
<1>5. CASE Show(u)
  <2>1. CASE tab[u].stopped
    <3>1. PICK t : t = [tab[u] EXCEPT !.hidden = FALSE]
      OBVIOUS
    <3>2. t.stopped /\ tab' = [tab EXCEPT ![u] = t]
      BY <1>0, <1>5, <2>1, <3>1 DEF Show, Tab
    <3>3. Alive(t)
      BY <3>2 DEF Alive
    <3> QED
      BY <3>2, <3>3, AliveMoved
  <2>2. CASE ~tab[u].stopped
    <3>1. PICK t : t = [Asking(tab[u], Min(Free(u))) EXCEPT !.hidden = FALSE]
      OBVIOUS
    <3>2. Free(u) # {} /\ tab' = [tab EXCEPT ![u] = t]
      BY <1>0, <1>5, <2>2, <3>1 DEF Show
    <3>3. t.flight = Asking(tab[u], Min(Free(u))).flight
      BY <1>0, <3>1 DEF Asking, Tab
    <3> QED
      BY <1>2, <3>2, <3>3
  <2> QED
    BY <2>1, <2>2
<1>6. ASSUME NEW s \in Slots,
             Pulse(u, s) \/ Fail(u, s) \/ Refuse(u, s) \/ Fragment(u, s)
      PROVE  PollNeverDies'
  <2>1. PICK f : f.step # "idle" /\ tab' = [tab EXCEPT ![u].flight[s] = f]
    BY <1>6 DEF Pulse, Fail, Refuse, Fragment, Flying
  <2> QED
    BY <2>1, AliveOut
<1>7. ASSUME NEW s \in Slots, NEW t \in Tab, tab' = [tab EXCEPT ![u] = Scheduled(t, s)]
      PROVE  PollNeverDies'
  <2>1. Alive(Scheduled(t, s))
    BY ScheduledTyped DEF Alive
  <2> QED
    BY <1>7, <2>1, AliveMoved
<1>8. ASSUME NEW s \in Slots, News(u, s) PROVE PollNeverDies'
  <2> DEFINE f == tab[u].flight[s]
  <2>1. f.badge \in 0 .. Cardinality(Requests) /\ f.version \in Version
    BY <1>0, <1>8, NewsTyped DEF News, Tab
  <2>2. PICK x : x = [tab[u] EXCEPT !.badge = f.badge, !.version = f.version]
    OBVIOUS
  <2>3. x \in Tab
    BY <1>0, <2>1, <2>2 DEF Tab
  <2>4. CASE tab[u].version \in {<<>>, f.version}
    BY <1>7, <1>8, <2>2, <2>3, <2>4 DEF News
  <2>5. CASE tab[u].version \notin {<<>>, f.version}
    <3>1. PICK t : t = [x EXCEPT !.flight[s] = Flying("fragment")]
      OBVIOUS
    <3>2. t.flight[s] = Flying("fragment")
      BY <2>3, <3>1 DEF Tab
    <3>3. tab' = [tab EXCEPT ![u] = t]
      BY <1>8, <2>2, <2>5, <3>1 DEF News
    <3>4. Alive(t)
      BY <1>0, <3>2 DEF Alive
    <3> QED
      BY <3>3, <3>4, AliveMoved
  <2> QED
    BY <2>4, <2>5
<1>9. ASSUME NEW s \in Slots, Swap(u, s) PROVE PollNeverDies'
  <2>1. tab' = [tab EXCEPT ![u] = Scheduled(tab[u], s)]
    BY <1>0, <1>9 DEF Swap
  <2> QED
    BY <1>0, <1>7, <2>1
<1>10. ASSUME NEW s \in Slots, Caught(u, s) PROVE PollNeverDies'
  <2>1. PICK stopped \in BOOLEAN :
          stopped = (tab[u].stopped \/ tab[u].flight[s].step = "refused")
    OBVIOUS
  <2>2. PICK x : x = [tab[u] EXCEPT !.stopped = @ \/ tab[u].flight[s].step = "refused"]
    OBVIOUS
  <2>3. x \in Tab
    <3>1. x = [tab[u] EXCEPT !.stopped = stopped]
      BY <2>1, <2>2
    <3> QED
      BY <1>0, <3>1 DEF Tab
  <2>4. tab' = [tab EXCEPT ![u] = Scheduled(x, s)]
    BY <1>10, <2>2 DEF Caught
  <2> QED
    BY <1>7, <2>3, <2>4
<1> QED
  BY <1>1, <1>3, <1>4, <1>5, <1>6, <1>8, <1>9, <1>10 DEF Script

(* A script that was not refused has its next tick scheduled, or a request *)
(* out whose end schedules it.                                             *)
THEOREM PollGoesOn == PanelSpec => []PollNeverDies
<1>1. PanelInit => PollNeverDies
  BY NoScriptTyped DEF PanelInit, PollNeverDies
<1>2. ASSUME PanelInv, PollNeverDies, [PanelNext]_panel_vars
      PROVE  PollNeverDies'
  <2>1. CASE UNCHANGED panel_vars
    BY <1>2, <2>1 DEF panel_vars, PollNeverDies
  <2>2. CASE Talking
    <3>1. \A u \in Watchers : tab'[u] = tab[u] \/ tab'[u] = NoScript
      BY <2>2 DEF Talking, Turned
    <3> QED
      BY <1>2, <3>1, NoScriptTyped DEF PollNeverDies
  <2> QED
    BY <1>2, <2>1, <2>2, ScriptAlive DEF PanelNext
<1>3. PanelInv /\ PollNeverDies /\ [PanelNext]_panel_vars => PollNeverDies'
  BY <1>2
<1> QED
  BY <1>1, <1>3, PanelAlways, PTL DEF PanelSpec

=============================================================================
