----------------------------- MODULE EmbedProofs -----------------------------
(***************************************************************************)
(* Theorems about Embed, for any number of subjects, tabs, session keys    *)
(* and calls under way: as whom a call is answered.                        *)
(***************************************************************************)
EXTENDS Embed, FiniteSetTheorems, TLAPS

(***************************************************************************)
(* Only keys that were drawn are in use, and a key whose row is gone is    *)
(* never drawn again.  So what a session was when a call named it, it is   *)
(* as long as there is one: a call that left under a live session finds    *)
(* that one or none, and what a handler holds to save is what the row      *)
(* still says, if the row is there.                                        *)
(***************************************************************************)
Drawn(k) == k \in Keys => k <= drawn

Live(k) == k # None /\ Identified(rows[k]) /\ ~rows[k].over

Client == {"probe", "write"}

CallFits(c) ==
  /\ Drawn(c.cookie) /\ Drawn(c.set_cookie)
  /\ c.stage = "sent" => c.served = None
  /\ c.stage = "sent" /\ c.kind \in Client /\ Live(c.cookie) =>
       c.owner = rows[c.cookie].subject
  /\ c.stage = "held" => c.kind = "preference" /\ c.served = None
  /\ c.held # None =>
       /\ c.stage = "held" /\ c.cookie # None
       /\ rows[c.cookie] # None => rows[c.cookie] = c.held
  /\ c.kind \in Client /\ c.served # None => c.served = c.owner
  /\ c.kind = "write" /\ c.served # None => c.own

Tabs ==
  /\ jar \in Keys \cup {None} /\ Drawn(jar)
  /\ frame \in [Frames -> Frame]
  /\ user \in Subjects \cup {None}
  /\ leaving \in SUBSET Frames

DoorInv ==
  /\ DoorTypeOK
  /\ \A k \in Keys : k > drawn => rows[k] = None
  /\ \A c \in calls : CallFits(c)
  /\ Tabs

-----------------------------------------------------------------------------
DrawnNext(k) == k \in Keys => k <= drawn'

(* What every step but an expiry does to the table: rows go, and a row     *)
(* comes under a key that is drawn for it.                                 *)
RowsMove ==
  /\ drawn' \in 0 .. MaxKeys /\ drawn <= drawn'
  /\ rows' \in [Keys -> Row]
  /\ \A k \in Keys : k <= drawn => rows'[k] \in {rows[k], None}
  /\ \A k \in Keys : k > drawn' => rows'[k] = None

(* The call a handler leaves, in place of the one it took up.              *)
Moved(c) ==
  \E n \in Call : CallFits(n)' /\ calls' = (calls \ {c}) \cup {n}

LEMMA KeysAreNumbers ==
  /\ \A k \in Keys : k \in Nat /\ k # None /\ k # Keep /\ k # Drop
  /\ MaxKeys \in Nat
BY AccessAssumption DEF Keys

(* A call nobody handles stays fit.                                        *)
LEMMA CallStays ==
  ASSUME DoorInv, RowsMove, NEW c \in calls
  PROVE  CallFits(c)'
<1>1. CallFits(c) /\ c \in Call /\ drawn \in Nat /\ drawn' \in Nat /\ drawn <= drawn'
  BY KeysAreNumbers DEF DoorInv, DoorTypeOK, RowsMove
<1>2. DrawnNext(c.cookie) /\ DrawnNext(c.set_cookie)
  BY <1>1, KeysAreNumbers DEF CallFits, Drawn, DrawnNext
<1>3. CASE c.cookie = None
  BY <1>1, <1>2, <1>3 DEF CallFits, Live, Drawn, DrawnNext
<1>4. CASE c.cookie # None
  <2>1. c.cookie \in Keys /\ c.cookie <= drawn
    BY <1>1, <1>4 DEF CallFits, Drawn, Call
  <2>2. rows'[c.cookie] = rows[c.cookie] \/ rows'[c.cookie] = None
    BY <2>1 DEF RowsMove
  <2> QED
    BY <1>1, <1>2, <2>2 DEF CallFits, Live, Identified, Drawn, DrawnNext
<1> QED
  BY <1>3, <1>4

(* The two ways a row goes.                                                *)
LEMMA FlushedMoves ==
  ASSUME DoorInv, NEW c \in calls
  PROVE  /\ Flushed(c) \in [Keys -> Row]
         /\ \A k \in Keys : Flushed(c)[k] \in {rows[k], None}
<1>1. rows \in [Keys -> Row] /\ c.cookie \in Keys \cup {None} /\ None \in Row
  BY DEF DoorInv, DoorTypeOK, Call, Row
<1> QED
  BY <1>1 DEF Flushed

LEMMA NothingMoves ==
  ASSUME DoorInv, UNCHANGED <<drawn, rows>>
  PROVE  RowsMove
BY KeysAreNumbers DEF DoorInv, DoorTypeOK, RowsMove

LEMMA FlushMoves ==
  ASSUME DoorInv, NEW c \in calls, rows' = Flushed(c), drawn' = drawn
  PROVE  RowsMove
<1>1. drawn \in 0 .. MaxKeys /\ drawn <= drawn
  BY KeysAreNumbers DEF DoorInv, DoorTypeOK
<1>2. \A k \in Keys : k > drawn => rows[k] = None
  BY DEF DoorInv
<1> QED
  BY <1>1, <1>2, FlushedMoves DEF RowsMove

(* A row under a fresh key, with or without the old one going.             *)
LEMMA DrawMoves ==
  ASSUME DoorInv, Draw, NEW old \in [Keys -> Row], NEW new \in Row,
         \A k \in Keys : old[k] \in {rows[k], None},
         rows' = [old EXCEPT ![Fresh] = new]
  PROVE  RowsMove /\ Fresh \in Keys /\ drawn' = Fresh /\ DrawnNext(Fresh)
<1>1. drawn \in Nat /\ drawn < MaxKeys /\ MaxKeys \in Nat /\ drawn' = drawn + 1
  BY KeysAreNumbers DEF DoorInv, DoorTypeOK, Draw, Fresh
<1>2. Fresh \in Keys /\ drawn' = Fresh /\ drawn' \in 0 .. MaxKeys /\ drawn <= drawn'
  BY <1>1 DEF Fresh, Keys, Draw
<1>3. \A k \in Keys : k # Fresh => rows'[k] = old[k]
  BY <1>2
<1>4. rows' \in [Keys -> Row]
  BY <1>2
<1>5. \A k \in Keys : k <= drawn => rows'[k] \in {rows[k], None}
  BY <1>1, <1>3, KeysAreNumbers DEF Fresh
<1>6. \A k \in Keys : k > drawn' => rows'[k] = None
  <2>1. \A k \in Keys : k > drawn => rows[k] = None
    BY DEF DoorInv
  <2> QED
    BY <1>1, <1>3, <2>1, KeysAreNumbers DEF Fresh
<1> QED
  <2>1. RowsMove
    BY <1>2, <1>4, <1>5, <1>6 DEF RowsMove
  <2>2. DrawnNext(Fresh)
    BY <1>1, <1>2 DEF DrawnNext, Fresh
  <2> QED
    BY <1>2, <2>1, <2>2

(* An answer is fit when it serves nobody but the owner of the session the *)
(* call left under, and a write only under that session's token.           *)
LEMMA AnswerFits ==
  ASSUME DoorInv, RowsMove, NEW c \in calls,
         NEW status \in Statuses, NEW cookie \in Keys \cup {Keep, Drop},
         NEW served \in Subjects \cup {None}, NEW csrf \in Keys \cup {None},
         DrawnNext(cookie),
         c.kind \in Client /\ served # None => served = c.owner,
         c.kind = "write" /\ served # None => c.header = c.cookie,
         Answer(c, status, cookie, served, csrf)
  PROVE  Moved(c)
<1>1. c \in Call /\ None \in Row
  BY DEF DoorInv, DoorTypeOK, Row
<1>2. PICK own \in BOOLEAN : own = (c.kind = "write" /\ c.header = c.cookie)
  OBVIOUS
<1>3. PICK said \in Statuses :
        said = IF c.kind \in Unread THEN "ok" ELSE status
  BY DEF Statuses
<1>4. PICK owner : owner = IF served = None THEN None ELSE c.owner
  OBVIOUS
<1>5. owner \in Subjects \cup {None}
  BY <1>1, <1>4 DEF Call
<1>6. PICK n : n = [c EXCEPT !.stage = "answered", !.status = said,
                             !.token = None, !.cookie = None, !.header = None,
                             !.held = None, !.set_cookie = cookie,
                             !.csrf_token = csrf, !.served = served,
                             !.owner = owner, !.own = own]
  OBVIOUS
<1>7. n \in Call
  BY <1>1, <1>5, <1>6 DEF Call
<1>8. /\ n.cookie = None /\ n.set_cookie = cookie /\ n.stage = "answered"
      /\ n.held = None /\ n.served = served /\ n.kind = c.kind
      /\ n.owner = owner /\ n.own = own
  BY <1>1, <1>6 DEF Call
<1>9. calls' = (calls \ {c}) \cup {n}
  BY <1>2, <1>3, <1>4, <1>6 DEF Answer
<1>10. CallFits(n)'
  BY <1>2, <1>4, <1>8, KeysAreNumbers DEF CallFits, Drawn, DrawnNext, Live
<1> QED
  BY <1>7, <1>9, <1>10 DEF Moved

(* Who a call finds is who its cookie named when it left, or nobody.       *)
LEMMA FoundIsOwner ==
  ASSUME DoorInv, NEW c \in calls, c.stage = "sent", c.kind \in Client,
         get_client(c) # None
  PROVE  /\ get_client(c) = c.owner /\ get_client(c) \in Subjects
         /\ csrf_token(c) = c.cookie /\ c.cookie \in Keys
<1>1. CallFits(c) /\ c \in Call /\ rows \in [Keys -> Row]
  BY DEF DoorInv, DoorTypeOK
<1>2. c.cookie # None /\ store(c) = rows[c.cookie]
  BY DEF get_client, store, Identified
<1>3. c.cookie \in Keys
  BY <1>1, <1>2 DEF Call
<1>4. /\ Identified(rows[c.cookie]) /\ ~rows[c.cookie].over
      /\ get_client(c) = rows[c.cookie].subject
  BY <1>2 DEF get_client
<1>5. rows[c.cookie].subject \in Subjects
  BY <1>1, <1>3, <1>4 DEF Identified, Row, Session
<1> QED
  BY <1>1, <1>2, <1>3, <1>4, <1>5 DEF CallFits, Live, csrf_token

LEMMA RefuseFits ==
  ASSUME DoorInv, NEW c \in calls, Refuse(c), drawn' = drawn
  PROVE  RowsMove /\ Moved(c)
<1>1. RowsMove
  BY NothingMoves DEF Refuse
<1>2. DrawnNext(Keep)
  BY KeysAreNumbers DEF DrawnNext
<1> QED
  BY <1>1, <1>2, AnswerFits DEF Refuse, Statuses

LEMMA ExpungeDrawn ==
  ASSUME NEW c
  PROVE  Expunge(c) \in Keys \cup {Keep, Drop} /\ DrawnNext(Expunge(c))
BY KeysAreNumbers DEF Expunge, DrawnNext

LEMMA ServeFits ==
  ASSUME DoorInv, NEW c \in calls, c.stage = "sent", c.kind \in Client, Serve(c),
         drawn' = drawn, c.kind = "write" => _token_ok(c)
  PROVE  RowsMove /\ Moved(c)
<1>0. DrawnNext(Keep) /\ DrawnNext(Expunge(c)) /\ Expunge(c) \in Keys \cup {Keep, Drop}
  BY KeysAreNumbers, ExpungeDrawn DEF DrawnNext
<1>1. CASE get_client(c) = None
  <2>1. NoSession(c)
    BY <1>1 DEF Serve
  <2>2. RowsMove
    BY <2>1, NothingMoves, FlushMoves DEF NoSession
  <2> QED
    BY <1>0, <2>1, <2>2, AnswerFits DEF NoSession, Statuses
<1>2. CASE get_client(c) # None
  <2>1. /\ get_client(c) = c.owner /\ get_client(c) \in Subjects
        /\ csrf_token(c) = c.cookie /\ c.cookie \in Keys
    BY <1>2, FoundIsOwner
  <2>2. RowsMove
    BY <1>2, NothingMoves DEF Serve
  <2>3. c.kind = "write" => c.header = c.cookie
    BY <2>1, KeysAreNumbers DEF _token_ok
  <2> QED
    BY <1>0, <1>2, <2>1, <2>2, <2>3, AnswerFits DEF Serve, Statuses
<1> QED
  BY <1>1, <1>2

LEMMA HandleFits ==
  ASSUME DoorInv, NEW c \in calls, Handle(c)
  PROVE  RowsMove /\ Moved(c) /\ client' = client
<1>0. /\ c.stage = "sent" /\ CallFits(c) /\ c \in Call /\ drawn \in Nat
      /\ DrawnNext(Keep) /\ DrawnNext(Expunge(c)) /\ Expunge(c) \in Keys \cup {Keep, Drop}
  BY KeysAreNumbers, ExpungeDrawn DEF DoorInv, DoorTypeOK, DrawnNext, Handle
<1>1. CASE Get(c)
  BY <1>0, <1>1, ServeFits DEF Get, Client
<1>2. CASE dispatch(c)
  BY <1>0, <1>2, ServeFits, RefuseFits DEF dispatch, Client
<1>3. CASE Disabled(c)
  BY <1>0, <1>3, FlushMoves, AnswerFits DEF Disabled, Client, Statuses
<1>4. CASE start(c)
  <2>1. [subject |-> c.token, over |-> FALSE] \in Row /\ c.token \in Subjects \cup {None}
    BY <1>0 DEF Call, Row, Session
  <2>2. RowsMove /\ Fresh \in Keys /\ DrawnNext(Fresh)
    BY <1>4, <2>1, FlushedMoves, DrawMoves DEF start
  <2> QED
    BY <1>4, <2>1, <2>2, AnswerFits DEF start, Client, Statuses
<1>5. CASE Unverified(c)
  BY <1>0, <1>5, NothingMoves, AnswerFits DEF Unverified, Client, Statuses
<1>6. CASE Delete(c)
  <2>1. CASE _token_ok(c)
    BY <1>0, <1>6, <2>1, FlushMoves, AnswerFits DEF Delete, Client, Statuses
  <2>2. CASE ~_token_ok(c)
    BY <1>6, <2>2, RefuseFits DEF Delete
  <2> QED
    BY <1>6, <2>1, <2>2 DEF Delete
<1>7. CASE Prefer(c)
  <2>1. CASE _token_ok(c)
    <3>1. store(c) \in Row /\ store(c) = IF c.cookie = None THEN None ELSE rows[c.cookie]
      BY <1>0 DEF store, DoorInv, DoorTypeOK, Call, Row
    <3>2. PICK n : n = [c EXCEPT !.stage = "held", !.held = store(c)]
      OBVIOUS
    <3>3. RowsMove /\ rows' = rows /\ drawn' = drawn /\ calls' = (calls \ {c}) \cup {n}
      BY <1>7, <2>1, <3>2, NothingMoves DEF Prefer
    <3>4. n \in Call
      BY <1>0, <3>1, <3>2 DEF Call
    <3>5. /\ n.stage = "held" /\ n.held = store(c) /\ n.cookie = c.cookie
          /\ n.kind = "preference" /\ n.served = c.served
          /\ n.set_cookie = c.set_cookie
      BY <1>0, <1>7, <3>2 DEF Call, Prefer
    <3>6. CallFits(n)'
      BY <1>0, <3>1, <3>3, <3>5 DEF CallFits, Drawn, Client
    <3> QED
      BY <1>7, <3>3, <3>4, <3>6 DEF Moved, Prefer
  <2>2. CASE ~_token_ok(c)
    BY <1>7, <2>2, RefuseFits DEF Prefer
  <2> QED
    BY <1>7, <2>1, <2>2 DEF Prefer
<1> QED
  BY <1>1, <1>2, <1>3, <1>4, <1>5, <1>6, <1>7 DEF Handle

(* What is saved is what is there.                                         *)
LEMMA PersistFits ==
  ASSUME DoorInv, NEW c \in calls, _persist(c)
  PROVE  RowsMove /\ Moved(c) /\ client' = client
<1>0. /\ c.stage = "held" /\ CallFits(c) /\ c \in Call /\ c.kind \notin Client
      /\ DrawnNext(Keep) /\ client' = client /\ rows \in [Keys -> Row]
  BY KeysAreNumbers DEF DoorInv, DoorTypeOK, DrawnNext, _persist, CallFits, Client
<1>1. CASE /\ c.held = None /\ Draw
           /\ rows' = [rows EXCEPT ![Fresh] = Anonymous]
           /\ Answer(c, "ok", Fresh, None, None)
  <2>1. Anonymous \in Row
    BY DEF Anonymous, Row, Session
  <2>2. RowsMove /\ Fresh \in Keys /\ DrawnNext(Fresh)
    BY <1>0, <1>1, <2>1, DrawMoves
  <2> QED
    BY <1>0, <1>1, <2>2, AnswerFits DEF Statuses
<1>2. CASE /\ Answer(c, "refused", Keep, None, None)
           /\ UNCHANGED <<drawn, rows>>
  BY <1>0, <1>2, NothingMoves, AnswerFits DEF Statuses
<1>3. CASE /\ c.held # None /\ rows[c.cookie] # None
           /\ rows' = [rows EXCEPT ![c.cookie] = c.held]
           /\ Answer(c, "ok", c.cookie, None, None)
           /\ UNCHANGED drawn
  <2>1. c.cookie \in Keys /\ rows[c.cookie] = c.held
    BY <1>0, <1>3 DEF CallFits, Call
  <2>2. rows' = rows
    BY <1>0, <1>3, <2>1
  <2>3. RowsMove /\ DrawnNext(c.cookie)
    BY <1>0, <1>3, <2>2, NothingMoves DEF CallFits, Drawn, DrawnNext
  <2> QED
    BY <1>0, <1>3, <2>1, <2>3, AnswerFits DEF Statuses
<1> QED
  BY <1>0, <1>1, <1>2, <1>3 DEF _persist

-----------------------------------------------------------------------------
(* A step of the server, or of a browser, that leaves calls fit.           *)
LEMMA ServerKeeps ==
  ASSUME DoorInv, NEW c \in calls, Serving(c)
  PROVE  DoorInv'
<1>1. RowsMove /\ Moved(c) /\ client' = client
  BY HandleFits, PersistFits DEF Serving
<1>2. PICK n \in Call : CallFits(n)' /\ calls' = (calls \ {c}) \cup {n}
  BY <1>1 DEF Moved
<1>3. \A d \in calls' : CallFits(d)'
  BY <1>1, <1>2, CallStays
<1>4. DoorTypeOK'
  BY <1>1, <1>2 DEF DoorInv, DoorTypeOK, RowsMove
<1>5. Tabs'
  <2>1. UNCHANGED <<jar, frame, user, leaving>>
    BY DEF Serving, Browser
  <2>2. Drawn(jar)'
    BY <1>1, <2>1, KeysAreNumbers DEF DoorInv, DoorTypeOK, Tabs, Drawn, RowsMove
  <2> QED
    BY <2>1, <2>2 DEF DoorInv, Tabs
<1> QED
  BY <1>1, <1>3, <1>4, <1>5 DEF DoorInv, RowsMove

LEMMA BrowserKeeps ==
  ASSUME DoorInv, NEW new \in SUBSET Call,
         \A c \in new : CallFits(c), calls' \subseteq calls \cup new,
         UNCHANGED <<client, drawn, rows>>, Tabs'
  PROVE  DoorInv'
<1>1. RowsMove
  BY NothingMoves
<1>2. \A c \in calls' : CallFits(c)'
  BY DEF DoorInv, CallFits, Drawn, Live, Identified
<1>3. DoorTypeOK'
  BY DEF DoorInv, DoorTypeOK
<1> QED
  BY <1>1, <1>2, <1>3 DEF DoorInv, RowsMove

LEMMA QuietKeeps ==
  ASSUME DoorInv, calls' \subseteq calls, UNCHANGED <<client, drawn, rows>>, Tabs'
  PROVE  DoorInv'
<1>1. PICK new \in SUBSET Call : new = {}
  OBVIOUS
<1> QED
  BY <1>1, BrowserKeeps

(* A call leaves fit: its owner is read from the session its cookie names. *)
LEMMA NewFits ==
  ASSUME DoorInv, NEW f \in Frames, NEW kind \in Kinds, NEW token \in Subjects \cup {None}
  PROVE  New(f, kind, token) \in Call /\ CallFits(New(f, kind, token))
<1>1. /\ jar \in Keys \cup {None} /\ Drawn(jar) /\ rows \in [Keys -> Row]
      /\ frame[f].csrfToken \in Keys \cup {None}
  BY DEF DoorInv, DoorTypeOK, Tabs, Frame
<1>2. Owner(jar) \in Subjects \cup {None}
  BY <1>1 DEF Owner, Identified, Row, Session
<1>3. PICK n : n = New(f, kind, token)
  OBVIOUS
<1>4. /\ n.page = f /\ n.kind = kind /\ n.token = token /\ n.cookie = jar
      /\ n.stage = "sent" /\ n.held = None /\ n.served = None
      /\ n.set_cookie = Keep
      /\ n.owner = IF kind \in {"probe", "write"} THEN Owner(jar) ELSE None
  BY <1>3 DEF New
<1>5. n \in Call
  BY <1>1, <1>2, <1>3 DEF New, Call, Row, Statuses
<1>6. CallFits(n)
  BY <1>1, <1>4, KeysAreNumbers DEF CallFits, Drawn, Client, Live, Owner
<1> QED
  BY <1>3, <1>5, <1>6

LEMMA SendKeeps ==
  ASSUME DoorInv, NEW f \in Frames, NEW kind \in Kinds, NEW token \in Subjects \cup {None},
         calls' \subseteq calls \cup {New(f, kind, token)},
         UNCHANGED <<client, drawn, rows>>, Tabs'
  PROVE  DoorInv'
<1>1. PICK n : n = New(f, kind, token)
  OBVIOUS
<1>2. n \in Call /\ CallFits(n)
  BY <1>1, NewFits
<1>3. PICK new \in SUBSET Call : new = {n}
  BY <1>2
<1>4. (\A c \in new : CallFits(c)) /\ calls' \subseteq calls \cup new
  BY <1>1, <1>2, <1>3
<1> QED
  BY <1>4, BrowserKeeps

(* A frame stays a frame, and the jar is the browser's.                    *)
LEMMA FrameKeeps ==
  ASSUME Tabs, NEW f \in Frames, NEW p \in Frame, frame' = [frame EXCEPT ![f] = p],
         UNCHANGED <<drawn, jar>>, user' \in Subjects \cup {None}, leaving' \in SUBSET Frames
  PROVE  Tabs'
BY DEF Tabs, Drawn

LEMMA TabKeeps ==
  ASSUME DoorInv, NEW f \in Frames,
         \/ Start(f) \/ Token(f) \/ TokenError(f) \/ endSession(f)
         \/ Timeout(f) \/ Ask(f) \/ savePreference(f) \/ Write(f)
  PROVE  DoorInv'
<1>0. /\ Tabs /\ frame[f] \in Frame /\ user \in Subjects \cup {None}
      /\ leaving \in SUBSET Frames /\ None \in Subjects \cup {None}
      /\ leaving \ {f} \in SUBSET Frames
  BY DEF DoorInv, Tabs
<1>1. CASE Start(f)
  <2>1. Loading \in Frame
    BY DEF Loading, Frame
  <2>2. Tabs'
    BY <1>0, <1>1, <2>1, FrameKeeps DEF Start
  <2> QED
    BY <1>0, <1>1, <2>2, SendKeeps DEF Start, Kinds
<1>2. CASE Token(f)
  <2>1. [frame[f] EXCEPT !.tokenTimer = FALSE, !.pending = TRUE] \in Frame
    BY <1>0 DEF Frame
  <2>2. frame' = [frame EXCEPT ![f] = [frame[f] EXCEPT !.tokenTimer = FALSE, !.pending = TRUE]]
    BY <1>0, <1>2 DEF Token, Tabs, Frame
  <2>3. Tabs'
    BY <1>0, <1>2, <2>1, <2>2, FrameKeeps DEF Token
  <2> QED
    BY <1>0, <1>2, <2>3, SendKeeps DEF Token, Send, Kinds
<1>3. CASE TokenError(f)
  <2>1. discardSession(frame[f]) \in Frame
    BY <1>0 DEF discardSession, Frame
  <2>2. Tabs'
    BY <1>0, <1>3, <2>1, FrameKeeps DEF TokenError
  <2> QED
    BY <1>0, <1>3, <2>2, SendKeeps DEF TokenError, Send, Kinds
<1>4. CASE endSession(f)
  <2>1. discardSession(frame[f]) \in Frame
    BY <1>0 DEF discardSession, Frame
  <2>2. Tabs'
    BY <1>0, <1>4, <2>1, FrameKeeps DEF endSession
  <2> QED
    BY <1>0, <1>4, <2>2, SendKeeps DEF endSession, Send, Kinds
<1>5. CASE Timeout(f)
  <2>1. fail(frame[f]) \in Frame
    BY <1>0 DEF fail, Frame
  <2>2. Tabs'
    BY <1>0, <1>5, <2>1, FrameKeeps DEF Timeout
  <2> QED
    BY <1>5, <2>2, QuietKeeps DEF Timeout
<1>6. CASE Ask(f)
  <2>1. requestToken(frame[f]) \in Frame
    BY <1>0 DEF requestToken, Frame
  <2>2. Tabs'
    BY <1>0, <1>6, <2>1, FrameKeeps DEF Ask
  <2> QED
    BY <1>6, <2>2, QuietKeeps DEF Ask
<1>7. CASE savePreference(f)
  <2>1. Tabs'
    BY <1>0, <1>7 DEF savePreference, Tabs, Drawn
  <2> QED
    BY <1>0, <1>7, <2>1, SendKeeps DEF savePreference, Send, Kinds
<1>8. CASE Write(f)
  <2>1. Tabs'
    BY <1>0, <1>8 DEF Write, Tabs, Drawn
  <2> QED
    BY <1>0, <1>8, <2>1, SendKeeps DEF Write, Send, Kinds
<1> QED
  BY <1>1, <1>2, <1>3, <1>4, <1>5, <1>6, <1>7, <1>8

(* A call that is over, answered or lost.                                  *)
LEMMA LandKeeps ==
  ASSUME DoorInv, NEW c \in calls, NEW arrived \in BOOLEAN, Land(c, arrived),
         calls' = calls \ {c}, UNCHANGED <<client, drawn, rows, user, leaving>>,
         jar' \in Keys \cup {None}, Drawn(jar)'
  PROVE  DoorInv'
<1>1. /\ Tabs /\ c \in Call /\ c.page \in Frames /\ frame[c.page] \in Frame
      /\ c.csrf_token \in Keys \cup {None}
  BY DEF DoorInv, DoorTypeOK, Tabs, Call
<1> DEFINE p == frame[c.page]
<1>2. /\ requestToken(p) \in Frame /\ fail(p) \in Frame /\ adopt(p, c) \in Frame
      /\ Discarded(p) \in Frame /\ fail(Discarded(p)) \in Frame
      /\ adopt([p EXCEPT !.pending = FALSE], c) \in Frame
  BY <1>1 DEF requestToken, fail, adopt, Discarded, Frame
<1>3. probed(p, c, arrived) \in Frame /\ exchange(p, c, arrived) \in Frame
  BY <1>1, <1>2 DEF probed, exchange
<1>4. \E q \in Frame : frame' = [frame EXCEPT ![c.page] = q]
  BY <1>1, <1>2, <1>3 DEF Land, Call, Kinds
<1>5. Tabs'
  BY <1>1, <1>4 DEF Tabs
<1> QED
  BY <1>5, QuietKeeps

LEMMA ExpireKeeps ==
  ASSUME DoorInv, NEW k \in Keys, Expire(k), UNCHANGED Browser
  PROVE  DoorInv'
<1>1. /\ rows \in [Keys -> Row] /\ rows' = [rows EXCEPT ![k].over = TRUE]
      /\ rows[k] \in Session /\ rows[k] # None /\ UNCHANGED <<client, drawn>>
      /\ [rows[k] EXCEPT !.over = TRUE] \in Session
      /\ k <= drawn /\ drawn \in Nat
  <2>1. rows \in [Keys -> Row] /\ drawn \in Nat /\ (k > drawn => rows[k] = None)
    BY KeysAreNumbers DEF DoorInv, DoorTypeOK
  <2>2. rows[k] \in Session /\ rows[k] # None
    BY <2>1 DEF Expire, Identified, Row
  <2>3. [rows[k] EXCEPT !.over = TRUE] \in Session
    BY <2>2 DEF Session
  <2>4. k <= drawn
    BY <2>1, <2>2, KeysAreNumbers
  <2> QED
    BY <2>1, <2>2, <2>3, <2>4 DEF Expire
<1>2. /\ rows'[k] = [rows[k] EXCEPT !.over = TRUE]
      /\ \A l \in Keys : l # k => rows'[l] = rows[l]
      /\ rows' \in [Keys -> Row]
  BY <1>1 DEF Row
<1>3. ASSUME NEW d \in calls'
      PROVE  d \in Call /\ CallFits(d)'
  <2>1. PICK c \in calls : d = IF c.cookie = k /\ Identified(c.held)
                               THEN [c EXCEPT !.held.over = TRUE] ELSE c
    BY <1>3 DEF Expire
  <2>2. c \in Call /\ CallFits(c)
    BY DEF DoorInv, DoorTypeOK
  <2>3. CASE c.cookie = k /\ Identified(c.held)
    <3>1. c.held \in Session /\ c.held # None /\ rows[k] = c.held
      BY <1>1, <2>2, <2>3 DEF Call, Row, Identified, CallFits
    <3>2. d = [c EXCEPT !.held = [rows[k] EXCEPT !.over = TRUE]]
      BY <2>1, <2>2, <2>3, <3>1 DEF Call
    <3>3. d \in Call
      BY <1>1, <2>2, <3>2 DEF Call, Row
    <3>4. /\ d.cookie = c.cookie /\ d.set_cookie = c.set_cookie /\ d.stage = c.stage
          /\ d.kind = c.kind /\ d.served = c.served /\ d.owner = c.owner /\ d.own = c.own
          /\ d.held = rows'[k]
      BY <1>2, <2>2, <3>2 DEF Call
    <3>5. c.stage = "held" /\ c.kind \notin Client
      BY <2>2, <3>1 DEF CallFits, Client
    <3> QED
      BY <1>1, <2>2, <2>3, <3>3, <3>4, <3>5, KeysAreNumbers DEF CallFits, Drawn, Client
  <2>4. CASE c.cookie = k /\ ~Identified(c.held)
    <3>1. d = c
      BY <2>1, <2>4
    <3>2. c.held = None
      <4>1. c.held # None => c.held = rows[k]
        BY <1>1, <2>2, <2>4 DEF CallFits
      <4>2. Identified(rows[k])
        BY DEF Expire
      <4> QED
        BY <2>4, <4>1, <4>2
    <3>3. ~ Live(c.cookie)'
      BY <1>1, <1>2, <2>4 DEF Live, Session
    <3> QED
      BY <1>1, <2>2, <3>1, <3>2, <3>3 DEF CallFits, Drawn
  <2>5. CASE c.cookie # k
    <3>1. d = c
      BY <2>1, <2>5
    <3>2. c.cookie # None => c.cookie \in Keys /\ rows'[c.cookie] = rows[c.cookie]
      BY <1>2, <2>2, <2>5 DEF Call
    <3> QED
      BY <1>1, <2>2, <3>1, <3>2 DEF CallFits, Drawn, Live, Identified
  <2> QED
    BY <2>3, <2>4, <2>5
<1>4. DoorTypeOK'
  BY <1>1, <1>2, <1>3 DEF DoorInv, DoorTypeOK
<1>5. Tabs'
  BY <1>1 DEF DoorInv, Tabs, Browser, Drawn
<1>6. \A l \in Keys : l > drawn' => rows'[l] = None
  BY <1>1, <1>2, KeysAreNumbers DEF DoorInv
<1> QED
  BY <1>3, <1>4, <1>5, <1>6 DEF DoorInv

(* Another tab opens a session or ends one: the rows move, nobody's call   *)
(* does.                                                                   *)
LEMMA ElsewhereKeeps ==
  ASSUME DoorInv, OpenElsewhere \/ EndElsewhere
  PROVE  DoorInv'
<1>0. /\ Tabs /\ rows \in [Keys -> Row] /\ None \in Row /\ drawn \in 0 .. MaxKeys
      /\ calls' = calls /\ client' = client /\ UNCHANGED <<frame, user, leaving>>
  BY DEF DoorInv, DoorTypeOK, OpenElsewhere, EndElsewhere, Row
<1>1. RowsMove /\ jar' \in Keys \cup {None} /\ Drawn(jar)'
  <2>1. CASE OpenElsewhere
    <3>1. PICK old : old = IF jar = None THEN rows ELSE [rows EXCEPT ![jar] = None]
      OBVIOUS
    <3>2. old \in [Keys -> Row] /\ \A k \in Keys : old[k] \in {rows[k], None}
      BY <1>0, <3>1 DEF Tabs
    <3>3. PICK new : new = [subject |-> user, over |-> FALSE]
      OBVIOUS
    <3>4. new \in Row
      BY <1>0, <3>3 DEF Tabs, Row, Session
    <3>5. rows' = [old EXCEPT ![Fresh] = new] /\ Draw /\ jar' = Fresh
      BY <2>1, <3>1, <3>3 DEF OpenElsewhere
    <3>6. RowsMove /\ Fresh \in Keys /\ drawn' = Fresh
      BY <3>2, <3>4, <3>5, DrawMoves
    <3> QED
      BY <3>5, <3>6, KeysAreNumbers DEF Drawn
  <2>2. CASE EndElsewhere
    <3>1. rows' = [rows EXCEPT ![jar] = None] /\ drawn' = drawn /\ jar' = None
      BY <2>2 DEF EndElsewhere
    <3>2. \A k \in Keys : k > drawn => rows[k] = None
      BY DEF DoorInv
    <3>3. rows' \in [Keys -> Row] /\ \A k \in Keys : rows'[k] \in {rows[k], None}
      BY <1>0, <3>1
    <3>4. drawn' \in 0 .. MaxKeys /\ drawn <= drawn'
      BY <1>0, <3>1, KeysAreNumbers
    <3>5. RowsMove
      BY <3>1, <3>2, <3>3, <3>4 DEF RowsMove
    <3> QED
      BY <3>1, <3>5, KeysAreNumbers DEF Drawn
  <2> QED
    BY <2>1, <2>2
<1>2. \A c \in calls' : CallFits(c)'
  BY <1>0, <1>1, CallStays
<1>3. DoorTypeOK'
  BY <1>0, <1>1 DEF DoorInv, DoorTypeOK, RowsMove
<1> QED
  BY <1>0, <1>1, <1>2, <1>3 DEF DoorInv, RowsMove, Tabs

LEMMA OverKeeps ==
  ASSUME DoorInv, NEW c \in calls, Arrive(c) \/ Lose(c)
  PROVE  DoorInv'
<1>1. c \in Call /\ CallFits(c) /\ Tabs /\ drawn' = drawn /\ rows' = rows /\ client' = client
  BY DEF DoorInv, DoorTypeOK, Arrive, Lose
<1>2. jar' \in Keys \cup {None} /\ Drawn(jar)'
  BY <1>1, KeysAreNumbers DEF Arrive, Lose, Call, CallFits, Tabs, Drawn
<1>3. \E arrived \in BOOLEAN : Land(c, arrived)
  BY DEF Arrive, Lose
<1>4. calls' = calls \ {c} /\ UNCHANGED <<user, leaving>>
  BY DEF Arrive, Lose
<1> QED
  BY <1>1, <1>2, <1>3, <1>4, LandKeeps

LEMMA DoorStarts ==
  ASSUME Init
  PROVE  DoorInv
<1>1. drawn = 0 /\ 0 \in 0 .. MaxKeys
  BY KeysAreNumbers DEF Init
<1>2. Loading \in Frame
  BY DEF Loading, Frame
<1>3. DoorTypeOK
  BY <1>1 DEF Init, DoorTypeOK, Row
<1>4. Tabs
  BY <1>2, KeysAreNumbers DEF Init, Tabs, Drawn
<1> QED
  BY <1>3, <1>4 DEF Init, DoorInv

LEMMA DoorStep ==
  ASSUME DoorInv, [Next]_door
  PROVE  DoorInv'
<1>1. ASSUME NEW s \in Subjects, SignIn(s) PROVE DoorInv'
  <2>1. Tabs'
    BY <1>1 DEF DoorInv, Tabs, Drawn, SignIn
  <2> QED
    BY <1>1, <2>1, QuietKeeps DEF SignIn
<1>2. CASE SignOut
  <2>1. Tabs'
    BY <1>2 DEF DoorInv, Tabs, Drawn, SignOut
  <2> QED
    BY <1>2, <2>1, QuietKeeps DEF SignOut
<1>3. ASSUME NEW s \in Subjects, SetActive(s) /\ UNCHANGED Browser PROVE DoorInv'
  <2>1. Tabs'
    BY <1>3 DEF DoorInv, Tabs, Drawn, SetActive, Browser
  <2>2. DoorTypeOK'
    BY <1>3 DEF DoorInv, DoorTypeOK, SetActive
  <2>3. UNCHANGED <<drawn, rows, calls>>
    BY <1>3 DEF SetActive
  <2> QED
    BY <2>1, <2>2, <2>3 DEF DoorInv, CallFits, Drawn, Live
<1>4. CASE UNCHANGED door
  BY <1>4 DEF door, DoorInv, DoorTypeOK, Tabs, CallFits, Drawn, Live
<1> QED
  BY <1>1, <1>2, <1>3, <1>4, TabKeeps, ElsewhereKeeps, ExpireKeeps, ServerKeeps, OverKeeps
     DEF Next

(* The inductive invariant.                                                *)
THEOREM DoorAlways == Spec => []DoorInv
<1>1. Init => DoorInv
  BY DoorStarts
<1>2. DoorInv /\ [Next]_door => DoorInv'
  BY DoorStep
<1> QED
  BY <1>1, <1>2, PTL DEF Spec

(* Every call is answered as the client whose live session was in the      *)
(* browser when it left, or as nobody.                                     *)
THEOREM NobodyElseServed == Spec => []ServedAsOpened
<1>1. DoorInv => ServedAsOpened
  BY DEF DoorInv, CallFits, ServedAsOpened, Client
<1> QED
  BY <1>1, DoorAlways, PTL

(* A page's write is done only under the session whose token the page      *)
(* holds.                                                                  *)
THEOREM WritesUnderOwnToken == Spec => []WritesAreOwn
<1>1. DoorInv => WritesAreOwn
  BY DEF DoorInv, CallFits, WritesAreOwn
<1> QED
  BY <1>1, DoorAlways, PTL

-----------------------------------------------------------------------------
(* No more calls are under way than the bound lets out.                    *)
Few == IsFiniteSet(calls) /\ Cardinality(calls) <= MaxCalls

LEMMA OneMore ==
  ASSUME Few, Room, NEW f, NEW kind, NEW token,
         calls' \subseteq calls \cup {New(f, kind, token)}
  PROVE  Few'
<1>1. MaxCalls \in Nat /\ Cardinality(calls) \in Nat
  BY FS_CardinalityType, AccessAssumption DEF Few
<1>2. PICK n : n = New(f, kind, token)
  OBVIOUS
<1>3. IsFiniteSet(calls \cup {n}) /\ Cardinality(calls \cup {n}) <= Cardinality(calls) + 1
  <2>1. /\ IsFiniteSet(calls \cup {n})
        /\ \/ Cardinality(calls \cup {n}) = Cardinality(calls)
           \/ Cardinality(calls \cup {n}) = Cardinality(calls) + 1
    BY FS_AddElement, Zenon DEF Few
  <2> QED
    BY <1>1, <2>1
<1>4. IsFiniteSet(calls') /\ Cardinality(calls') <= Cardinality(calls \cup {n})
  BY <1>2, <1>3, FS_Subset
<1> QED
  BY <1>1, <1>3, <1>4, FS_CardinalityType DEF Few, Room

LEMMA OneForOne ==
  ASSUME Few, NEW c \in calls, NEW n, calls' = (calls \ {c}) \cup {n}
  PROVE  Few'
<1>1. MaxCalls \in Nat /\ Cardinality(calls) \in Nat
  BY FS_CardinalityType, AccessAssumption DEF Few
<1>2. /\ IsFiniteSet(calls \ {c}) /\ Cardinality(calls \ {c}) = Cardinality(calls) - 1
  BY FS_RemoveElement DEF Few
<1>3. IsFiniteSet(calls') /\ Cardinality(calls') <= Cardinality(calls)
  <2> DEFINE rest == calls \ {c}
  <2>1. /\ IsFiniteSet(rest \cup {n})
        /\ \/ Cardinality(rest \cup {n}) = Cardinality(rest)
           \/ Cardinality(rest \cup {n}) = Cardinality(rest) + 1
    <3> HIDE DEF rest
    <3>1. IsFiniteSet(rest)
      BY <1>2 DEF rest
    <3> QED
      BY <3>1, FS_AddElement, Zenon
  <2> QED
    BY <1>1, <1>2, <2>1
<1> QED
  BY <1>1, <1>3, FS_CardinalityType DEF Few

LEMMA NoMore ==
  ASSUME Few, calls' \subseteq calls
  PROVE  Few'
<1>1. IsFiniteSet(calls') /\ Cardinality(calls') <= Cardinality(calls)
  BY FS_Subset DEF Few
<1> QED
  BY <1>1, AccessAssumption, FS_CardinalityType DEF Few

(* An expiry changes calls one by one.                                     *)
LEMMA ExpiryFew ==
  ASSUME Few, NEW k \in Keys, Expire(k)
  PROVE  Few'
<1>1. PICK f : f = [c \in calls |-> IF c.cookie = k /\ Identified(c.held)
                                    THEN [c EXCEPT !.held.over = TRUE] ELSE c]
  OBVIOUS
<1>2. calls' = {f[c] : c \in calls}
  BY <1>1 DEF Expire
<1>3. f \in Surjection(calls, calls')
  BY <1>1, <1>2 DEF Surjection
<1>4. IsFiniteSet(calls') /\ Cardinality(calls') <= Cardinality(calls)
  BY <1>3, FS_Surjection DEF Few
<1> QED
  BY <1>4, AccessAssumption, FS_CardinalityType DEF Few

LEMMA FewStep ==
  ASSUME DoorInv, Few, [Next]_door
  PROVE  Few'
<1>1. ASSUME NEW f \in Frames,
             \/ Start(f) \/ Token(f) \/ TokenError(f) \/ endSession(f)
             \/ Timeout(f) \/ Ask(f) \/ savePreference(f) \/ Write(f)
      PROVE  Few'
  BY <1>1, OneMore, NoMore
     DEF Start, Token, TokenError, endSession, Timeout, Ask, savePreference, Write, Send
<1>2. ASSUME NEW c \in calls, Serving(c) PROVE Few'
  <2>1. Moved(c)
    BY <1>2, HandleFits, PersistFits DEF Serving
  <2> QED
    BY <2>1, OneForOne DEF Moved
<1>3. ASSUME NEW c \in calls, Arrive(c) \/ Lose(c) PROVE Few'
  BY <1>3, NoMore DEF Arrive, Lose
<1>4. CASE SignOut \/ OpenElsewhere \/ EndElsewhere
           \/ (\E s \in Subjects : SignIn(s) \/ SetActive(s)) \/ UNCHANGED door
  BY <1>4, NoMore DEF SignOut, OpenElsewhere, EndElsewhere, SignIn, SetActive, door
<1> QED
  BY <1>1, <1>2, <1>3, <1>4, ExpiryFew DEF Next

(* Rows, calls, cookies and frames stay of their types, and there are      *)
(* never more calls under way than are let out.                            *)
THEOREM TypeCorrect == Spec => []TypeOK
<1>1. Init => Few
  BY FS_EmptySet, AccessAssumption DEF Init, Few
<1>2. DoorInv /\ Few /\ [Next]_door => Few'
  BY FewStep
<1>3. DoorInv /\ Few => TypeOK
  BY DEF DoorInv, Tabs, Few, TypeOK
<1> QED
  BY <1>1, <1>2, <1>3, DoorAlways, PTL DEF Spec

-----------------------------------------------------------------------------
(***************************************************************************)
(* The promise.  Every step but an expiry leaves the table alone, takes a  *)
(* row that was drawn out of it, or puts one under a fresh key; each is a  *)
(* step of the promise.  A save is none of them: by the invariant it       *)
(* writes what is there.                                                   *)
(***************************************************************************)
Lives == [k \in Keys |-> Life(k)]

Without(k) == [rows EXCEPT ![k] = None]

TableMoves ==
  \/ UNCHANGED <<drawn, rows>>
  \/ drawn' = drawn /\ \E j \in 1 .. drawn : rows' = Without(j)
  \/ /\ Draw
     /\ \E whose \in Subjects \cup {None} : \E old \in {rows} \cup {Without(j) : j \in 1 .. drawn} :
          rows' = [old EXCEPT ![Fresh] = [subject |-> whose, over |-> FALSE]]

LEMMA Table ==
  ASSUME DoorInv
  PROVE  /\ rows \in [Keys -> Row] /\ drawn \in Nat /\ drawn <= MaxKeys
         /\ 1 .. drawn \subseteq Keys
         /\ \A k \in Keys : Lives[k] = Life(k)
         /\ Promise!Drawn = 1 .. drawn
<1>1. rows \in [Keys -> Row] /\ drawn \in Nat /\ drawn <= MaxKeys /\ 1 .. drawn \subseteq Keys
  BY KeysAreNumbers DEF DoorInv, DoorTypeOK, Keys
<1>2. \A k \in Keys : Life(k) = Promise!Undrawn <=> k > drawn
  <2>1. ASSUME NEW k \in Keys, k > drawn
        PROVE  Life(k) = Promise!Undrawn
    BY <1>1, <2>1, KeysAreNumbers DEF Life, Promise!Undrawn
  <2>2. ASSUME NEW k \in Keys, ~(k > drawn), rows[k] = None
        PROVE  Life(k).phase = "gone"
    BY <1>1, <2>2, KeysAreNumbers DEF Life
  <2>3. ASSUME NEW k \in Keys, ~(k > drawn), rows[k] # None
        PROVE  Life(k).phase \in {"over", "good"}
    BY <1>1, <2>3, KeysAreNumbers DEF Life
  <2> QED
    BY <2>1, <2>2, <2>3 DEF Promise!Undrawn
<1>3. Promise!Drawn = {k \in Keys : Life(k) # Promise!Undrawn}
  BY DEF Promise!Drawn
<1> QED
  BY <1>1, <1>2, <1>3, KeysAreNumbers DEF Lives, Keys

\* A table that is as it was.
LEMMA LivesStay ==
  ASSUME UNCHANGED <<drawn, rows>>
  PROVE  Lives' = Lives
  BY DEF Lives, Life

\* A row that goes.
LEMMA LivesEnd ==
  ASSUME DoorInv, NEW j \in 1 .. drawn, drawn' = drawn, rows' = Without(j)
  PROVE  Promise!End(j)
<1>1. j \in Keys /\ j <= drawn /\ drawn \in Nat /\ rows \in [Keys -> Row] /\ j \in Promise!Drawn
  BY Table
<1>2. ASSUME NEW k \in Keys
      PROVE  Life(k)' = IF k = j THEN Promise!Gone ELSE Life(k)
  <2>1. CASE k = j
    <3>1. rows'[j] = None /\ ~(j > drawn') /\ j <= drawn'
      BY <1>1 DEF Without
    <3> QED
      BY <2>1, <3>1 DEF Life, Promise!Gone
  <2>2. CASE k # j
    <3>1. rows'[k] = rows[k] /\ drawn' = drawn
      BY <1>1, <2>2 DEF Without
    <3> QED
      BY <2>2, <3>1 DEF Life
  <2> QED
    BY <2>1, <2>2
<1>3. Lives' = [Lives EXCEPT ![j] = Promise!Gone]
  BY <1>1, <1>2 DEF Lives
<1> QED
  BY <1>1, <1>3 DEF Promise!End, Lives

\* A row under a fresh key, in the place of one that goes or beside them all.
LEMMA LivesBegin ==
  ASSUME DoorInv, Draw, NEW key \in Keys, key = Fresh, NEW whose \in Subjects \cup {None},
         NEW old \in {rows} \cup {Without(j) : j \in 1 .. drawn},
         rows' = [old EXCEPT ![key] = [subject |-> whose, over |-> FALSE]]
  PROVE  Promise!Begin(key, whose)
<1> DEFINE fresh == [subject |-> whose, over |-> FALSE]
           good == [phase |-> "good", whose |-> whose]
<1>1. /\ rows \in [Keys -> Row] /\ drawn \in Nat /\ drawn' = drawn + 1 /\ key = drawn + 1
      /\ 1 .. drawn \subseteq Keys /\ Promise!Drawn = 1 .. drawn
  BY Table, KeysAreNumbers DEF Draw, Fresh, Keys
<1>2. fresh # None
  <2>1. fresh \in [subject: Subjects \cup {None}, over: BOOLEAN]
    OBVIOUS
  <2> HIDE DEF fresh
  <2> QED
    BY <2>1, AccessAssumption
<1>3. Life(key)' = good
  <2>1. rows'[key] = fresh
    BY <1>1 DEF Without
  <2>2. ~(key > drawn') /\ key <= drawn'
    BY <1>1
  <2>3. fresh.over = FALSE /\ fresh.subject = whose
    OBVIOUS
  <2>4. Life(key)' = [phase |-> IF fresh.over THEN "over" ELSE "good", whose |-> fresh.subject]
    <3> HIDE DEF fresh
    <3> QED
      BY <1>2, <2>1, <2>2 DEF Life
  <2> QED
    BY <2>3, <2>4
<1>4. Life(key) = Promise!Undrawn
  BY <1>1 DEF Life, Promise!Undrawn
<1>5. CASE old = rows
  <2>1. ASSUME NEW k \in Keys \ {key}
        PROVE  Life(k)' = Life(k)
    <3>1. rows'[k] = rows[k]
      BY <1>5
    <3>2. k \in Nat /\ k # drawn + 1
      BY <1>1, KeysAreNumbers
    <3>3. (k > drawn' <=> k > drawn) /\ (k <= drawn' <=> k <= drawn)
      BY <1>1, <3>2
    <3> QED
      BY <3>1, <3>3 DEF Life
  <2>2. Lives' = [Lives EXCEPT ![key] = good]
    <3> HIDE DEF good
    <3> QED
      BY <1>1, <1>3, <2>1 DEF Lives
  <2> QED
    BY <1>1, <1>4, <2>2 DEF Promise!Begin, Lives
<1>6. ASSUME NEW j \in 1 .. drawn, old = Without(j)
      PROVE  Promise!Begin(key, whose)
  <2>1. ASSUME NEW k \in Keys \ {key}
        PROVE  Life(k)' = IF k = j THEN Promise!Gone ELSE Life(k)
    <3>1. CASE k = j
      <4>1. rows'[k] = None /\ ~(k > drawn') /\ k <= drawn'
        BY <1>1, <1>6, <3>1 DEF Without
      <4> QED
        BY <3>1, <4>1 DEF Life, Promise!Gone
    <3>2. CASE k # j
      <4>1. rows'[k] = rows[k] /\ (k > drawn' <=> k > drawn) /\ (k <= drawn' <=> k <= drawn)
        BY <1>1, <1>6, <3>2, KeysAreNumbers DEF Without
      <4> QED
        BY <3>2, <4>1 DEF Life
    <3> QED
      BY <3>1, <3>2
  <2>2. Lives' = [[Lives EXCEPT ![j] = Promise!Gone] EXCEPT ![key] = good]
    <3> HIDE DEF good
    <3> QED
      BY <1>1, <1>3, <2>1 DEF Lives
  <2> QED
    BY <1>1, <1>4, <1>6, <2>2 DEF Promise!Begin, Lives
<1> QED
  BY <1>5, <1>6

\* The token behind a session runs out.
LEMMA LivesRunOut ==
  ASSUME DoorInv, NEW k \in Keys, Expire(k)
  PROVE  Promise!RunOut(k)
<1>1. /\ rows \in [Keys -> Row] /\ drawn \in Nat /\ drawn' = drawn
      /\ Identified(rows[k]) /\ ~rows[k].over /\ rows' = [rows EXCEPT ![k].over = TRUE]
  BY Table DEF Expire
<1>2. rows[k] # None /\ rows[k] \in Session /\ k \in Nat /\ k <= drawn
  BY <1>1, KeysAreNumbers DEF Identified, Row, DoorInv
<1>3. Life(k) = [phase |-> "good", whose |-> rows[k].subject]
  BY <1>1, <1>2 DEF Life
<1>4. Life(k)' = [phase |-> "over", whose |-> rows[k].subject]
  <2>1. /\ rows'[k] = [rows[k] EXCEPT !.over = TRUE]
        /\ rows'[k].over = TRUE /\ rows'[k].subject = rows[k].subject
    BY <1>1, <1>2 DEF Session
  <2>2. rows'[k] # None
    BY <1>2, <2>1, AccessAssumption DEF Session
  <2> QED
    BY <1>1, <1>2, <2>1, <2>2 DEF Life
<1>5. ASSUME NEW j \in Keys \ {k}
      PROVE  Life(j)' = Life(j)
  <2>1. rows'[j] = rows[j]
    BY <1>1
  <2> QED
    BY <1>1, <2>1 DEF Life
<1>6. Lives' = [Lives EXCEPT ![k].phase = "over"]
  <2>1. /\ Lives[k] = Life(k) /\ Lives \in [Keys -> {Life(j) : j \in Keys}]
        /\ [Lives[k] EXCEPT !.phase = "over"] = Life(k)'
    BY <1>3, <1>4 DEF Lives
  <2>2. Lives' = [Lives EXCEPT ![k] = Life(k)']
    BY <1>5 DEF Lives
  <2> QED
    BY <2>1, <2>2
<1> QED
  BY <1>1, <1>3, <1>6 DEF Promise!RunOut, Lives, Identified

-----------------------------------------------------------------------------
(* The session a call names was drawn, so flushing it is one of the moves. *)
LEMMA FlushedTable ==
  ASSUME DoorInv, NEW c \in calls
  PROVE  Flushed(c) \in {rows} \cup {Without(j) : j \in 1 .. drawn}
<1>1. c.cookie \in Keys \cup {None} /\ Drawn(c.cookie) /\ drawn \in Nat
  BY Table DEF DoorInv, DoorTypeOK, CallFits, Call
<1>2. CASE c.cookie = None
  BY <1>2 DEF Flushed
<1>3. CASE c.cookie # None
  <2>1. c.cookie \in 1 .. drawn
    BY <1>1, <1>3, KeysAreNumbers DEF Drawn, Keys
  <2> QED
    BY <1>3, <2>1 DEF Flushed, Without
<1> QED
  BY <1>2, <1>3

LEMMA HandleTable ==
  ASSUME DoorInv, NEW c \in calls, Handle(c)
  PROVE  TableMoves
<1>1. ASSUME drawn' = drawn, rows' = rows \/ rows' = Flushed(c)
      PROVE  TableMoves
  BY <1>1, FlushedTable DEF TableMoves
<1>2. CASE Get(c) \/ dispatch(c)
  BY <1>1, <1>2 DEF Get, dispatch, Serve, NoSession, Refuse
<1>3. CASE Disabled(c) \/ Unverified(c) \/ Delete(c) \/ Prefer(c)
  BY <1>1, <1>3 DEF Disabled, Unverified, Delete, Prefer, Refuse
<1>4. CASE start(c)
  <2>1. c.token \in Subjects \cup {None}
    BY DEF DoorInv, DoorTypeOK, Call
  <2> QED
    BY <1>4, <2>1, FlushedTable DEF start, TableMoves
<1> QED
  BY <1>2, <1>3, <1>4 DEF Handle

(* A save finds under its key what it holds, or nothing and then it fails. *)
LEMMA PersistTable ==
  ASSUME DoorInv, NEW c \in calls, _persist(c)
  PROVE  TableMoves
<1>1. CASE c.held = None /\ Draw /\ rows' = [rows EXCEPT ![Fresh] = Anonymous]
  BY <1>1 DEF TableMoves, Anonymous
<1>2. CASE c.held # None /\ rows[c.cookie] = None /\ UNCHANGED <<drawn, rows>>
  BY <1>2 DEF TableMoves
<1>3. CASE c.held # None /\ rows[c.cookie] # None /\ UNCHANGED drawn
           /\ rows' = [rows EXCEPT ![c.cookie] = c.held]
  <2>1. rows[c.cookie] = c.held /\ rows \in [Keys -> Row]
    BY <1>3 DEF DoorInv, DoorTypeOK, CallFits
  <2>2. rows' = rows
    BY <1>3, <2>1
  <2> QED
    BY <1>3, <2>2 DEF TableMoves
<1> QED
  BY <1>1, <1>2, <1>3 DEF _persist

LEMMA ElsewhereTable ==
  ASSUME DoorInv, OpenElsewhere \/ EndElsewhere
  PROVE  TableMoves
<1>1. jar \in Keys \cup {None} /\ Drawn(jar) /\ user \in Subjects \cup {None} /\ drawn \in Nat
  BY Table DEF DoorInv, Tabs
<1>2. ASSUME jar # None
      PROVE  jar \in 1 .. drawn
  BY <1>1, <1>2, KeysAreNumbers DEF Drawn, Keys
<1>3. CASE OpenElsewhere
  <2>1. (IF jar = None THEN rows ELSE [rows EXCEPT ![jar] = None])
          \in {rows} \cup {Without(j) : j \in 1 .. drawn}
    BY <1>2 DEF Without
  <2> QED
    BY <1>1, <1>3, <2>1 DEF OpenElsewhere, TableMoves
<1>4. CASE EndElsewhere
  BY <1>2, <1>4 DEF EndElsewhere, TableMoves, Without
<1> QED
  BY <1>3, <1>4

(* What moves the table so is a step of the promise, or none.              *)
LEMMA TablePromise ==
  ASSUME DoorInv, TableMoves
  PROVE  [Promise!Next]_Lives
<1>1. CASE UNCHANGED <<drawn, rows>>
  BY <1>1, LivesStay
<1>2. ASSUME NEW j \in 1 .. drawn, drawn' = drawn, rows' = Without(j)
      PROVE  [Promise!Next]_Lives
  <2>1. j \in Keys
    BY Table
  <2>2. Promise!End(j)
    BY <1>2, LivesEnd
  <2> QED
    BY <2>1, <2>2 DEF Promise!Next, Lives
<1>3. ASSUME Draw, NEW whose \in Subjects \cup {None},
             NEW old \in {rows} \cup {Without(j) : j \in 1 .. drawn},
             rows' = [old EXCEPT ![Fresh] = [subject |-> whose, over |-> FALSE]]
      PROVE  [Promise!Next]_Lives
  <2>1. PICK key \in Keys : key = Fresh
    BY <1>3, Table, KeysAreNumbers DEF Draw, Fresh, Keys
  <2>2. Promise!Begin(key, whose)
    BY <1>3, <2>1, LivesBegin
  <2> QED
    BY <2>2 DEF Promise!Next, Lives
<1> QED
  BY <1>1, <1>2, <1>3 DEF TableMoves

LEMMA PromiseStep ==
  ASSUME DoorInv, [Next]_door
  PROVE  [Promise!Next]_Lives
<1>1. ASSUME NEW k \in Keys, Expire(k) PROVE [Promise!Next]_Lives
  BY <1>1, LivesRunOut DEF Promise!Next, Lives
<1>2. ASSUME NEW c \in calls, Serving(c) PROVE TableMoves
  BY <1>2, HandleTable, PersistTable DEF Serving
<1>3. ASSUME UNCHANGED <<drawn, rows>> PROVE TableMoves
  BY <1>3 DEF TableMoves
<1>4. ASSUME NEW f \in Frames,
             \/ Start(f) \/ Token(f) \/ TokenError(f) \/ endSession(f)
             \/ Timeout(f) \/ Ask(f) \/ savePreference(f) \/ Write(f)
      PROVE  TableMoves
  BY <1>3, <1>4 DEF Start, Token, TokenError, endSession, Timeout, Ask, savePreference, Write
<1>5. ASSUME \/ SignOut \/ UNCHANGED door
             \/ \E s \in Subjects : SignIn(s) \/ SetActive(s)
             \/ \E c \in calls : Arrive(c) \/ Lose(c)
      PROVE  TableMoves
  BY <1>3, <1>5 DEF SignOut, SignIn, SetActive, Arrive, Lose, door
<1>6. TableMoves \/ [Promise!Next]_Lives
  BY <1>1, <1>2, <1>4, <1>5, ElsewhereTable DEF Next
<1> QED
  BY <1>6, TablePromise

(* The door implements SessionPromise.                                     *)
THEOREM DoorKeepsItsPromise == Spec => DoorKeepsPromise
<1>1. Init => Promise!Init
  <2> SUFFICES ASSUME Init PROVE Lives = [k \in Keys |-> Promise!Undrawn]
    BY DEF Promise!Init, Lives
  <2>1. ASSUME NEW k \in Keys PROVE Life(k) = Promise!Undrawn
    <3>1. k > drawn
      BY KeysAreNumbers DEF Init, Keys
    <3> QED
      BY <3>1, KeysAreNumbers DEF Init, Life, Promise!Undrawn, Keys
  <2> QED
    BY <2>1 DEF Lives
<1>2. DoorInv /\ [Next]_door => [Promise!Next]_[k \in Keys |-> Life(k)]
  BY PromiseStep DEF Lives
<1> QED
  BY <1>1, <1>2, DoorAlways, PTL DEF Spec, DoorKeepsPromise, Promise!Spec
=============================================================================
