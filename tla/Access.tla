------------------------------- MODULE Access -------------------------------
(***************************************************************************)
(* The server's side of the client's door: the session rows behind the     *)
(* portal's own cookie (apps/core/embed_sessions.py, portal/session.py),   *)
(* the guards of every portal endpoint and the three calls that open,      *)
(* read and end a session (portal/views.py).                               *)
(*                                                                         *)
(* A request loads its session from the row its cookie names.  Almost      *)
(* every handler then settles in one statement or writes nothing, and is   *)
(* one step.  PreferencesView is two: what it loaded is written back by    *)
(* the middleware after the view has returned, and the row may have been   *)
(* replaced or ended in between.                                           *)
(***************************************************************************)
EXTENDS Naturals, FiniteSets

CONSTANTS
  Subjects,  \* the B2CORE accounts people arrive with
  Frames,    \* tabs of one browser that hold the portal's frame
  MaxKeys,   \* bound: how many session keys are ever drawn
  MaxCalls,  \* bound: how many calls are under way at one time
  Lapsing,   \* bound: whom the desk blocks, and whose tokens run out
  Keep,      \* an answer that leaves the cookie alone
  Drop,      \* an answer that deletes it
  None       \* no session, no cookie, no subject

ASSUME AccessAssumption ==
  /\ None \notin Subjects \cup Frames \cup Nat
  /\ None \notin [subject: Subjects \cup {None}, over: BOOLEAN]
  /\ {Keep, Drop} \cap Nat = {} /\ Keep # Drop
  /\ MaxKeys \in Nat /\ MaxCalls \in Nat
  /\ Lapsing \subseteq Subjects

VARIABLES
  client,  \* Client.is_active; a subject nobody has seen counts as active
  drawn,   \* how many session keys have been drawn
  rows,    \* the session table
  calls    \* calls between the frames and the server

-----------------------------------------------------------------------------
\* Keys are random and never drawn twice; here they are numbered.
Keys == 1..MaxKeys

\* What a session row says: whose it is (nobody's while it holds nothing but
\* preferences) and whether its b2core_exp has passed.  The CSRF token is
\* drawn where the key is cycled and nowhere else, so the key stands for it.
Session == [subject: Subjects \cup {None}, over: BOOLEAN]
Row == Session \cup {None}
Anonymous == [subject |-> None, over |-> FALSE]

\* probe, exchange and leave are the methods of SessionView, preference is
\* PreferencesView, write any endpoint that needs the client.  A leave says
\* why it was sent: the host logged out, or it refused the frame a token.
Kinds == {"probe", "exchange", "logout", "reject", "preference", "write"}

\* Answers as far as a frame tells them apart: done, 401 no_session, or any
\* other refusal.
Statuses == {"ok", "no_session", "refused"}

\* What a call carries, how far it is, and what its answer says: of a probe or a
\* write, whom it was answered as, and of a write whether under the token it
\* brought.  owner is whose session its cookie named when it left.
Call == [page: Frames, kind: Kinds, token: Subjects \cup {None},
         cookie: Keys \cup {None}, header: Keys \cup {None},
         owner: Subjects \cup {None}, stage: {"sent", "held", "answered"},
         held: Row, status: Statuses, set_cookie: Keys \cup {Keep, Drop},
         csrf_token: Keys \cup {None}, served: Subjects \cup {None},
         own: BOOLEAN]

DoorTypeOK ==
  /\ client \in [Subjects -> {"active", "disabled"}]
  /\ drawn \in 0..MaxKeys
  /\ rows \in [Keys -> Row]
  /\ calls \in SUBSET Call

-----------------------------------------------------------------------------
\* The session a request finds: nothing without a cookie, and nothing under
\* a key that is no longer in the table.
store(c) == IF c.cookie = None THEN None ELSE rows[c.cookie]

Identified(r) == r # None /\ r.subject # None

csrf_token(c) == IF Identified(store(c)) THEN c.cookie ELSE None

\* fault: that a token came is enough
TokenIfAny(c) == csrf_token(c) = None \/ c.header # None

\* PortalEndpoint._token_ok: with no token in the session there is nothing
\* to compare.
_token_ok(c) == csrf_token(c) \in {None, c.header}

\* fault: the expiry is left to the row's own, which every save moves
UntilRowLapses(c) ==
  LET r == store(c)
  IN IF Identified(r) /\ client[r.subject] = "active" THEN r.subject ELSE None

\* session.get_client: the session's subject while it has not expired and the
\* client is active.  A session that fails is ended there and then.
get_client(c) ==
  LET r == store(c)
  IN IF Identified(r) /\ ~r.over /\ client[r.subject] = "active"
     THEN r.subject ELSE None

Unfit(c) == Identified(store(c)) /\ get_client(c) = None

\* The table once the session of c has been flushed.
Flushed(c) == IF c.cookie = None THEN rows ELSE [rows EXCEPT ![c.cookie] = None]

\* CookieSessionMiddleware._persist, for a request that leaves its session
\* empty: the cookie goes, if one came.
Expunge(c) == IF c.cookie = None THEN Keep ELSE Drop

\* The key a new row is inserted under.
Fresh == drawn + 1
Draw == drawn < MaxKeys /\ drawn' = Fresh

\* A frame does not look at the answers to these.
Unread == {"logout", "reject", "preference"}

\* An answer leaves: what the call brought is forgotten, and kept of the rest
\* is what the frame looks at and, of what was served, for whom.
Answer(c, status, set_cookie, served, csrf) ==
  calls' = (calls \ {c}) \cup
           {[c EXCEPT !.stage = "answered",
                      !.status = IF c.kind \in Unread THEN "ok" ELSE status,
                      !.token = None, !.cookie = None, !.header = None,
                      !.held = None, !.set_cookie = set_cookie,
                      !.csrf_token = csrf, !.served = served,
                      !.owner = IF served = None THEN None ELSE c.owner,
                      !.own = c.kind = "write" /\ c.header = c.cookie]}

\* A caller without a session: an unfit one is ended, and a cookie that names
\* nothing is deleted.  An anonymous session keeps its cookie.
NoSession(c) ==
  /\ rows' = IF Unfit(c) THEN Flushed(c) ELSE rows
  /\ Answer(c, "no_session",
            IF Unfit(c) \/ store(c) = None THEN Expunge(c) ELSE Keep, None, None)

-----------------------------------------------------------------------------
\* SessionView.get, and an endpoint that acts for the client once
\* PortalEndpoint.dispatch has let it through.
Serve(c) ==
  IF get_client(c) = None THEN NoSession(c)
  ELSE /\ Answer(c, "ok", Keep, get_client(c),
                 IF c.kind = "probe" THEN csrf_token(c) ELSE None)
       /\ UNCHANGED rows

Refuse(c) == Answer(c, "refused", Keep, None, None) /\ UNCHANGED rows

Get(c) ==
  /\ c.kind = "probe"
  /\ Serve(c)
  /\ UNCHANGED <<client, drawn>>

dispatch(c) ==
  /\ c.kind = "write"
  /\ IF _token_ok(c) THEN Serve(c) ELSE Refuse(c)
  /\ UNCHANGED <<client, drawn>>

\* SessionView.post, once the token has verified, for a client who is
\* disabled: the session the browser brought is ended.
Disabled(c) ==
  /\ c.kind = "exchange" /\ client[c.token] = "disabled"
  /\ rows' = Flushed(c)
  /\ Answer(c, "refused", Expunge(c), None, None)
  /\ UNCHANGED <<client, drawn>>

\* fault: a token without an expiry opens a session without one
StartUnbounded(c) ==
  /\ c.kind = "exchange" /\ client[c.token] = "active"
  /\ Draw
  /\ rows' = [Flushed(c) EXCEPT ![Fresh] = [subject |-> c.token, over |-> None]]
  /\ Answer(c, "ok", Fresh, None, Fresh)
  /\ UNCHANGED client

\* fault: the session keeps its key
StartInPlace(c) ==
  /\ c.kind = "exchange" /\ client[c.token] = "active"
  /\ store(c) # None
  /\ rows' = [rows EXCEPT ![c.cookie] = [subject |-> c.token, over |-> FALSE]]
  /\ Answer(c, "ok", Keep, None, c.cookie)
  /\ UNCHANGED <<client, drawn>>

\* session.start: the key is cycled, so the session moves to a row of its own
\* and the old row goes.
start(c) ==
  /\ c.kind = "exchange" /\ client[c.token] = "active"
  /\ Draw
  /\ rows' = [Flushed(c) EXCEPT ![Fresh] = [subject |-> c.token, over |-> FALSE]]
  /\ Answer(c, "ok", Fresh, None, Fresh)
  /\ UNCHANGED client

\* SessionView.post where the token is refused, the keys cannot be had or the
\* caller has tried too often: no session is read.
Unverified(c) ==
  /\ c.kind = "exchange"
  /\ Answer(c, "refused", Keep, None, None)
  /\ UNCHANGED <<client, drawn, rows>>

\* SessionView.delete.
Delete(c) ==
  /\ c.kind \in {"logout", "reject"}
  /\ IF _token_ok(c)
     THEN rows' = Flushed(c) /\ Answer(c, "ok", Expunge(c), None, None)
     ELSE Refuse(c)
  /\ UNCHANGED <<client, drawn>>

\* PreferencesView.post: the session is loaded and changed in memory.  It
\* asks for no client.
Prefer(c) ==
  /\ c.kind = "preference"
  /\ IF _token_ok(c)
     THEN /\ calls' = (calls \ {c}) \cup
                      {[c EXCEPT !.stage = "held", !.held = store(c)]}
          /\ UNCHANGED rows
     ELSE Refuse(c)
  /\ UNCHANGED <<client, drawn>>

\* fault: the save inserts the row it does not find
PersistOrInsert(c) ==
  /\ c.stage = "held"
  /\ \/ /\ c.held = None
        /\ Draw
        /\ rows' = [rows EXCEPT ![Fresh] = Anonymous]
        /\ Answer(c, "ok", Fresh, None, None)
     \/ /\ c.held # None
        /\ rows' = [rows EXCEPT ![c.cookie] = c.held]
        /\ Answer(c, "ok", c.cookie, None, None)
        /\ UNCHANGED drawn
  /\ UNCHANGED client

\* CookieSessionMiddleware._persist, for a view that changed its session.
\* What was found under no key is a new row with a key and a cookie of its
\* own; what was found under one is saved under it, and only if the row is
\* still there: SessionInterrupted otherwise.
_persist(c) ==
  /\ c.stage = "held"
  /\ \/ /\ c.held = None
        /\ Draw
        /\ rows' = [rows EXCEPT ![Fresh] = Anonymous]
        /\ Answer(c, "ok", Fresh, None, None)
     \/ /\ c.held # None /\ rows[c.cookie] = None
        /\ Answer(c, "refused", Keep, None, None)
        /\ UNCHANGED <<drawn, rows>>
     \/ /\ c.held # None /\ rows[c.cookie] # None
        /\ rows' = [rows EXCEPT ![c.cookie] = c.held]
        /\ Answer(c, "ok", c.cookie, None, None)
        /\ UNCHANGED drawn
  /\ UNCHANGED client

\* A call that has reached the server.
Handle(c) ==
  /\ c.stage = "sent"
  /\ \/ Get(c)
     \/ dispatch(c)
     \/ Disabled(c)
     \/ start(c)
     \/ Unverified(c)
     \/ Delete(c)
     \/ Prefer(c)

\* The token behind a session runs out: b2core_exp passes, wherever the
\* session is held.
Expire(k) ==
  /\ Identified(rows[k]) /\ ~rows[k].over /\ rows[k].subject \in Lapsing
  /\ rows' = [rows EXCEPT ![k].over = TRUE]
  /\ calls' = {IF c.cookie = k /\ Identified(c.held)
               THEN [c EXCEPT !.held.over = TRUE] ELSE c : c \in calls}
  /\ UNCHANGED <<client, drawn>>

\* The desk blocks a client, or lets one back in.
SetActive(s) ==
  /\ s \in Lapsing
  /\ client' = [client EXCEPT ![s] = IF @ = "active" THEN "disabled" ELSE "active"]
  /\ UNCHANGED <<drawn, rows, calls>>
=============================================================================
