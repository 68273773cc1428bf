-------------------------------- MODULE Embed --------------------------------
(***************************************************************************)
(* The browser's side of the client's door: the tabs that hold the portal  *)
(* in a frame (static/js/embed.js), the one cookie they share, and the     *)
(* B2CORE window around each.                                              *)
(*                                                                         *)
(* A call that does not come back is lost on the way there, or on the way  *)
(* back, and the frame cannot tell which.  Answers arrive in any order.    *)
(***************************************************************************)
EXTENDS Access

CONSTANTS
  Lossy,  \* whether the network loses calls
  Others  \* whether other tabs of the browser use the portal too

ASSUME EmbedAssumption == Lossy \in BOOLEAN /\ Others \in BOOLEAN

VARIABLES
  jar,      \* the portal's cookie in the browser
  frame,    \* each tab's frame
  user,     \* who is signed in to B2CORE in this browser
  leaving   \* the tabs B2CORE has yet to send embed-logout to

door == <<client, drawn, rows, calls, jar, frame, user, leaving>>

\* A frame's csrfToken stands for the payload it came in (session): the page
\* is in use while there is one.  What the stage shows of it is not kept.
Frame == [csrfToken: Keys \cup {None}, pending: BOOLEAN, tokenTimer: BOOLEAN]

TypeOK ==
  /\ DoorTypeOK
  /\ Cardinality(calls) <= MaxCalls
  /\ jar \in Keys \cup {None}
  /\ frame \in [Frames -> Frame]
  /\ user \in Subjects \cup {None}
  /\ leaving \in SUBSET Frames

-----------------------------------------------------------------------------
Loading == [csrfToken |-> None, pending |-> FALSE, tokenTimer |-> FALSE]

\* Whose session a cookie names.
Owner(k) == IF k # None /\ Identified(rows[k]) /\ ~rows[k].over
            THEN rows[k].subject ELSE None

\* embed.js call(): the browser adds its cookie, the frame its token.
New(f, kind, token) ==
  [page |-> f, kind |-> kind, token |-> token, cookie |-> jar,
   header |-> IF kind \in {"probe", "exchange"} THEN None ELSE frame[f].csrfToken,
   owner |-> IF kind \in {"probe", "write"} THEN Owner(jar) ELSE None,
   stage |-> "sent", held |-> None, status |-> "ok", set_cookie |-> Keep,
   csrf_token |-> None, served |-> None, own |-> FALSE]

Room == Cardinality(calls) < MaxCalls

Send(f, kind, token) ==
  /\ Room
  /\ calls' = calls \cup {New(f, kind, token)}

requestToken(p) ==
  IF p.pending THEN p ELSE [p EXCEPT !.pending = TRUE, !.tokenTimer = TRUE]

\* fault: the flag is left to whoever asked
FailPending(p) == [p EXCEPT !.tokenTimer = FALSE]

fail(p) == [p EXCEPT !.pending = FALSE, !.tokenTimer = FALSE]

adopt(p, c) == [p EXCEPT !.csrfToken = c.csrf_token]

\* discardSession, up to the DELETE it sends, and once that is over.
discardSession(p) == [p EXCEPT !.tokenTimer = FALSE, !.pending = FALSE]
Discarded(p) == [p EXCEPT !.csrfToken = None]

\* start()'s probed(): a session the frame got meanwhile is left alone.
probed(p, c, arrived) ==
  IF p.csrfToken # None \/ p.pending THEN p
  ELSE IF arrived /\ c.status = "ok" THEN adopt(p, c) ELSE requestToken(p)

exchange(p, c, arrived) ==
  IF arrived /\ c.status = "ok" THEN adopt([p EXCEPT !.pending = FALSE], c)
  ELSE fail(p)

\* What a frame makes of a call of its own that is over, answered or not.
Land(c, arrived) ==
  LET p == frame[c.page]
  IN frame' = [frame EXCEPT ![c.page] =
       CASE c.kind = "probe" -> probed(p, c, arrived)
         [] c.kind = "exchange" -> exchange(p, c, arrived)
         [] c.kind = "logout" -> Discarded(p)
         [] c.kind = "reject" -> fail(Discarded(p))
         [] c.kind = "preference" -> p
         [] c.kind = "write" -> IF arrived /\ c.status = "no_session"
                                THEN requestToken(p) ELSE p]

-----------------------------------------------------------------------------
Init ==
  /\ client = [s \in Subjects |-> "active"]
  /\ drawn = 0
  /\ rows = [k \in Keys |-> None]
  /\ calls = {}
  /\ jar = None
  /\ frame = [f \in Frames |-> Loading]
  /\ user = None
  /\ leaving = {}

\* start(): the page is loaded, or loaded again; the browser drops what the
\* old page had under way.
Start(f) ==
  /\ user # None
  /\ Room
  /\ frame' = [frame EXCEPT ![f] = Loading]
  /\ leaving' = leaving \ {f}
  /\ calls' = {c \in calls : c.page # f} \cup {New(f, "probe", None)}
  /\ UNCHANGED <<client, drawn, rows, jar, user>>

\* embed-jwt-token: the token goes straight to the server.  B2CORE may send
\* one late, twice or unasked, and the listener takes it.
Token(f) ==
  /\ user # None
  /\ frame' = [frame EXCEPT ![f].tokenTimer = FALSE, ![f].pending = TRUE]
  /\ Send(f, "exchange", user)
  /\ UNCHANGED <<client, drawn, rows, jar, user, leaving>>

\* embed-jwt-token-error.
TokenError(f) ==
  /\ frame[f].pending
  /\ frame' = [frame EXCEPT ![f] = discardSession(@)]
  /\ Send(f, "reject", None)
  /\ UNCHANGED <<client, drawn, rows, jar, user, leaving>>

\* embed-logout, in one tab.
endSession(f) ==
  /\ f \in leaving
  /\ leaving' = leaving \ {f}
  /\ frame' = [frame EXCEPT ![f] = discardSession(@)]
  /\ Send(f, "logout", None)
  /\ UNCHANGED <<client, drawn, rows, jar, user>>

\* The person signs in to B2CORE, and out of it in every tab.
SignIn(s) ==
  /\ user = None /\ leaving = {}
  /\ user' = s
  /\ UNCHANGED <<client, drawn, rows, calls, jar, frame, leaving>>

SignOut ==
  /\ user # None
  /\ user' = None
  /\ leaving' = Frames
  /\ UNCHANGED <<client, drawn, rows, calls, jar, frame>>

\* The 15 seconds are over and nobody has answered.
Timeout(f) ==
  /\ frame[f].tokenTimer
  /\ frame' = [frame EXCEPT ![f] = fail(@)]
  /\ UNCHANGED <<client, drawn, rows, calls, jar, user, leaving>>

\* The renewal is due, or somebody pressed the button that retries.
Ask(f) ==
  /\ user # None
  /\ frame' = [frame EXCEPT ![f] = requestToken(@)]
  /\ UNCHANGED <<client, drawn, rows, calls, jar, user, leaving>>

\* embed-theme-change or embed-language-change.
savePreference(f) ==
  /\ Send(f, "preference", None)
  /\ UNCHANGED <<client, drawn, rows, jar, frame, user, leaving>>

\* The client sends something from the page.
Write(f) ==
  /\ frame[f].csrfToken # None
  /\ Send(f, "write", None)
  /\ UNCHANGED <<client, drawn, rows, jar, frame, user, leaving>>

\* Another tab of the same browser, whose calls take one step each, opens a
\* session of its own, or ends the browser's after a logout.
OpenElsewhere ==
  /\ Others /\ user # None /\ client[user] = "active"
  /\ Draw
  /\ rows' = [IF jar = None THEN rows ELSE [rows EXCEPT ![jar] = None]
              EXCEPT ![Fresh] = [subject |-> user, over |-> FALSE]]
  /\ jar' = Fresh
  /\ UNCHANGED <<client, calls, frame, user, leaving>>

EndElsewhere ==
  /\ Others /\ user = None /\ jar # None
  /\ rows' = [rows EXCEPT ![jar] = None]
  /\ jar' = None
  /\ UNCHANGED <<client, drawn, calls, frame, user, leaving>>

Browser == <<jar, frame, user, leaving>>

Serving(c) == (Handle(c) \/ _persist(c)) /\ UNCHANGED Browser

\* An answer arrives: the browser takes the cookie, then the page the answer.
Arrive(c) ==
  /\ c.stage = "answered"
  /\ jar' = CASE c.set_cookie = Keep -> jar
              [] c.set_cookie = Drop -> None
              [] OTHER -> c.set_cookie
  /\ Land(c, TRUE)
  /\ calls' = calls \ {c}
  /\ UNCHANGED <<client, drawn, rows, user, leaving>>

\* The connection is gone, before the server saw the call or after.
Lose(c) ==
  /\ Lossy /\ c.stage \in {"sent", "answered"}
  /\ Land(c, FALSE)
  /\ calls' = calls \ {c}
  /\ UNCHANGED <<client, drawn, rows, jar, user, leaving>>

Next ==
  \/ \E f \in Frames :
       \/ Start(f) \/ Token(f) \/ TokenError(f) \/ endSession(f)
       \/ Timeout(f) \/ Ask(f) \/ savePreference(f) \/ Write(f)
  \/ \E s \in Subjects : SignIn(s) \/ (SetActive(s) /\ UNCHANGED Browser)
  \/ SignOut
  \/ OpenElsewhere
  \/ EndElsewhere
  \/ \E k \in Keys : Expire(k) /\ UNCHANGED Browser
  \/ \E c \in calls : Serving(c) \/ Arrive(c) \/ Lose(c)

Spec == Init /\ [][Next]_door

\* A fetch ends, with an answer or an error, and a timer goes off.  Nothing is
\* asked of B2CORE, which may never answer, or of the person.
FairSpec ==
  /\ Spec
  /\ \A f \in Frames :
       /\ WF_door(Timeout(f))
       /\ WF_door(\E c \in calls : c.page = f /\ c.kind = "exchange"
                                   /\ Serving(c))
       /\ WF_door(\E c \in calls : c.page = f /\ c.kind = "exchange"
                                   /\ (Arrive(c) \/ Lose(c)))

-----------------------------------------------------------------------------
\* A call is answered only as the client whose session was live in the
\* browser when it left: neither a save that comes late, nor a key that is
\* used again, nor an expiry or a logout in another tab turns it into a call
\* of anybody else's (session.py, get_client and start; _persist).
ServedAsOpened ==
  \A c \in calls :
    c.kind \in {"probe", "write"} /\ c.served # None => c.served = c.owner

\* What a page sends is done in the name of the client it shows, though
\* another tab may have put another client's cookie in the browser since
\* (PortalEndpoint._token_ok, session.start).
WritesAreOwn ==
  \A c \in calls :
    c.kind = "write" /\ c.served # None => c.own

\* What the table says of a key.
Life(k) ==
  CASE k > drawn -> [phase |-> "undrawn", whose |-> None]
    [] k <= drawn /\ rows[k] = None -> [phase |-> "gone", whose |-> None]
    [] OTHER -> [phase |-> IF rows[k].over THEN "over" ELSE "good", whose |-> rows[k].subject]

Promise == INSTANCE SessionPromise WITH life <- [k \in Keys |-> Life(k)]

\* The door implements SessionPromise: no save that comes late, renewal, logout
\* or block, from whichever tab, brings an ended session back, gives one to
\* somebody else or makes one that has run out good again.  (session.py start,
\* cycle_key; embed_sessions.py _persist, "it was deleted concurrently")
DoorKeepsPromise == Promise!Spec

\* A frame that is waiting for a token does not wait for ever, whatever
\* B2CORE and the network do: while it waits, requestToken asks for nothing
\* and a refused call cannot sign the client in again (embed.js, pending).
AskingEnds ==
  \A f \in Frames : frame[f].pending ~> ~frame[f].pending

\* Violated.  "On embed-logout, the session is cleared and any cached token
\* discarded": once every tab has said goodbye and nothing is under way, the
\* browser holds no session (embed.js, endSession and exchange).
LoggedOutStays ==
  user = None /\ leaving = {} /\ calls = {}
    => Owner(jar) = None
=============================================================================
