------------------------------- MODULE Panel -------------------------------
(***************************************************************************)
(* The panels' live updates: static/js/panel.js in each open page, against *)
(* the pulse and the fragments of finance/live_views.py and                *)
(* merchant_panel/api.py, over the conversation they report on.            *)
(*                                                                         *)
(* A page's script asks for a pulse whenever its timer fires, paints the   *)
(* badge and, when the version token differs from the last one it saw,     *)
(* fetches the page's fragment and swaps it in.  Requests overlap when the *)
(* tab is hidden and shown while one is out.                               *)
(***************************************************************************)
EXTENDS Conversation

CONSTANTS
  Watchers,   \* the accounts whose page has its script modelled
  Slots,      \* bound: the requests one page has out at a time
  Faults      \* whether requests can fail and sessions end

ASSUME PanelAssumption ==
  /\ Watchers \subseteq Users /\ Faults \in BOOLEAN
  /\ Slots \subseteq Nat /\ IsFiniteSet(Requests)

VARIABLE tab  \* the script's state in each watcher's page

panel_vars == <<now, row, thread, writing, seen, screen, tab>>

Version == {<<>>} \cup {<<t, n>> : t \in Time, n \in 0..Cardinality(Requests)}

\* A request on its way: "idle" is a free slot, "pulse" and "fragment" are
\* unanswered, "news" and "page" are the answers to them on their way back;
\* "failed" is any error, "refused" a 401 or 403.
Flight == [step: {"idle", "pulse", "fragment", "failed", "refused"},
           badge: {0}, version: {<<>>}, page: {Away}]
          \cup [step: {"news"}, badge: 0..Cardinality(Requests), version: Version, page: {Away}]
          \cup [step: {"page"}, badge: {0}, version: {<<>>}, page: Screen]

\* version <<>> is null: no pulse answered yet.
Tab == [running: BOOLEAN, hidden: BOOLEAN, stopped: BOOLEAN, timer: BOOLEAN,
        version: Version, badge: 0..Cardinality(Requests), flight: [Slots -> Flight]]

Flying(step) == [step |-> step, badge |-> 0, version |-> <<>>, page |-> Away]

NoScript == [running |-> FALSE, hidden |-> FALSE, stopped |-> FALSE, timer |-> FALSE,
             version |-> <<>>, badge |-> 0, flight |-> [s \in Slots |-> Flying("idle")]]

PanelTypeOK == TypeOK /\ tab \in [Watchers -> Tab]

PanelInit == Init /\ tab = [u \in Watchers |-> NoScript]

Free(u) == {s \in Slots : tab[u].flight[s].step = "idle"}

\* get(pulseUrl): no query string goes with it.
Asking(t, s) == [t EXCEPT !.timer = FALSE, !.flight[s] = Flying("pulse")]

\* schedule(): nothing once stopped; the timer there is cleared first.
Scheduled(t, s) == [t EXCEPT !.flight[s] = Flying("idle"), !.timer = @ \/ ~t.stopped]

-----------------------------------------------------------------------------
\* A page arrives, its badge hidden at 0 until the first pulse, and its script
\* starts by scheduling the first tick.
Start(u) ==
  /\ screen[u].kind # "away" /\ screen[u].marked /\ ~tab[u].running
  /\ tab' = [tab EXCEPT ![u] = [NoScript EXCEPT !.running = TRUE, !.timer = TRUE]]
  /\ UNCHANGED talk

\* The timer fires.  A hidden tab schedules the next tick and asks nothing; a
\* stopped script does not even schedule.
Tock(u) ==
  /\ tab[u].timer /\ ~tab[u].hidden
  /\ IF tab[u].stopped
     THEN tab' = [tab EXCEPT ![u].timer = FALSE]
     ELSE /\ Free(u) # {}
          /\ tab' = [tab EXCEPT ![u] = Asking(@, Min(Free(u)))]
  /\ UNCHANGED talk

Hide(u) ==
  /\ tab[u].running /\ ~tab[u].hidden
  /\ tab' = [tab EXCEPT ![u].hidden = TRUE]
  /\ UNCHANGED talk

\* fault: the tab that is shown again only drops its timer
ShowQuietly(u) ==
  /\ tab[u].hidden
  /\ tab' = [tab EXCEPT ![u].hidden = FALSE, ![u].timer = FALSE]
  /\ UNCHANGED talk

\* visibilitychange: the timer is cleared and a tick made at once, though
\* another may be out.
Show(u) ==
  /\ tab[u].hidden
  /\ IF tab[u].stopped
     THEN tab' = [tab EXCEPT ![u].hidden = FALSE]
     ELSE /\ Free(u) # {}
          /\ tab' = [tab EXCEPT ![u] = [Asking(@, Min(Free(u))) EXCEPT !.hidden = FALSE]]
  /\ UNCHANGED talk

\* The server answers a pulse; or the request fails, or the session has ended.
Pulse(u, s) ==
  /\ tab[u].flight[s].step = "pulse"
  /\ tab' = [tab EXCEPT ![u].flight[s] =
       [Flying("news") EXCEPT !.badge = Badge(u), !.version = latest_activity(u)]]
  /\ UNCHANGED talk

Fail(u, s) ==
  /\ Faults
  /\ tab[u].flight[s].step \in {"pulse", "fragment"}
  /\ tab' = [tab EXCEPT ![u].flight[s] = Flying("failed")]
  /\ UNCHANGED talk

Refuse(u, s) ==
  /\ Faults
  /\ tab[u].flight[s].step = "pulse"
  /\ tab' = [tab EXCEPT ![u].flight[s] = Flying("refused")]
  /\ UNCHANGED talk

\* The server renders the fragment: the thread of the page's request, if it
\* is still the account's to read, or the rows of its list.  Nothing is marked.
Fragment(u, s) ==
  LET page == screen[u]
  IN /\ tab[u].flight[s].step = "fragment"
     /\ tab' = [tab EXCEPT ![u].flight[s] =
          IF page.kind = "queue"
          THEN [Flying("page") EXCEPT !.page = List(u)]
          ELSE IF InScope(u, page.req)
          THEN [Flying("page") EXCEPT !.page = [page EXCEPT !.words = Words(u, page.req)]]
          ELSE Flying("failed")]
     /\ UNCHANGED talk

\* fault: the badge is painted only when the version moved
NewsIfMoved(u, s) ==
  LET f == tab[u].flight[s]
  IN /\ f.step = "news"
     /\ tab' = [tab EXCEPT ![u] =
          IF tab[u].version \in {<<>>, f.version}
          THEN Scheduled([@ EXCEPT !.version = f.version], s)
          ELSE [@ EXCEPT !.badge = f.badge, !.version = f.version,
                         !.flight[s] = Flying("fragment")]]
     /\ UNCHANGED talk

\* The answer to a pulse.  The first version seen is taken for the page's own.
News(u, s) ==
  LET f == tab[u].flight[s]
      painted == [tab[u] EXCEPT !.badge = f.badge, !.version = f.version]
  IN /\ f.step = "news"
     /\ tab' = [tab EXCEPT ![u] =
          IF tab[u].version \in {<<>>, f.version}
          THEN Scheduled(painted, s)
          ELSE [painted EXCEPT !.flight[s] = Flying("fragment")]]
     /\ UNCHANGED talk

\* swap: the fragment replaces the thread, or the rows.
Swap(u, s) ==
  LET f == tab[u].flight[s]
  IN /\ f.step = "page"
     /\ screen' = [screen EXCEPT ![u] = f.page]
     /\ tab' = [tab EXCEPT ![u] = Scheduled(@, s)]
     /\ UNCHANGED <<now, row, thread, writing, seen>>

\* catch: quiet, and the numbers stay; a refusal stops the script for good.
Caught(u, s) ==
  LET f == tab[u].flight[s]
      caught == [tab[u] EXCEPT !.stopped = @ \/ f.step = "refused"]
  IN /\ f.step \in {"failed", "refused"}
     /\ tab' = [tab EXCEPT ![u] = Scheduled(caught, s)]
     /\ UNCHANGED talk

Script(u) ==
  \/ Start(u) \/ Tock(u) \/ Hide(u) \/ Show(u)
  \/ \E s \in Slots : \/ Pulse(u, s) \/ Fail(u, s) \/ Refuse(u, s) \/ Fragment(u, s)
                      \/ News(u, s) \/ Swap(u, s) \/ Caught(u, s)

\* Another page, or none, in the same tab takes the script with it.
Turned == [u \in Watchers |->
  IF screen'[u] = screen[u] \/ (screen'[u].marked /\ ~screen[u].marked)
  THEN tab[u] ELSE NoScript]

Talking == Next /\ tab' = Turned

PanelNext == Talking \/ \E u \in Watchers : Script(u)

PanelSpec == PanelInit /\ [][PanelNext]_panel_vars

\* A browser fires its timers and delivers answers, the server answers; a tab
\* need not ever be shown again.
Working(u) ==
  /\ WF_panel_vars(Start(u) \/ Tock(u))
  /\ \A s \in Slots :
       WF_panel_vars(Pulse(u, s) \/ Fragment(u, s) \/ News(u, s) \/ Swap(u, s) \/ Caught(u, s))

PanelFairSpec == PanelSpec /\ \A u \in Watchers : Working(u) /\ WF_panel_vars(mark_seen(u) /\ tab' = Turned)

-----------------------------------------------------------------------------
\* However ticks overlap, fail and are hidden, a script that was not refused
\* has its next tick scheduled or a request out whose end will schedule it
\* (panel.js: every path of tick ends in schedule).
PollNeverDies ==
  \A u \in Watchers :
    tab[u].running /\ ~tab[u].stopped =>
      tab[u].timer \/ \E s \in Slots : tab[u].flight[s].step # "idle"

\* When the requests come to rest, a page that is in front of somebody and
\* was not refused comes to show the number of requests unread to it.
BadgeCatchesUp ==
  \A u \in Watchers : \A n \in 0..Cardinality(Requests) :
    <>[](Badge(u) = n) =>
      []<>(\/ ~tab[u].running \/ tab[u].hidden \/ tab[u].stopped
           \/ tab[u].badge = n \/ \E s \in Slots : tab[u].flight[s].step = "failed")

\* What the merchant's pulse promises: a request newly assigned appears on the
\* list in front of its merchant without a reload.
AssignedAppears ==
  \A u \in Watchers : \A r \in Requests :
    r \in Queue(u) /\ screen[u].kind = "queue" ~>
      \/ r \notin Queue(u) \/ screen[u].kind # "queue" \/ r \in screen[u].rows
      \/ tab[u].hidden
=============================================================================
