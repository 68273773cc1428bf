-------------------------------- MODULE Notice -------------------------------
(***************************************************************************)
(* One client's page while the desk opens and shuts (static/js/flow.js):   *)
(* the screen it is on, the last answer it had about the hours, the timer  *)
(* that asks again, and its calls to the catalogue and the submission      *)
(* endpoints (portal/flow_views.py, portal/submissions.py).                *)
(*                                                                         *)
(* Answers arrive in any order; a page only ever measures elapsed time.    *)
(***************************************************************************)
EXTENDS Hours, Sequences, SequencesExt

CONSTANTS
  MaxCalls,  \* how many calls of the page are in flight at once
  Lossy      \* which calls may fail: lost, refused as too many, an error

ASSUME NoticeAssumption == MaxCalls \in Nat \ {0, 1} /\ Lossy \subseteq {"options", "submit"}

VARIABLES
  page,   \* the page
  calls   \* its calls in flight

vars == <<settings, now, form, page, calls>>

Screens == {"compose", "closed", "confirm", "request"}
SUBMISSION_SCREENS == {"compose"}

Slots == 1 .. MaxCalls
Waits == 0 .. Horizon + 2 * Day

\* What the server says of the hours (Hours.payload).  A page keeps whether the
\* last answer said open, and the timer set from it.
Hour == [open: BOOLEAN, seconds_until_change: Waits \cup {None}]

\* trail is where back() returns to, recheck the ticks to the next question.
Page == [shown: BOOLEAN, screen: Screens, trail: Seq(Screens),
         open: BOOLEAN, recheck: Waits \cup {None}]

\* A call is sent and then answered: a submission "accepted", "shut" with the
\* hours, or "refused" for another reason; a catalogue call with the hours.
\* It has aged once the clock has ticked.
Call == [kind: {"options", "submit"}, outcome: {"sent", "ok", "shut", "refused", "failed"},
         hours: Hour \cup {None}, aged: BOOLEAN]

NoticeTypeOK ==
  /\ HoursTypeOK
  /\ page \in Page /\ Len(page.trail) <= 1
  /\ calls \in Seq(Call) /\ Len(calls) <= MaxCalls

-----------------------------------------------------------------------------
(* The page.                                                               *)

isClosed(p) == ~p.open

\* fault: the screens are only looked at as
\* an answer comes in.
GoAnyway(p, screen, replace, reset) ==
  [p EXCEPT !.screen = screen,
            !.trail = IF reset THEN <<>>
                      ELSE IF ~replace /\ p.screen # screen THEN Append(p.trail, p.screen)
                      ELSE p.trail]

\* go: every change of screen.  A submission screen is replaced while the last
\* answer says the desk is shut.
go(p, screen, replace, reset) ==
  LET shut == isClosed(p) /\ screen \in SUBMISSION_SCREENS
      trail == IF ~replace /\ ~shut /\ p.screen # screen
               THEN Append(p.trail, p.screen) ELSE p.trail
  IN  [p EXCEPT !.screen = IF shut THEN "closed" ELSE screen,
                !.trail = IF reset \/ shut THEN <<>> ELSE trail]

\* fault: going back leaves its mark.
BackUnmarked(p) == go(p, Last(p.trail), TRUE, FALSE)

\* back(): the only move that does not come from the screen it leaves.
back(p) == go([p EXCEPT !.trail = Front(p.trail)], Last(p.trail), TRUE, FALSE)

\* restart() also forgets the answers given, and asks for the catalogue again.
restart(p) == go(p, "compose", TRUE, TRUE)

Keep(p, hours) ==
  [p EXCEPT !.open = hours.open, !.recheck = hours.seconds_until_change]

\* fault: the notice is never taken down.
NeverTakenDown(p, hours) ==
  LET q == Keep(p, hours)
  IN  IF ~hours.open /\ p.screen \in SUBMISSION_SCREENS THEN go(q, "closed", TRUE, TRUE) ELSE q

\* applyHours: keep the answer, ask again just after the moment it names, and
\* put the notice up or take it down.
applyHours(p, hours) ==
  LET q == Keep(p, hours)
  IN  IF hours.open
      THEN IF p.screen = "closed" THEN restart(q) ELSE q
      ELSE IF p.screen \in SUBMISSION_SCREENS THEN go(q, "closed", TRUE, TRUE) ELSE q

\* Whether taking the notice down asks for the catalogue once more.
Restarts(p, hours) == hours.open /\ p.screen = "closed"

\* The bootstrap page, rendered with the hours on it and hidden until there is
\* a session.
Rendered ==
  applyHours([shown |-> FALSE, screen |-> "compose", trail |-> <<>>,
              open |-> TRUE, recheck |-> None],
             payload(settings, now))

-----------------------------------------------------------------------------
(* Calls.                                                                  *)

NewCall(kind) == [kind |-> kind, outcome |-> "sent", hours |-> None, aged |-> FALSE]

\* loadOptions, or the submission's POST.  Calls are kept in the order they
\* were sent in, and served and answered in any.
Sent(cs, kind) == Append(cs, NewCall(kind))

\* What the client starts leaves room for what the page starts by itself.
Room == Len(calls) < MaxCalls - 1

Holds(i, kinds, outcomes) ==
  i \in DOMAIN calls /\ calls[i].kind \in kinds /\ calls[i].outcome \in outcomes

\* OptionsView.get: the hours come first, and with the desk shut there is no
\* more; `failed` is any answer that is not one (too many calls, an error).
OptionsView(i) ==
  /\ Holds(i, {"options"}, {"sent"})
  /\ calls' = [calls EXCEPT ![i].outcome = "ok", ![i].hours = payload(settings, now)]
  /\ UNCHANGED <<settings, now, form, page>>

\* RequestsView.post through build_draft: check_business_hours is the first
\* thing looked at, whatever the page thinks; then all the other reasons.
SubmitView(i) ==
  /\ Holds(i, {"submit"}, {"sent"})
  /\ IF evaluate(settings, now).is_open
     THEN \E outcome \in {"ok", "refused"} : calls' = [calls EXCEPT ![i].outcome = outcome]
     ELSE calls' = [calls EXCEPT ![i].outcome = "shut", ![i].hours = payload(settings, now)]
  /\ UNCHANGED <<settings, now, form, page>>

Fail(i) ==
  /\ Holds(i, Lossy, {"sent"})
  /\ calls' = [calls EXCEPT ![i].outcome = "failed"]
  /\ UNCHANGED <<settings, now, form, page>>

\* applyOptions.  Taking the notice down asks again.
OptionsAnswered(i) ==
  /\ Holds(i, {"options"}, {"ok"})
  /\ page' = applyHours(page, calls[i].hours)
  /\ LET rest == RemoveAt(calls, i)
     IN  calls' = IF Restarts(page, calls[i].hours) THEN Sent(rest, "options") ELSE rest
  /\ UNCHANGED <<settings, now, form>>

\* A failed call is a toast: nothing is kept, nothing is asked again.
FailureShown(i) ==
  /\ Holds(i, {"options", "submit"}, {"failed"})
  /\ calls' = RemoveAt(calls, i)
  /\ UNCHANGED <<settings, now, form, page>>

\* onSubmitted and onSubmitRefused: some refusals re-ask the catalogue.
SubmitAnswered(i) ==
  /\ Holds(i, {"submit"}, {"ok", "shut", "refused"})
  /\ page' = CASE calls[i].outcome = "ok" -> go(page, "confirm", TRUE, TRUE)
               [] calls[i].outcome = "shut" ->
                    go(applyHours(page, calls[i].hours), "closed", TRUE, TRUE)
               [] calls[i].outcome = "refused" -> page
  /\ LET rest == RemoveAt(calls, i)
     IN  IF calls[i].outcome = "refused"
         THEN calls' \in {rest, Sent(rest, "options")}
         ELSE calls' = rest
  /\ UNCHANGED <<settings, now, form>>

-----------------------------------------------------------------------------
(* What the client does, and what happens by itself.                       *)

\* Answering a column of the row asks the catalogue about the next.
Pick ==
  /\ page.shown /\ page.screen = "compose" /\ Room
  /\ calls' = Sent(calls, "options")
  /\ UNCHANGED <<settings, now, form, page>>

\* The button is disabled while a submission is out.
Submit ==
  /\ page.shown /\ page.screen = "compose"
  /\ \A i \in DOMAIN calls : calls[i].kind # "submit"
  /\ IF isClosed(page)
     THEN page' = go(page, "closed", TRUE, TRUE) /\ UNCHANGED calls
     ELSE Room /\ calls' = Sent(calls, "submit") /\ UNCHANGED page
  /\ UNCHANGED <<settings, now, form>>

\* A row of the history, on the compose screen or on the notice, or the
\* confirmation's "track".
OpenRequest ==
  /\ page.shown /\ page.screen \in {"compose", "closed", "confirm"}
  /\ page' = go(page, "request", FALSE, FALSE)
  /\ UNCHANGED <<settings, now, form, calls>>

\* The back arrow is shown while there is somewhere to go back to.
Back ==
  /\ page.shown /\ page.trail # <<>>
  /\ page' = back(page)
  /\ UNCHANGED <<settings, now, form, calls>>

\* "A new request", on the confirmation and on the request view.
NewRequest ==
  /\ page.shown /\ page.screen \in {"confirm", "request"} /\ Room
  /\ page' = restart(page)
  /\ calls' = Sent(calls, "options")
  /\ UNCHANGED <<settings, now, form>>

\* embed.onSession: an ended session stops the clock and hides the page, a new
\* one starts the row over.
SessionEnds ==
  /\ page.shown
  /\ page' = [page EXCEPT !.shown = FALSE, !.recheck = None]
  /\ UNCHANGED <<settings, now, form, calls>>

SessionStarts ==
  /\ ~page.shown /\ Room
  /\ page' = [restart(page) EXCEPT !.shown = TRUE]
  /\ calls' = Sent(calls, "options")
  /\ UNCHANGED <<settings, now, form>>

\* The client loads the portal anew.
Reload ==
  /\ page' = Rendered
  /\ calls' = <<>>
  /\ UNCHANGED <<settings, now, form>>

\* The timer applyHours set: it fires once.
Recheck ==
  /\ page.recheck = 0 /\ Len(calls) < MaxCalls
  /\ page' = [page EXCEPT !.recheck = None]
  /\ calls' = Sent(calls, "options")
  /\ UNCHANGED <<settings, now, form>>

\* Time passes, for the desk and for the page alike.  A tick is hours long: a
\* due timer fires within it, and a call is over before the second one.
Tick ==
  /\ page.recheck # 0
  /\ \A i \in DOMAIN calls : ~calls[i].aged
  /\ Passed
  /\ page' = [page EXCEPT !.recheck = IF @ = None THEN None ELSE @ - 1]
  /\ calls' = [i \in DOMAIN calls |-> [calls[i] EXCEPT !.aged = TRUE]]
  /\ UNCHANGED <<settings, form>>

-----------------------------------------------------------------------------
Init ==
  /\ HoursInit
  /\ page = Rendered
  /\ calls = <<>>

Answered(i) == OptionsAnswered(i) \/ SubmitAnswered(i) \/ FailureShown(i)

Client ==
  \/ Pick \/ Submit \/ OpenRequest \/ Back \/ NewRequest
  \/ SessionEnds \/ SessionStarts \/ Reload

Next ==
  \/ Administer /\ UNCHANGED <<page, calls>>
  \/ Tick \/ Recheck \/ Client
  \/ \E i \in Slots : OptionsView(i) \/ SubmitView(i) \/ Fail(i) \/ Answered(i)

Spec == Init /\ [][Next]_vars

\* Time goes on, the browser runs its timers and handlers, the server answers.
Fairness ==
  /\ WF_vars(Tick) /\ WF_vars(Recheck)
  /\ \A i \in Slots : WF_vars(OptionsView(i)) /\ WF_vars(SubmitView(i)) /\ WF_vars(Answered(i))

FairSpec == Spec /\ Fairness

-----------------------------------------------------------------------------
(* Correctness.                                                            *)

\* A submission screen is only up on an answer that said open, however answers,
\* sessions and the client's moves interleave: the desk's other line of defence
\* is the server's own check.  (flow.js go, "so a new caller cannot forget it")
ComposeOnlyWhenOpen == page.screen \in SUBMISSION_SCREENS => ~isClosed(page)

\* ... and the notice only on an answer that said shut.  (Broken by opening a
\* request from the notice, the desk opening meanwhile, and going back: flow.js
\* back().  The client then reads that the desk is shut until it next is.)
NoticeOnlyWhenShut == page.shown /\ page.screen = "closed" => isClosed(page)

Waiting == page.shown /\ page.screen = "closed"

\* Every answer the page has, or is about to have, names a moment: none was
\* given under the switch or for equal times.
Counting ==
  /\ page.recheck # None
  /\ \A i \in DOMAIN calls :
       calls[i].hours # None => calls[i].hours.seconds_until_change # None

\* From any moment on from which the desk follows windows, whichever it changes
\* between, and once it leaves them alone: a client in front of a notice that
\* counts down is let in without reloading, if no catalogue call fails.
\* (flow.js tick: "the recheck timer is what reopens the compose screen"; it
\* fires once, and one failed call leaves the client in front of a countdown
\* that has ended.)
NoticeLifts ==
  <>[][FALSE]_settings =>
    ((Waiting /\ Counting /\ []Windowed(settings)) ~> ~Waiting)

\* ... and so whatever notice the client is in front of.  (Broken by the switch
\* thrown back while the page holds an answer given under it: that one names no
\* moment, so the page sets no timer and never asks again.)
AnyNoticeLifts ==
  <>[][FALSE]_settings => ((Waiting /\ []Windowed(settings)) ~> ~Waiting)
=============================================================================
