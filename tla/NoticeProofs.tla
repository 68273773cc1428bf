----------------------------- MODULE NoticeProofs -----------------------------
(***************************************************************************)
(* The desk's hours and one client's page on them, for days of any length, *)
(* any timetable and any zone whose clocks move once, any number of calls  *)
(* in flight and any of them failing.                                      *)
(*                                                                         *)
(* First the hours: the moment a countdown runs to, on wall clocks that    *)
(* may move in between.  Then what the page and its calls hold; it takes   *)
(* the first part to see that a timer is one the page can keep.  Last, the *)
(* first of the two lines that keep a request from being composed outside  *)
(* the hours.                                                              *)
(***************************************************************************)
EXTENDS Notice, SequenceTheorems, TLAPS

-----------------------------------------------------------------------------
(***************************************************************************)
(* Wall clocks.                                                            *)
(***************************************************************************)

Clock(zone, t) == Local(zone, t) % Day
Today(zone, t) == Local(zone, t) - Clock(zone, t)

\* A zone's rule, and instants and wall times, are integers.
LEMMA Instants ==
  ASSUME NEW zone \in DOMAIN ZoneRule
  PROVE  /\ Day \in Nat \ {0}
         /\ ZoneRule[zone].at \in Nat
         /\ ZoneRule[zone].before \in Int /\ ZoneRule[zone].after \in Int
         /\ ZoneRule[zone].before - ZoneRule[zone].after <= Day
         /\ \A t \in Int : Offset(zone, t) \in Int /\ Local(zone, t) \in Int
<1>1. ZoneRule[zone] \in [at: Nat, before: Int, after: Int]
  BY HoursAssumption
<1> QED
  BY <1>1, HoursAssumption DEF Offset, Local

LEMMA Remainder ==
  ASSUME NEW n \in Nat \ {0}, NEW a \in Int
  PROVE  /\ a % n \in 0 .. n - 1
         /\ a \div n \in Int
         /\ a = n * (a \div n) + (a % n)
  OBVIOUS

LEMMA RemainderUnique ==
  ASSUME NEW n \in Nat \ {0}, NEW q \in Int, NEW r \in 0 .. n - 1
  PROVE  (n * q + r) % n = r
<1> DEFINE a == n * q + r
<1>0. a \in Int
  OBVIOUS
<1>1. a % n \in 0 .. n - 1 /\ a \div n \in Int /\ a = n * (a \div n) + (a % n)
  BY <1>0, Remainder
<1>2. n * (q - (a \div n)) = (a % n) - r
  BY <1>1
<1>3. q - (a \div n) \in Int
  BY <1>1
<1>4. \A k \in Int : n * k < n /\ n * k > -n => k = 0
  OBVIOUS
<1> QED
  BY <1>1, <1>2, <1>3, <1>4

\* The wall clock of an instant at most a day later under the same offset.
LEMMA ClockLater ==
  ASSUME NEW zone \in DOMAIN ZoneRule, NEW t \in Int, NEW e \in 0 .. Day,
         Offset(zone, t + e) = Offset(zone, t)
  PROVE  /\ Clock(zone, t) \in 0 .. Day - 1
         /\ Clock(zone, t + e) = IF Clock(zone, t) + e < Day THEN Clock(zone, t) + e
                                 ELSE Clock(zone, t) + e - Day
<1> DEFINE c == Clock(zone, t)
           q == Local(zone, t) \div Day
<1>1. Day \in Nat \ {0} /\ Local(zone, t) \in Int
  BY Instants
<1>2. c \in 0 .. Day - 1 /\ q \in Int /\ Local(zone, t) = Day * q + c
  BY <1>1, Remainder DEF Clock
<1> HIDE DEF c, q
<1>3. Local(zone, t + e) = Day * q + c + e
  <2>1. Local(zone, t + e) = Local(zone, t) + e
    BY <1>1, Instants DEF Local
  <2>2. Day * q \in Int
    BY <1>1, <1>2
  <2> QED
    BY <1>1, <1>2, <2>1, <2>2
<1>4. CASE c + e < Day
  <2>1. c + e \in 0 .. Day - 1 /\ Local(zone, t + e) = Day * q + (c + e)
    BY <1>1, <1>2, <1>3, <1>4
  <2>2. Clock(zone, t + e) = c + e
    BY <1>1, <1>2, <2>1, RemainderUnique DEF Clock
  <2> QED
    BY <1>2, <1>4, <2>2 DEF c
<1>5. CASE ~(c + e < Day)
  <2>1. c + e - Day \in 0 .. Day - 1
    BY <1>1, <1>2, <1>5
  <2>2. Day * q + Day = Day * (q + 1)
    BY <1>1, <1>2
  <2>3. Local(zone, t + e) = Day * (q + 1) + (c + e - Day)
    BY <1>1, <1>2, <1>3, <2>2
  <2>4. Clock(zone, t + e) = c + e - Day
    <3>1. q + 1 \in Int
      BY <1>2
    <3> QED
      BY <1>1, <2>1, <2>3, <3>1, RemainderUnique DEF Clock
  <2> QED
    BY <1>2, <1>5, <2>4 DEF c
<1> QED
  BY <1>4, <1>5

-----------------------------------------------------------------------------
\* A wall time at most a day ahead of the clock, read back as an instant and
\* pushed on by a day where it is past, is at most two days ahead.  (hours.py
\* evaluate's guard)
LEMMA GuardAhead ==
  ASSUME NEW zone \in DOMAIN ZoneRule, NEW t \in Int, NEW r \in 1 .. Day
  PROVE  _guard(zone, Local(zone, t) + r, t) \in t + 1 .. t + 2 * Day
<1> DEFINE rule == ZoneRule[zone]
           wall == Local(zone, t) + r
<1>0. /\ Day \in Nat \ {0} /\ rule.at \in Nat /\ rule.before \in Int /\ rule.after \in Int
      /\ rule.before - rule.after <= Day
  BY Instants
<1>1. _guard(zone, wall, t) =
        IF _at(zone, wall) > t THEN _at(zone, wall) ELSE _at(zone, wall + Day)
  BY DEF _guard
<1>2. CASE t < rule.at
  <2>1. wall = t + rule.before + r
    BY <1>2 DEF Local, Offset
  <2>2. _at(zone, wall) \in {t + r, t + r + rule.before - rule.after}
    BY <1>0, <2>1 DEF _at
  <2>3. _at(zone, wall) > t
    <3>1. CASE rule.before > rule.after
      BY <1>0, <2>2, <3>1
    <3>2. CASE ~(rule.before > rule.after)
      <4>1. _at(zone, wall) = wall - (IF wall < rule.at + rule.after THEN rule.before ELSE rule.after)
        BY <3>2 DEF _at
      <4> QED
        BY <1>0, <1>2, <2>1, <4>1
    <3> QED
      BY <3>1, <3>2
  <2> QED
    BY <1>0, <1>1, <2>2, <2>3
<1>3. CASE ~(t < rule.at)
  <2>1. wall = t + rule.after + r
    BY <1>3 DEF Local, Offset
  <2>2. CASE rule.before > rule.after
    <3>1. \A w \in Int : _at(zone, w) = w - (IF w < rule.at + rule.before THEN rule.before ELSE rule.after)
      BY <2>2 DEF _at
    <3>2. wall \in Int /\ wall + Day \in Int
      BY <1>0, <2>1
    <3>3. _at(zone, wall) = IF wall < rule.at + rule.before THEN t + r + rule.after - rule.before
                            ELSE t + r
      BY <1>0, <2>1, <3>1, <3>2
    <3>4. _at(zone, wall + Day) \in {t + r + Day + rule.after - rule.before, t + r + Day}
      BY <1>0, <2>1, <3>1, <3>2
    <3> QED
      BY <1>0, <1>1, <1>3, <2>2, <3>3, <3>4
  <2>3. CASE ~(rule.before > rule.after)
    <3>1. _at(zone, wall) = wall - (IF wall < rule.at + rule.after THEN rule.before ELSE rule.after)
      BY <2>3 DEF _at
    <3>2. _at(zone, wall) = t + r
      BY <1>0, <1>3, <2>1, <3>1
    <3> QED
      BY <1>0, <1>1, <3>2
  <2> QED
    BY <2>2, <2>3
<1> QED
  BY <1>2, <1>3

\* While the clocks stand still it is exactly that far ahead, and they do until then.
LEMMA GuardExact ==
  ASSUME NEW zone \in DOMAIN ZoneRule, NEW t \in Int, NEW r \in 1 .. Day,
         ~ClocksMove(zone, t)
  PROVE  /\ _guard(zone, Local(zone, t) + r, t) = t + r
         /\ \A e \in 0 .. r : Offset(zone, t + e) = Offset(zone, t)
<1> DEFINE rule == ZoneRule[zone]
           wall == Local(zone, t) + r
<1>0. /\ Day \in Nat \ {0} /\ rule.at \in Nat /\ rule.before \in Int /\ rule.after \in Int
      /\ rule.before - rule.after <= Day
  BY Instants
<1>1. \/ rule.before = rule.after
      \/ rule.at < t - Day
      \/ rule.at > t + 2 * Day
  BY <1>0 DEF ClocksMove
<1>2. \A e \in 0 .. r : Offset(zone, t + e) = Offset(zone, t)
  BY <1>0, <1>1 DEF Offset
<1>3. wall = t + r + Offset(zone, t) /\ Offset(zone, t) \in Int
  BY <1>0, Instants DEF Local
<1>4. _at(zone, wall) = wall - Offset(zone, t)
  <2>1. CASE rule.before > rule.after
    <3>1. _at(zone, wall) = wall - (IF wall < rule.at + rule.before THEN rule.before ELSE rule.after)
      BY <2>1 DEF _at
    <3> QED
      BY <1>0, <1>1, <1>3, <2>1, <3>1 DEF Offset
  <2>2. CASE ~(rule.before > rule.after)
    <3>1. _at(zone, wall) = wall - (IF wall < rule.at + rule.after THEN rule.before ELSE rule.after)
      BY <2>2 DEF _at
    <3> QED
      BY <1>0, <1>1, <1>3, <2>2, <3>1 DEF Offset
  <2> QED
    BY <2>1, <2>2
<1>5. _at(zone, wall) = t + r
  BY <1>0, <1>3, <1>4
<1>6. _guard(zone, wall, t) = t + r
  BY <1>0, <1>5 DEF _guard
<1> QED
  BY <1>2, <1>6

-----------------------------------------------------------------------------
\* The ticks the wall clock has left to the window's next edge.
Remaining(s, clock) ==
  LET edge == IF InWindow(s, clock) THEN s.close_time ELSE s.open_time
  IN  IF clock < edge THEN edge - clock ELSE Day + edge - clock

Timetable(s) ==
  /\ s.open_time \in 0 .. Day - 1 /\ s.close_time \in 0 .. Day - 1
  /\ s.open_time # s.close_time

\* The edge is at most a day ahead, and nothing changes on the way to it.
LEMMA EdgeIsNext ==
  ASSUME NEW s, Timetable(s), NEW clock \in 0 .. Day - 1
  PROVE  /\ Remaining(s, clock) \in 1 .. Day
         /\ \A e \in 0 .. Remaining(s, clock) :
              InWindow(s, IF clock + e < Day THEN clock + e ELSE clock + e - Day)
                <=> (InWindow(s, clock) <=> e < Remaining(s, clock))
<1>0. Day \in Nat \ {0}
  BY HoursAssumption
<1>1. CASE InWindow(s, clock)
  BY <1>0, <1>1 DEF Remaining, InWindow, Timetable
<1>2. CASE ~InWindow(s, clock)
  BY <1>0, <1>2 DEF Remaining, InWindow, Timetable
<1> QED
  BY <1>1, <1>2

\* What evaluate answers while the row's window counts.  (hours.py evaluate)
LEMMA Evaluated ==
  ASSUME NEW s, Windowed(s), Timetable(s), s.timezone \in DOMAIN ZoneRule, NEW t \in Int
  PROVE  LET zone == s.timezone
             clock == Clock(zone, t)
         IN  /\ evaluate(s, t).is_open = InWindow(s, clock)
             /\ evaluate(s, t).changes_at =
                  _guard(zone, Local(zone, t) + Remaining(s, clock), t)
<1> DEFINE zone == s.timezone
           clock == Clock(zone, t)
           today == Local(zone, t) - clock
<1>1. clock \in 0 .. Day - 1 /\ Local(zone, t) \in Int /\ Day \in Nat \ {0}
  BY Instants, Remainder DEF Clock
<1>4. InWindow(s, clock) \in BOOLEAN
  BY DEF InWindow
<1>2. CASE InWindow(s, clock)
  <2>1. evaluate(s, t) = Answer(TRUE, "schedule",
                           _guard(zone, ClosesOn(s, clock, today) + s.close_time, t))
    BY <1>2 DEF evaluate, Windowed, Clock
  <2>2. ClosesOn(s, clock, today) + s.close_time = Local(zone, t) + Remaining(s, clock)
    BY <1>1, <1>2 DEF ClosesOn, Remaining, InWindow, Timetable
  <2>3. evaluate(s, t).is_open = TRUE
    BY <2>1 DEF Answer
  <2>4. evaluate(s, t).changes_at = _guard(zone, Local(zone, t) + Remaining(s, clock), t)
    BY <2>1, <2>2 DEF Answer
  <2>5. InWindow(s, clock) = TRUE
    BY <1>2, <1>4, Zenon
  <2> QED
    BY <2>3, <2>4, <2>5
<1>3. CASE ~InWindow(s, clock)
  <2>1. evaluate(s, t) = Answer(FALSE, "schedule",
                           _guard(zone, OpensOn(s, clock, today) + s.open_time, t))
    BY <1>3 DEF evaluate, Windowed, Clock
  <2>2. OpensOn(s, clock, today) + s.open_time = Local(zone, t) + Remaining(s, clock)
    BY <1>1, <1>3 DEF OpensOn, Remaining, InWindow, Timetable
  <2>3. evaluate(s, t).is_open = FALSE
    BY <2>1 DEF Answer
  <2>4. evaluate(s, t).changes_at = _guard(zone, Local(zone, t) + Remaining(s, clock), t)
    BY <2>1, <2>2 DEF Answer
  <2>5. InWindow(s, clock) = FALSE
    BY <1>3, <1>4, Zenon
  <2> QED
    BY <2>3, <2>4, <2>5
<1> QED
  BY <1>2, <1>3

\* The moment a countdown runs to.
LEMMA ChangesAhead ==
  ASSUME NEW s, Windowed(s), Timetable(s), s.timezone \in DOMAIN ZoneRule, NEW t \in Int
  PROVE  evaluate(s, t).changes_at \in t + 1 .. t + 2 * Day
<1>1. Clock(s.timezone, t) \in 0 .. Day - 1
  BY Instants, Remainder DEF Clock
<1> QED
  BY <1>1, EdgeIsNext, Evaluated, GuardAhead

LEMMA SameTruth ==
  ASSUME NEW a \in BOOLEAN, NEW b \in BOOLEAN, a <=> b
  PROVE  a = b
  OBVIOUS

LEMMA ChangesExactly ==
  ASSUME NEW s, Windowed(s), Timetable(s), s.timezone \in DOMAIN ZoneRule, NEW t \in Int,
         ~ClocksMove(s.timezone, t)
  PROVE  LET answer == evaluate(s, t)
         IN  /\ evaluate(s, answer.changes_at).is_open # answer.is_open
             /\ \A u \in t .. answer.changes_at - 1 : evaluate(s, u).is_open = answer.is_open
<1> DEFINE zone == s.timezone
           clock == Clock(zone, t)
           r == Remaining(s, clock)
           answer == evaluate(s, t)
<1>0. Day \in Nat \ {0} /\ clock \in 0 .. Day - 1
  BY Instants, Remainder DEF Clock
<1>1. r \in 1 .. Day
  BY <1>0, EdgeIsNext
<1>2. answer.changes_at = t + r /\ answer.is_open = InWindow(s, clock)
  BY <1>1, Evaluated, GuardExact
<1>3. ASSUME NEW e \in 0 .. r
      PROVE  evaluate(s, t + e).is_open <=> (InWindow(s, clock) <=> e < r)
  <2>1. Offset(zone, t + e) = Offset(zone, t) /\ e \in 0 .. Day /\ t + e \in Int
    BY <1>0, <1>1, <1>3, GuardExact
  <2>2. Clock(zone, t + e) = IF clock + e < Day THEN clock + e ELSE clock + e - Day
    BY <2>1, ClockLater
  <2>3. evaluate(s, t + e).is_open = InWindow(s, Clock(zone, t + e))
    BY <2>1, Evaluated
  <2> QED
    BY <1>0, <1>3, <2>2, <2>3, EdgeIsNext
<1>4. \A u \in Int : evaluate(s, u).is_open \in BOOLEAN
  BY Evaluated DEF InWindow
<1> HIDE DEF r, answer, clock
<1>5. evaluate(s, t + r).is_open # answer.is_open
  <2>1. r \in 0 .. r /\ t + r \in Int
    BY <1>0, <1>1
  <2>2. evaluate(s, t + r).is_open <=> ~InWindow(s, clock)
    BY <1>1, <1>3, <2>1
  <2> QED
    BY <1>2, <1>4, <2>1, <2>2, Zenon
<1>6. ASSUME NEW u \in t .. answer.changes_at - 1
      PROVE  evaluate(s, u).is_open = answer.is_open
  <2>1. u - t \in 0 .. r /\ u - t < r /\ u = t + (u - t) /\ u \in Int
    BY <1>0, <1>1, <1>2, <1>6
  <2>2. evaluate(s, u).is_open <=> answer.is_open
    BY <1>2, <1>3, <2>1
  <2>3. evaluate(s, u).is_open \in BOOLEAN /\ answer.is_open \in BOOLEAN
    BY <1>4, <2>1 DEF answer
  <2> QED
    BY <2>2, <2>3, SameTruth
<1> QED
  BY <1>2, <1>5, <1>6 DEF answer

-----------------------------------------------------------------------------
(***************************************************************************)
(* What the row, the page and its calls hold.                              *)
(***************************************************************************)

\* There is a way back only from the request view, and one step of it.
Typed(p) ==
  /\ p \in Page
  /\ Len(p.trail) <= 1
  /\ p.trail # <<>> => p.screen = "request"

\* A call that the page reads hours from carries some.
Answering == {call \in Call :
  (call.kind = "options" /\ call.outcome = "ok") \/ call.outcome = "shut" => call.hours \in Hour}

CallsOK == calls \in Seq(Answering) /\ Len(calls) <= MaxCalls

TypesInv == HoursTypeOK /\ Typed(page) /\ CallsOK

\* Any row of times in the day and a zone of the database: the next change is at
\* most two days ahead, if there is one.
LEMMA RowsRead ==
  ASSUME NEW s \in Settings
  PROVE  /\ s.timezone \in DOMAIN ZoneRule
         /\ Windowed(s) => Timetable(s)
  BY HoursAssumption DEF Settings, Timetable, Windowed

\* payload is an hour a page can keep.  (core/hours.py Hours.payload)
LEMMA PayloadFits ==
  ASSUME NEW s \in Settings, NEW t \in Int
  PROVE  payload(s, t) \in Hour
<1> DEFINE answer == evaluate(s, t)
<1>1. answer.is_open \in BOOLEAN /\ (answer.changes_at = None \/ answer.changes_at \in t + 1 .. t + 2 * Day)
  <2>1. CASE Windowed(s)
    <3>1. answer.is_open \in BOOLEAN
      BY <2>1, RowsRead, Evaluated DEF InWindow
    <3>2. answer.changes_at \in t + 1 .. t + 2 * Day
      BY <2>1, RowsRead, ChangesAhead
    <3> QED
      BY <3>1, <3>2
  <2>2. CASE s.is_open_override = "open"
    <3>1. answer = Answer(TRUE, "override_open", None)
      BY <2>2 DEF evaluate, Windowed
    <3> QED
      BY <3>1 DEF Answer
  <2>3. CASE s.is_open_override = "closed"
    <3>1. answer = Answer(FALSE, "override_closed", None)
      BY <2>3 DEF evaluate, Windowed
    <3> QED
      BY <3>1 DEF Answer
  <2>4. CASE s.is_open_override = "follow" /\ s.open_time = s.close_time
    <3>1. answer = Answer(TRUE, "always_open", None)
      BY <2>4 DEF evaluate, Windowed
    <3> QED
      BY <3>1 DEF Answer
  <2> QED
    BY <2>1, <2>2, <2>3, <2>4 DEF Settings, OVERRIDE_CHOICES, Windowed
<1>2. Day \in Nat \ {0} /\ Horizon \in Nat \ {0}
  BY HoursAssumption
<1> HIDE DEF answer
<1>3. (IF answer.changes_at = None THEN None ELSE answer.changes_at - t) \in Waits \cup {None}
  BY <1>1, <1>2 DEF Waits
<1> QED
  BY <1>1, <1>3 DEF payload, Hour, answer

\* go, from a page with no way back or with none kept.  (flow.js go)
LEMMA GoTyped ==
  ASSUME NEW p, Typed(p), NEW screen \in Screens, NEW replace \in BOOLEAN, NEW reset \in BOOLEAN,
         reset \/ p.trail = <<>>, replace \/ screen = "request"
  PROVE  Typed(go(p, screen, replace, reset))
<1> DEFINE shut == isClosed(p) /\ screen \in SUBMISSION_SCREENS
           left == IF ~replace /\ ~shut /\ p.screen # screen THEN Append(p.trail, p.screen) ELSE p.trail
           trail == IF reset \/ shut THEN <<>> ELSE left
<1>1. p.screen \in Screens /\ p.trail \in Seq(Screens)
  BY DEF Typed, Page
<1>2. trail = <<>> \/ (trail = Append(<<>>, p.screen) /\ screen = "request")
  OBVIOUS
<1>3. <<>> \in Seq(Screens) /\ Len(<<>>) = 0
  OBVIOUS
<1>4. trail \in Seq(Screens) /\ Len(trail) <= 1 /\ (trail # <<>> => screen = "request")
  <2>1. CASE trail = <<>>
    <3> HIDE DEF trail
    <3> QED
      BY <1>3, <2>1
  <2>2. CASE trail = Append(<<>>, p.screen) /\ screen = "request"
    <3>1. /\ Append(<<>>, p.screen) \in Seq(Screens)
          /\ Len(Append(<<>>, p.screen)) = Len(<<>>) + 1
      BY <1>1, <1>3, AppendProperties
    <3> HIDE DEF trail
    <3> QED
      BY <1>3, <2>2, <3>1
  <2> QED
    BY <1>2, <2>1, <2>2
<1>5. go(p, screen, replace, reset) =
        [p EXCEPT !.screen = IF shut THEN "closed" ELSE screen, !.trail = trail]
  BY DEF go
<1>6. trail # <<>> => ~shut
  OBVIOUS
<1> HIDE DEF trail
<1> QED
  BY <1>4, <1>5, <1>6 DEF Typed, Page, Screens

\* applyHours, on whatever screen.  (flow.js applyHours)
LEMMA ApplyTyped ==
  ASSUME NEW p, Typed(p), NEW hours \in Hour
  PROVE  Typed(applyHours(p, hours))
<1> DEFINE q == Keep(p, hours)
<1>1. Typed(q) /\ q.screen = p.screen
  BY DEF Keep, Typed, Page, Hour
<1> HIDE DEF q
<1>2. Typed(go(q, "closed", TRUE, TRUE)) /\ Typed(restart(q))
  BY <1>1, GoTyped DEF Screens, restart
<1> QED
  BY <1>1, <1>2 DEF applyHours, q

LEMMA RenderedTyped == HoursTypeOK => Typed(Rendered)
<1> SUFFICES ASSUME HoursTypeOK
             PROVE  Typed(Rendered)
  OBVIOUS
<1> DEFINE p == [shown |-> FALSE, screen |-> "compose", trail |-> <<>>,
                 open |-> TRUE, recheck |-> None]
<1>1. Typed(p)
  BY DEF Typed, Page, Screens
<1>2. payload(settings, now) \in Hour
  BY PayloadFits DEF HoursTypeOK
<1> HIDE DEF p
<1>3. Typed(applyHours(p, payload(settings, now)))
  BY <1>1, <1>2, ApplyTyped
<1> QED
  BY <1>3 DEF Rendered, p

\* A call more, and a call fewer.
LEMMA SentFits ==
  ASSUME NEW cs \in Seq(Answering), NEW kind \in {"options", "submit"}
  PROVE  Sent(cs, kind) \in Seq(Answering) /\ Len(Sent(cs, kind)) = Len(cs) + 1
<1>1. NewCall(kind) \in Answering
  BY DEF NewCall, Answering, Call
<1> QED
  BY <1>1, AppendProperties DEF Sent

LEMMA RemovedFits ==
  ASSUME NEW S, NEW s \in Seq(S), NEW i \in DOMAIN s
  PROVE  RemoveAt(s, i) \in Seq(S) /\ Len(RemoveAt(s, i)) = Len(s) - 1
<1>1. Len(s) \in Nat /\ i \in 1 .. Len(s) /\ \A k \in 1 .. Len(s) : s[k] \in S
  OBVIOUS
<1>2. SubSeq(s, 1, i - 1) \in Seq(S) /\ Len(SubSeq(s, 1, i - 1)) = i - 1
  BY <1>1, SubSeqProperties
<1>3. SubSeq(s, i + 1, Len(s)) \in Seq(S) /\ Len(SubSeq(s, i + 1, Len(s))) = Len(s) - i
  BY <1>1, SubSeqProperties
<1> DEFINE before == SubSeq(s, 1, i - 1)
           after == SubSeq(s, i + 1, Len(s))
<1> HIDE DEF before, after
<1>4. before \o after \in Seq(S) /\ Len(before \o after) = Len(before) + Len(after)
  BY <1>2, <1>3, ConcatProperties DEF before, after
<1>5. RemoveAt(s, i) = before \o after
  BY DEF RemoveAt, before, after
<1>6. Len(before) = i - 1 /\ Len(after) = Len(s) - i
  BY <1>2, <1>3 DEF before, after
<1> QED
  BY <1>1, <1>4, <1>5, <1>6

LEMMA ChangedFits ==
  ASSUME CallsOK, NEW i \in DOMAIN calls, NEW call \in Answering
  PROVE  [calls EXCEPT ![i] = call] \in Seq(Answering) /\ Len([calls EXCEPT ![i] = call]) = Len(calls)
  BY ExceptSeq DEF CallsOK

\* Going back uses the one step up.  (flow.js back)
LEMMA BackTyped ==
  ASSUME NEW p, Typed(p), p.trail # <<>>
  PROVE  Typed(back(p))
<1>1. p.trail \in Seq(Screens) /\ Len(p.trail) = 1
  <2>1. p.trail \in Seq(Screens)
    BY DEF Typed, Page
  <2>2. Len(p.trail) \in Nat \ {0}
    BY <2>1, EmptySeq
  <2>3. Len(p.trail) <= 1
    BY DEF Typed
  <2>4. \A n \in Nat \ {0} : n <= 1 => n = 1
    OBVIOUS
  <2> QED
    BY <2>1, <2>2, <2>3, <2>4, Zenon
<1>2. Front(p.trail) = <<>>
  BY <1>1, SubSeqEmpty DEF Front
<1>3. Last(p.trail) \in Screens
  BY <1>1 DEF Last
<1> DEFINE q == [p EXCEPT !.trail = <<>>]
<1>4. Typed(q) /\ q.trail = <<>>
  <2>1. <<>> \in Seq(Screens) /\ Len(<<>>) = 0
    OBVIOUS
  <2>2. q \in Page /\ q.trail = <<>>
    BY <2>1 DEF Typed, Page
  <2> QED
    BY <2>1, <2>2 DEF Typed
<1>5. back(p) = go(q, Last(p.trail), TRUE, FALSE)
  BY <1>2 DEF back
<1> HIDE DEF q
<1> QED
  BY <1>3, <1>4, <1>5, GoTyped

LEMMA InitTyped == Init => TypesInv
<1> SUFFICES ASSUME Init
             PROVE  TypesInv
  OBVIOUS
<1>1. HoursTypeOK
  BY HoursAssumption
     DEF Init, HoursInit, HoursTypeOK, Settings, Defaults, OVERRIDE_CHOICES
<1>2. Typed(page)
  BY <1>1, RenderedTyped DEF Init
<1>3. CallsOK
  <2>1. <<>> \in Seq(Answering) /\ Len(<<>>) = 0
    OBVIOUS
  <2> QED
    BY <2>1, NoticeAssumption DEF Init, CallsOK
<1> QED
  BY <1>1, <1>2, <1>3 DEF TypesInv

\* The settings page writes a row, and the clock starts over.
LEMMA DeskTyped ==
  ASSUME TypesInv, Administer, UNCHANGED <<page, calls>>
  PROVE  TypesInv'
<1>1. HoursTypeOK'
  <2>1. PICK a \in Desk : OpenSettings(a) \/ \E values \in Settings : SaveSettings(a, values)
    BY DEF Administer
  <2>2. CASE OpenSettings(a)
    BY <2>2 DEF OpenSettings, TypesInv, HoursTypeOK
  <2>3. CASE \E values \in Settings : SaveSettings(a, values)
    BY <2>3 DEF SaveSettings, TypesInv, HoursTypeOK
  <2> QED
    BY <2>1, <2>2, <2>3
<1> QED
  BY <1>1 DEF TypesInv, CallsOK

\* The server's side of a call: what it answers with is what the page reads.
LEMMA ServedTyped ==
  ASSUME TypesInv, NEW i \in Slots, OptionsView(i) \/ SubmitView(i) \/ Fail(i)
  PROVE  TypesInv'
<1>0. /\ i \in DOMAIN calls /\ calls[i] \in Call /\ calls[i].outcome = "sent"
      /\ calls \in Seq(Answering)
      /\ UNCHANGED <<settings, now, form, page>>
  <2>1. Holds(i, {"options"}, {"sent"}) \/ Holds(i, {"submit"}, {"sent"}) \/ Holds(i, Lossy, {"sent"})
    BY DEF OptionsView, SubmitView, Fail
  <2>2. i \in DOMAIN calls /\ calls[i].outcome = "sent"
    BY <2>1 DEF Holds
  <2>3. calls[i] \in Answering
    BY <2>2 DEF TypesInv, CallsOK
  <2> QED
    BY <2>2, <2>3 DEF TypesInv, CallsOK, Answering, OptionsView, SubmitView, Fail
<1>1. payload(settings, now) \in Hour
  BY PayloadFits DEF TypesInv, HoursTypeOK
<1>2. ASSUME NEW call \in Answering, calls' = [calls EXCEPT ![i] = call]
      PROVE  TypesInv'
  BY <1>0, <1>2, ChangedFits DEF TypesInv, CallsOK, HoursTypeOK
<1>3. CASE OptionsView(i)
  <2> DEFINE call == [calls[i] EXCEPT !.outcome = "ok", !.hours = payload(settings, now)]
  <2>1. call \in Answering
    BY <1>0, <1>1 DEF Answering, Call
  <2>2. calls' = [calls EXCEPT ![i] = call]
    BY <1>0, <1>3 DEF OptionsView, Call
  <2> QED
    BY <1>2, <2>1, <2>2
<1>4. CASE SubmitView(i)
  <2> DEFINE shut == [calls[i] EXCEPT !.outcome = "shut", !.hours = payload(settings, now)]
             other(outcome) == [calls[i] EXCEPT !.outcome = outcome]
  <2>1. calls[i].kind = "submit"
    BY <1>4 DEF SubmitView, Holds
  <2>2. shut \in Answering /\ \A outcome \in {"ok", "refused"} : other(outcome) \in Answering
    BY <1>0, <1>1, <2>1 DEF Answering, Call
  <2>3. CASE evaluate(settings, now).is_open
    <3>1. \E outcome \in {"ok", "refused"} : calls' = [calls EXCEPT ![i].outcome = outcome]
      BY <1>4, <2>3 DEF SubmitView
    <3> QED
      BY <1>2, <2>2, <3>1
  <2>4. CASE ~evaluate(settings, now).is_open
    <3>1. calls' = [calls EXCEPT ![i].outcome = "shut", ![i].hours = payload(settings, now)]
      BY <1>4, <2>4 DEF SubmitView
    <3>2. calls' = [calls EXCEPT ![i] = shut]
      BY <1>0, <3>1 DEF Call
    <3> QED
      BY <1>2, <2>2, <3>2
  <2> QED
    BY <2>3, <2>4
<1>5. CASE Fail(i)
  <2> DEFINE call == [calls[i] EXCEPT !.outcome = "failed"]
  <2>1. call \in Answering
    BY <1>0 DEF Answering, Call
  <2>2. calls' = [calls EXCEPT ![i] = call]
    BY <1>0, <1>5 DEF Fail, Call
  <2> QED
    BY <1>2, <2>1, <2>2
<1> QED
  BY <1>3, <1>4, <1>5

\* The page's side: it reads hours only from an answer that has them, and a
\* handled call makes room for the one it may start.
LEMMA HeardTyped ==
  ASSUME TypesInv, NEW i \in Slots, Answered(i)
  PROVE  TypesInv'
<1>0. /\ i \in DOMAIN calls /\ calls[i] \in Answering /\ Typed(page)
      /\ UNCHANGED <<settings, now, form>>
  <2>1. i \in DOMAIN calls /\ UNCHANGED <<settings, now, form>>
    BY DEF Answered, OptionsAnswered, SubmitAnswered, FailureShown, Holds
  <2> QED
    BY <2>1 DEF TypesInv, CallsOK
<1> DEFINE rest == RemoveAt(calls, i)
<1>1. /\ rest \in Seq(Answering) /\ Len(rest) = Len(calls) - 1
      /\ Sent(rest, "options") \in Seq(Answering) /\ Len(Sent(rest, "options")) = Len(calls)
      /\ Len(calls) \in Nat
  <2>1. rest \in Seq(Answering) /\ Len(rest) = Len(calls) - 1
    BY <1>0, RemovedFits DEF TypesInv, CallsOK
  <2>2. Len(calls) \in Nat
    BY DEF TypesInv, CallsOK
  <2> HIDE DEF rest
  <2> QED
    BY <2>1, <2>2, SentFits
<1>2. Len(calls) <= MaxCalls /\ MaxCalls \in Nat
  BY NoticeAssumption DEF TypesInv, CallsOK
<1> HIDE DEF rest
<1>3. ASSUME Typed(page'), calls' = rest \/ calls' = Sent(rest, "options")
      PROVE  TypesInv'
  BY <1>0, <1>1, <1>2, <1>3 DEF TypesInv, CallsOK, HoursTypeOK
<1>4. CASE OptionsAnswered(i)
  <2>1. calls[i].hours \in Hour /\ page' = applyHours(page, calls[i].hours)
    BY <1>0, <1>4 DEF OptionsAnswered, Holds, Answering
  <2>2. calls' = rest \/ calls' = Sent(rest, "options")
    BY <1>4 DEF OptionsAnswered, rest
  <2> QED
    BY <1>0, <1>3, <2>1, <2>2, ApplyTyped
<1>5. CASE FailureShown(i)
  BY <1>0, <1>3, <1>5 DEF FailureShown, rest
<1>6. CASE SubmitAnswered(i)
  <2>1. calls' = rest \/ calls' = Sent(rest, "options")
    BY <1>6 DEF SubmitAnswered, rest
  <2>2. calls[i].outcome \in {"ok", "shut", "refused"}
    BY <1>6 DEF SubmitAnswered, Holds
  <2>3. {"closed", "confirm"} \subseteq Screens
    BY DEF Screens
  <2>4. CASE calls[i].outcome = "ok"
    <3>1. page' = go(page, "confirm", TRUE, TRUE)
      BY <1>6, <2>4 DEF SubmitAnswered
    <3> QED
      BY <1>0, <1>3, <2>1, <2>3, <3>1, GoTyped
  <2>5. CASE calls[i].outcome = "shut"
    <3>1. page' = go(applyHours(page, calls[i].hours), "closed", TRUE, TRUE)
      BY <1>6, <2>5 DEF SubmitAnswered
    <3>2. calls[i].hours \in Hour
      BY <1>0, <2>5 DEF Answering
    <3>3. Typed(applyHours(page, calls[i].hours))
      BY <1>0, <3>2, ApplyTyped
    <3> QED
      BY <1>3, <2>1, <2>3, <3>1, <3>3, GoTyped
  <2>6. CASE calls[i].outcome = "refused"
    <3>1. page' = page
      BY <1>6, <2>6 DEF SubmitAnswered
    <3> QED
      BY <1>0, <1>3, <2>1, <3>1
  <2> QED
    BY <2>2, <2>4, <2>5, <2>6
<1> QED
  BY <1>4, <1>5, <1>6 DEF Answered

\* The client's side: what they start leaves the page room.
LEMMA ClientTyped == TypesInv /\ Client => TypesInv'
<1> SUFFICES ASSUME TypesInv, Client
             PROVE  TypesInv'
  OBVIOUS
<1>0. /\ Typed(page) /\ calls \in Seq(Answering) /\ Len(calls) \in Nat /\ Len(calls) <= MaxCalls
      /\ MaxCalls \in Nat /\ {"compose", "closed", "request"} \subseteq Screens
  BY NoticeAssumption DEF TypesInv, CallsOK, Screens
<1>1. UNCHANGED <<settings, now, form>>
  BY DEF Client, Pick, Submit, OpenRequest, Back, NewRequest, SessionEnds, SessionStarts, Reload
<1>2. ASSUME Typed(page'),
             \/ UNCHANGED calls
             \/ calls' = <<>>
             \/ Room /\ (calls' = Sent(calls, "options") \/ calls' = Sent(calls, "submit"))
      PROVE  TypesInv'
  <2>1. HoursTypeOK'
    BY <1>1 DEF TypesInv, HoursTypeOK
  <2>2. CallsOK'
    <3>1. CASE UNCHANGED calls
      BY <1>0, <3>1 DEF CallsOK
    <3>2. CASE calls' = <<>>
      <4>1. <<>> \in Seq(Answering) /\ Len(<<>>) = 0
        OBVIOUS
      <4> QED
        BY <1>0, <3>2, <4>1 DEF CallsOK
    <3>3. CASE Room /\ (calls' = Sent(calls, "options") \/ calls' = Sent(calls, "submit"))
      <4>1. calls' \in Seq(Answering) /\ Len(calls') = Len(calls) + 1
        BY <1>0, <3>3, SentFits
      <4> QED
        BY <1>0, <3>3, <4>1 DEF CallsOK, Room
    <3> QED
      BY <1>2, <3>1, <3>2, <3>3
  <2> QED
    BY <1>2, <2>1, <2>2 DEF TypesInv
<1>3. Typed(restart(page)) /\ Typed(go(page, "closed", TRUE, TRUE))
  BY <1>0, GoTyped DEF restart
<1>4. CASE Pick
  BY <1>0, <1>2, <1>4 DEF Pick
<1>5. CASE Submit
  <2>1. CASE isClosed(page)
    <3>1. page' = go(page, "closed", TRUE, TRUE) /\ UNCHANGED calls
      BY <1>5, <2>1 DEF Submit
    <3> QED
      BY <1>2, <1>3, <3>1
  <2>2. CASE ~isClosed(page)
    <3>1. Room /\ calls' = Sent(calls, "submit") /\ page' = page
      BY <1>5, <2>2 DEF Submit
    <3> QED
      BY <1>0, <1>2, <3>1
  <2> QED
    BY <2>1, <2>2
<1>6. CASE OpenRequest
  <2>1. page.trail = <<>>
    BY <1>0, <1>6 DEF OpenRequest, Typed
  <2>2. Typed(go(page, "request", FALSE, FALSE))
    BY <1>0, <2>1, GoTyped
  <2> QED
    BY <1>2, <1>6, <2>2 DEF OpenRequest
<1>7. CASE Back
  BY <1>0, <1>2, <1>7, BackTyped DEF Back
<1>8. CASE NewRequest
  BY <1>2, <1>3, <1>8 DEF NewRequest
<1>9. CASE SessionEnds
  <2>1. Typed(page') /\ UNCHANGED calls
    BY <1>0, <1>9 DEF SessionEnds, Typed, Page
  <2> QED
    BY <1>2, <2>1
<1>10. CASE SessionStarts
  <2> DEFINE p == restart(page)
  <2>1. page' = [p EXCEPT !.shown = TRUE] /\ Room /\ calls' = Sent(calls, "options")
    BY <1>10 DEF SessionStarts
  <2>2. Typed(p)
    BY <1>3
  <2> HIDE DEF p
  <2>3. Typed(page')
    BY <2>1, <2>2 DEF Typed, Page
  <2> QED
    BY <1>2, <2>1, <2>3
<1>11. CASE Reload
  <2>1. HoursTypeOK /\ page' = Rendered /\ calls' = <<>>
    BY <1>11 DEF Reload, TypesInv
  <2> QED
    BY <1>2, <2>1, RenderedTyped
<1> QED
  BY <1>4, <1>5, <1>6, <1>7, <1>8, <1>9, <1>10, <1>11 DEF Client

LEMMA TimeTyped == TypesInv /\ (Tick \/ Recheck) => TypesInv'
<1> SUFFICES ASSUME TypesInv, Tick \/ Recheck
             PROVE  TypesInv'
  OBVIOUS
<1>0. /\ Day \in Nat \ {0} /\ Horizon \in Nat \ {0}
      /\ page.recheck \in Waits \cup {None}
      /\ calls \in Seq(Answering) /\ Len(calls) \in Nat /\ Len(calls) <= MaxCalls
  BY HoursAssumption DEF TypesInv, CallsOK, Typed, Page
<1>1. CASE Tick
  <2>1. HoursTypeOK'
    <3>1. now \in Int /\ now' = (now + 1) % Horizon /\ UNCHANGED <<settings, form>>
      BY <1>0, <1>1 DEF Tick, Passed, TypesInv, HoursTypeOK
    <3>2. now' \in 0 .. Horizon - 1
      BY <1>0, <3>1, Remainder
    <3> QED
      BY <3>1, <3>2 DEF TypesInv, HoursTypeOK
  <2>2. Typed(page')
    <3>1. (IF page.recheck = None THEN None ELSE page.recheck - 1) \in Waits \cup {None}
      BY <1>0, <1>1 DEF Tick, Waits
    <3> QED
      BY <1>1, <3>1 DEF Tick, TypesInv, Typed, Page
  <2>3. CallsOK'
    <3> DEFINE older(i) == [calls[i] EXCEPT !.aged = TRUE]
    <3>1. calls' = [i \in DOMAIN calls |-> older(i)]
      BY <1>1 DEF Tick
    <3>2. \A i \in DOMAIN calls : older(i) \in Answering
      <4>1. \A i \in DOMAIN calls : calls[i] \in Answering
        BY <1>0
      <4> QED
        BY <4>1 DEF Answering, Call
    <3>3. DOMAIN calls = 1 .. Len(calls)
      BY <1>0
    <3> HIDE DEF older
    <3>4. calls' \in Seq(Answering) /\ Len(calls') = Len(calls)
      BY <1>0, <3>1, <3>2, <3>3, SeqDef
    <3> QED
      BY <1>0, <3>4 DEF CallsOK
  <2> QED
    BY <2>1, <2>2, <2>3 DEF TypesInv
<1>2. CASE Recheck
  <2>1. Typed(page') /\ UNCHANGED <<settings, now, form>>
    BY <1>2 DEF Recheck, TypesInv, Typed, Page
  <2>2. calls' \in Seq(Answering) /\ Len(calls') = Len(calls) + 1 /\ Len(calls) < MaxCalls
    BY <1>0, <1>2, SentFits DEF Recheck
  <2> QED
    BY <1>0, <2>1, <2>2, NoticeAssumption DEF TypesInv, HoursTypeOK, CallsOK
<1> QED
  BY <1>1, <1>2

LEMMA TypesHold == Spec => []TypesInv
<1>1. TypesInv /\ [Next]_vars => TypesInv'
  <2> SUFFICES ASSUME TypesInv, [Next]_vars
               PROVE  TypesInv'
    OBVIOUS
  <2>1. CASE \E i \in Slots : OptionsView(i) \/ SubmitView(i) \/ Fail(i) \/ Answered(i)
    BY <2>1, ServedTyped, HeardTyped
  <2>2. CASE UNCHANGED vars
    BY <2>2 DEF vars, TypesInv, HoursTypeOK, CallsOK
  <2> QED
    BY <2>1, <2>2, DeskTyped, ClientTyped, TimeTyped DEF Next
<1> QED
  BY <1>1, InitTyped, PTL DEF Spec

\* The settings row, every open settings page, the client's page with its timer,
\* and every call in flight with the hours it carries keep their ranges: the
\* seconds to the next change are never more than two days, there is never more
\* than one step back, and the page's own questions always find room.  (flow.js,
\* core/hours.py)
THEOREM NoticeTypes == Spec => []NoticeTypeOK
<1>1. TypesInv => NoticeTypeOK
  <2> SUFFICES ASSUME TypesInv
               PROVE  NoticeTypeOK
    OBVIOUS
  <2>1. calls \in Seq(Call)
    BY SeqMonotonic DEF TypesInv, CallsOK, Answering
  <2> QED
    BY <2>1 DEF TypesInv, CallsOK, Typed, NoticeTypeOK
<1> QED
  BY <1>1, TypesHold, PTL

\* An answer with no moment, under the switch or for equal times, has nothing to
\* do with the time.  (hours.py evaluate, the first three returns)
LEMMA NoMoment ==
  ASSUME NEW s, s.is_open_override \in OVERRIDE_CHOICES, ~Windowed(s), NEW t, NEW u
  PROVE  /\ evaluate(s, t).changes_at = None
         /\ evaluate(s, u).is_open = evaluate(s, t).is_open
<1>1. CASE s.is_open_override = "open"
  BY <1>1 DEF evaluate, Answer
<1>2. CASE s.is_open_override = "closed"
  BY <1>2 DEF evaluate, Answer
<1>3. CASE s.is_open_override = "follow" /\ s.open_time = s.close_time
  BY <1>3 DEF evaluate, Answer
<1> QED
  BY <1>1, <1>2, <1>3 DEF OVERRIDE_CHOICES, Windowed

\* Whatever the desk configures and whenever it is, in every zone of the database:
\* the moment a countdown runs to lies ahead, by two days at most; while the
\* clocks there stand still the answer stays what it is until that moment and is
\* another at it; and an answer that names no moment never changes by itself.
\* (core/hours.py evaluate)
THEOREM CountdownRight == Spec => []CountdownIsRight
<1>1. HoursTypeOK => CountdownIsRight
  <2> SUFFICES ASSUME HoursTypeOK, NEW zone \in DOMAIN ZoneRule
               PROVE  LET s == [settings EXCEPT !.timezone = zone]
                          answer == evaluate(s, now)
                      IN  /\ Windowed(s) =>
                               /\ answer.changes_at \in now + 1 .. now + 2 * Day
                               /\ ~ClocksMove(zone, now) =>
                                    /\ evaluate(s, answer.changes_at).is_open # answer.is_open
                                    /\ \A t \in now .. answer.changes_at - 1 :
                                         evaluate(s, t).is_open = answer.is_open
                          /\ ~Windowed(s) =>
                               /\ answer.changes_at = None
                               /\ \A t \in now .. now + 2 * Day :
                                    evaluate(s, t).is_open = answer.is_open
    BY Zenon DEF CountdownIsRight
  <2> DEFINE s == [settings EXCEPT !.timezone = zone]
  <2>1. /\ s.timezone = zone /\ now \in Int
        /\ s.is_open_override \in OVERRIDE_CHOICES
        /\ Windowed(s) => Timetable(s)
    BY HoursAssumption DEF HoursTypeOK, Settings, Timetable, Windowed
  <2> HIDE DEF s
  <2>2. Windowed(s) => evaluate(s, now).changes_at \in now + 1 .. now + 2 * Day
    BY <2>1, ChangesAhead
  <2>3. Windowed(s) /\ ~ClocksMove(zone, now) =>
          /\ evaluate(s, evaluate(s, now).changes_at).is_open # evaluate(s, now).is_open
          /\ \A t \in now .. evaluate(s, now).changes_at - 1 :
               evaluate(s, t).is_open = evaluate(s, now).is_open
    BY <2>1, ChangesExactly
  <2>4. ~Windowed(s) =>
          /\ evaluate(s, now).changes_at = None
          /\ \A t \in now .. now + 2 * Day :
               evaluate(s, t).is_open = evaluate(s, now).is_open
    BY <2>1, NoMoment
  <2> QED
    BY <2>2, <2>3, <2>4 DEF s
<1> QED
  BY <1>1, TypesHold, PTL DEF TypesInv

-----------------------------------------------------------------------------
(***************************************************************************)
(* The submission screen.                                                  *)
(*                                                                         *)
(* The invariant is nearly inductive as it stands.  What it lacks is that  *)
(* the page is a record of its five fields, so that what `go` assigns is   *)
(* what is read back; and every change of screen or of the kept answer is  *)
(* followed into `go`.                                                     *)
(***************************************************************************)

Fields == {"shown", "screen", "trail", "open", "recheck"}

\* A page that keeps the rule.
Kept(p) ==
  /\ DOMAIN p = Fields
  /\ p.screen = "compose" => p.open

NoticeInv == Kept(page)

-----------------------------------------------------------------------------
\* go never leads to a submission screen on an answer that said shut, whatever
\* page it is given, and keeps the answer.  (flow.js go)
LEMMA GoKeeps ==
  ASSUME NEW p, DOMAIN p = Fields, NEW screen, NEW replace, NEW reset
  PROVE  /\ Kept(go(p, screen, replace, reset))
         /\ go(p, screen, replace, reset).open = p.open
  BY DEF go, isClosed, Kept, Fields, SUBMISSION_SCREENS

\* Nor does going back, or starting over.  (flow.js back, restart)
LEMMA BackKeeps ==
  ASSUME NEW p, DOMAIN p = Fields
  PROVE  Kept(back(p)) /\ Kept(restart(p))
<1>1. DOMAIN [p EXCEPT !.trail = Front(p.trail)] = Fields
  OBVIOUS
<1> QED
  BY <1>1, GoKeeps DEF back, restart

\* An answer about the hours puts the notice up before anything is drawn on it.
\* (flow.js applyHours)
LEMMA ApplyKeeps ==
  ASSUME NEW p, DOMAIN p = Fields, NEW hours
  PROVE  Kept(applyHours(p, hours))
<1> DEFINE q == Keep(p, hours)
<1>1. DOMAIN q = Fields /\ q.open = hours.open /\ q.screen = p.screen
  BY DEF Keep, Fields
<1>2. CASE hours.open /\ p.screen = "closed"
  BY <1>1, <1>2, BackKeeps DEF applyHours
<1>3. CASE hours.open /\ p.screen # "closed"
  <2>1. applyHours(p, hours) = q
    BY <1>1, <1>3 DEF applyHours
  <2> QED
    BY <2>1, <1>1, <1>3 DEF Kept
<1>4. CASE ~hours.open /\ p.screen \in SUBMISSION_SCREENS
  BY <1>1, <1>4, GoKeeps DEF applyHours
<1>5. CASE ~hours.open /\ p.screen \notin SUBMISSION_SCREENS
  <2>1. applyHours(p, hours) = q
    BY <1>1, <1>5 DEF applyHours
  <2> QED
    BY <2>1, <1>1, <1>5 DEF Kept, SUBMISSION_SCREENS
<1> QED
  BY <1>2, <1>3, <1>4, <1>5

\* A page that is only hidden, shown or waiting for its timer is the same page.
LEMMA SameScreen ==
  ASSUME NEW p, Kept(p), NEW q, DOMAIN q = Fields,
         q.screen = p.screen, q.open = p.open
  PROVE  Kept(q)
  BY DEF Kept

-----------------------------------------------------------------------------
LEMMA RenderedKept == Kept(Rendered)
<1> DEFINE p == [shown |-> FALSE, screen |-> "compose", trail |-> <<>>,
                 open |-> TRUE, recheck |-> None]
<1>1. DOMAIN p = Fields
  BY DEF Fields
<1> QED
  BY <1>1, ApplyKeeps DEF Rendered

LEMMA Initially == Init => NoticeInv
  BY RenderedKept DEF Init, NoticeInv

\* What the server answers leaves the page alone; what the page hears goes
\* through applyHours and go.
LEMMA HearingKeeps ==
  ASSUME NoticeInv, NEW i \in Slots,
         OptionsView(i) \/ SubmitView(i) \/ Fail(i) \/ Answered(i)
  PROVE  NoticeInv'
<1> DOMAIN page = Fields
  BY DEF NoticeInv, Kept
<1>1. CASE OptionsView(i) \/ SubmitView(i) \/ Fail(i) \/ FailureShown(i)
  BY <1>1 DEF OptionsView, SubmitView, Fail, FailureShown, NoticeInv
<1>2. CASE OptionsAnswered(i)
  BY <1>2, ApplyKeeps DEF OptionsAnswered, NoticeInv
<1>3. CASE SubmitAnswered(i)
  <2>1. PICK o : o = calls[i].outcome
    OBVIOUS
  <2>2. CASE o = "ok"
    BY <1>3, <2>1, <2>2, GoKeeps DEF SubmitAnswered, NoticeInv
  <2>3. CASE o = "shut"
    <3>1. DOMAIN applyHours(page, calls[i].hours) = Fields
      BY ApplyKeeps DEF Kept
    <3>2. page' = go(applyHours(page, calls[i].hours), "closed", TRUE, TRUE)
      BY <1>3, <2>1, <2>3 DEF SubmitAnswered
    <3> QED
      BY <3>1, <3>2, GoKeeps DEF NoticeInv
  <2>4. CASE o = "refused"
    BY <1>3, <2>1, <2>4 DEF SubmitAnswered, NoticeInv
  <2> QED
    BY <1>3, <2>1, <2>2, <2>3, <2>4 DEF SubmitAnswered, Holds
<1> QED
  BY <1>1, <1>2, <1>3 DEF Answered

\* So does everything the client does.
LEMMA ClientKeeps == NoticeInv /\ Client => NoticeInv'
<1> SUFFICES ASSUME NoticeInv, Client
             PROVE  NoticeInv'
  OBVIOUS
<1>0. DOMAIN page = Fields
  BY DEF NoticeInv, Kept
<1>1. CASE Pick
  BY <1>1 DEF Pick, NoticeInv
<1>2. CASE Submit
  <2>1. page' = go(page, "closed", TRUE, TRUE) \/ page' = page
    BY <1>2, Zenon DEF Submit
  <2>2. Kept(go(page, "closed", TRUE, TRUE))
    BY <1>0, GoKeeps, Zenon
  <2> QED
    BY <2>1, <2>2 DEF NoticeInv
<1>3. CASE OpenRequest
  BY <1>0, <1>3, GoKeeps DEF OpenRequest, NoticeInv
<1>4. CASE Back
  BY <1>0, <1>4, BackKeeps DEF Back, NoticeInv
<1>5. CASE NewRequest
  BY <1>0, <1>5, BackKeeps DEF NewRequest, NoticeInv
<1>6. CASE SessionEnds
  <2>1. /\ DOMAIN page' = Fields
        /\ page'.screen = page.screen /\ page'.open = page.open
    BY <1>0, <1>6 DEF SessionEnds, Fields
  <2> QED
    BY <2>1, SameScreen DEF NoticeInv
<1>7. CASE SessionStarts
  <2>1. Kept(restart(page))
    BY <1>0, BackKeeps
  <2>2. /\ DOMAIN page' = Fields
        /\ page'.screen = restart(page).screen /\ page'.open = restart(page).open
    BY <1>7, <2>1 DEF SessionStarts, Fields, Kept
  <2> QED
    BY <2>1, <2>2, SameScreen DEF NoticeInv
<1>8. CASE Reload
  BY <1>8, RenderedKept DEF Reload, NoticeInv, Rendered
<1> QED
  BY <1>1, <1>2, <1>3, <1>4, <1>5, <1>6, <1>7, <1>8 DEF Client

\* And the clock, which only moves the timer.
LEMMA TimeKeeps == NoticeInv /\ (Tick \/ Recheck) => NoticeInv'
<1> SUFFICES ASSUME NoticeInv, Tick \/ Recheck
             PROVE  NoticeInv'
  OBVIOUS
<1>1. /\ DOMAIN page' = Fields
      /\ page'.screen = page.screen /\ page'.open = page.open
  BY DEF Tick, Recheck, NoticeInv, Kept, Fields
<1> QED
  BY <1>1, SameScreen DEF NoticeInv

\* On every path through the page's screens, whatever order the answers about
\* the hours come in, however often sessions come and go and the settings
\* change: a client is on the compose screen only while the last answer the
\* page had said the desk is open.
THEOREM NoComposingWhenShut == Spec => []ComposeOnlyWhenOpen
<1>1. NoticeInv /\ [Next]_vars => NoticeInv'
  <2> SUFFICES ASSUME NoticeInv, [Next]_vars
               PROVE  NoticeInv'
    OBVIOUS
  <2>1. CASE Administer /\ UNCHANGED <<page, calls>>
    BY <2>1 DEF NoticeInv
  <2>2. CASE Tick \/ Recheck
    BY <2>2, TimeKeeps
  <2>3. CASE Client
    BY <2>3, ClientKeeps
  <2>4. CASE \E i \in Slots : OptionsView(i) \/ SubmitView(i) \/ Fail(i) \/ Answered(i)
    BY <2>4, HearingKeeps
  <2>5. CASE UNCHANGED vars
    BY <2>5 DEF vars, NoticeInv
  <2> QED
    BY <2>1, <2>2, <2>3, <2>4, <2>5 DEF Next
<1>2. NoticeInv => ComposeOnlyWhenOpen
  BY DEF NoticeInv, Kept, ComposeOnlyWhenOpen, SUBMISSION_SCREENS, isClosed
<1> QED
  BY Initially, <1>1, <1>2, PTL DEF Spec
=============================================================================
