-------------------------------- MODULE Hours --------------------------------
(***************************************************************************)
(* The desk's business hours: the one row that configures them             *)
(* (core/models.py SystemSettings), the answer computed from it            *)
(* (core/hours.py evaluate) and the Finance screen that writes it          *)
(* (finance/forms.py BusinessHoursForm, finance/views.py                   *)
(* BusinessHoursView).                                                     *)
(*                                                                         *)
(* Time is counted in ticks.  An instant is a number of ticks, the same    *)
(* for everybody; a wall clock shows the instant plus its zone's offset,   *)
(* Day ticks to a day.  A zone may move its clocks once, and, as in the    *)
(* zone database that zoneinfo reads, never back by more than a day.       *)
(***************************************************************************)
EXTENDS Integers

CONSTANTS
  Day,       \* the ticks in a day
  Times,     \* the times of day anybody configures
  Zones,     \* the time zones anybody configures
  ZoneRule,  \* the database: a zone's offset before and after its clocks move
  Opening,   \* the row's defaults: 09:00, 21:00 and Asia/Baghdad
  Closing,
  Baghdad,
  Horizon,   \* the clock starts the same days again here
  Desk,      \* the people who hold core.change_systemsettings
  None

ASSUME HoursAssumption ==
  /\ Day \in Nat \ {0}
  /\ Times \subseteq 0 .. Day - 1
  /\ Opening \in Times /\ Closing \in Times
  /\ ZoneRule \in [DOMAIN ZoneRule -> [at: Nat, before: Int, after: Int]]
  /\ \A zone \in DOMAIN ZoneRule :
       ZoneRule[zone].before - ZoneRule[zone].after <= Day
  /\ Zones \subseteq DOMAIN ZoneRule
  /\ Baghdad \in Zones
  /\ Horizon \in Nat \ {0}

VARIABLES
  settings,  \* the singleton row
  now,       \* the instant it is
  form       \* what each person's open settings page was rendered with

hoursVars == <<settings, now, form>>

\* BusinessHoursForm.OVERRIDE_VALUES: the nullable boolean's three states.
OVERRIDE_CHOICES == {"follow", "open", "closed"}

Settings == [open_time: Times, close_time: Times, timezone: Zones,
             is_open_override: OVERRIDE_CHOICES]

-----------------------------------------------------------------------------
(* Wall clocks.                                                            *)

Offset(zone, t) ==
  IF t < ZoneRule[zone].at THEN ZoneRule[zone].before ELSE ZoneRule[zone].after

\* datetime.astimezone: what the zone's wall clocks show, in ticks since the
\* first midnight.
Local(zone, t) == t + Offset(zone, t)

\* datetime.combine with tzinfo and fold = 0: a wall time that comes twice is
\* its first coming, one that is skipped is read on the clock before it moved.
_at(zone, wall) ==
  LET rule == ZoneRule[zone]
      last == IF rule.before > rule.after THEN rule.before ELSE rule.after
  IN  wall - (IF wall < rule.at + last THEN rule.before ELSE rule.after)

\* A next change already past is the same wall time a day later.
_guard(zone, wall, t) ==
  IF _at(zone, wall) > t THEN _at(zone, wall) ELSE _at(zone, wall + Day)

Answer(open, reason, changes) ==
  [is_open |-> open, reason |-> reason, changes_at |-> changes]

Windowed(s) == s.is_open_override = "follow" /\ s.open_time # s.close_time

\* fault: the closing time is still open.
OpenAtClose(s, clock) ==
  IF s.open_time > s.close_time
  THEN clock >= s.open_time \/ clock <= s.close_time
  ELSE s.open_time <= clock /\ clock <= s.close_time

\* Whether the window the row describes holds the wall time `clock`.
InWindow(s, clock) ==
  IF s.open_time > s.close_time
  THEN clock >= s.open_time \/ clock < s.close_time
  ELSE s.open_time <= clock /\ clock < s.close_time

\* The day the window that is running now ends on, given today's midnight.
ClosesOn(s, clock, today) ==
  IF s.open_time <= s.close_time \/ clock < s.close_time THEN today ELSE today + Day

\* The day it next begins on.
OpensOn(s, clock, today) ==
  IF s.open_time > s.close_time \/ clock < s.open_time THEN today ELSE today + Day

\* hours.evaluate: open or not, why, and the next moment that changes it.
evaluate(s, t) ==
  LET zone == s.timezone
      clock == Local(zone, t) % Day
      today == Local(zone, t) - clock
  IN  CASE s.is_open_override = "open" -> Answer(TRUE, "override_open", None)
        [] s.is_open_override = "closed" -> Answer(FALSE, "override_closed", None)
        [] s.is_open_override = "follow" /\ s.open_time = s.close_time ->
             Answer(TRUE, "always_open", None)
        [] Windowed(s) /\ InWindow(s, clock) ->
             Answer(TRUE, "schedule",
                    _guard(zone, ClosesOn(s, clock, today) + s.close_time, t))
        [] OTHER ->
             Answer(FALSE, "schedule",
                    _guard(zone, OpensOn(s, clock, today) + s.open_time, t))

\* Hours.payload, as far as a page acts on it: the seconds left, not the moment.
payload(s, t) ==
  LET answer == evaluate(s, t)
  IN  [open |-> answer.is_open,
       seconds_until_change |->
         IF answer.changes_at = None THEN None ELSE answer.changes_at - t]

-----------------------------------------------------------------------------
(* The row and the screen that writes it.                                  *)

\* SystemSettings.load creates the row with the columns' defaults.
Defaults ==
  [open_time |-> Opening, close_time |-> Closing,
   timezone |-> Baghdad, is_open_override |-> "follow"]

\* GET: the form carries every setting there is.
OpenSettings(a) ==
  /\ form[a] = None
  /\ form' = [form EXCEPT ![a] = settings]
  /\ UNCHANGED <<settings, now>>

\* POST: the row loaded for it is overwritten with everything the form carries,
\* any of it changed and all the rest as the page was rendered.  The answer is a
\* fresh page.
SaveSettings(a, values) ==
  /\ form[a] # None
  /\ settings' = values
  /\ form' = [form EXCEPT ![a] = None]
  /\ UNCHANGED now

\* Time passes, and starts the same days again at Horizon.
Passed == now' = (now + 1) % Horizon

Administer == \E a \in Desk : OpenSettings(a) \/ \E values \in Settings : SaveSettings(a, values)

-----------------------------------------------------------------------------
(* Correctness.                                                            *)

HoursInit ==
  /\ settings = Defaults
  /\ now \in 0 .. Horizon - 1
  /\ form = [a \in Desk |-> None]

HoursTypeOK ==
  /\ settings \in Settings
  /\ now \in 0 .. Horizon - 1
  /\ form \in [Desk -> Settings \cup {None}]

\* Whether the desk's clocks move in between: from a day before `t`, so that a
\* repeated hour counts as part of the move, to two days after it.
ClocksMove(zone, t) ==
  /\ ZoneRule[zone].before # ZoneRule[zone].after
  /\ ZoneRule[zone].at \in t - Day .. t + 2 * Day

\* The moment a countdown runs to is a later one; and while the zone's clocks
\* stand still it is exactly when the answer changes: the same answer at every
\* instant before it, the other one then; in whatever zone the row names.  An
\* answer with no moment, under the switch or for equal times, stays the same.
\* (hours.py computes the moment apart from the answer, on wall clocks, with a
\* window that may cross midnight; the countdown and the page's next question
\* both run to it.)
CountdownIsRight ==
  \A zone \in DOMAIN ZoneRule :
    LET s == [settings EXCEPT !.timezone = zone]
        answer == evaluate(s, now)
    IN  /\ Windowed(s) =>
             /\ answer.changes_at \in now + 1 .. now + 2 * Day
             /\ ~ClocksMove(zone, now) =>
                  /\ evaluate(s, answer.changes_at).is_open # answer.is_open
                  /\ \A t \in now .. answer.changes_at - 1 :
                       evaluate(s, t).is_open = answer.is_open
        /\ ~Windowed(s) =>
             /\ answer.changes_at = None
             /\ \A t \in now .. now + 2 * Day : evaluate(s, t).is_open = answer.is_open

\* The guard's comment allows a move of the clocks to make a countdown an hour
\* long, never longer: the moment named is at most a tick from the real one.
\* (Broken in a repeated hour: the closing time already past on its first
\* coming is pushed to tomorrow's.)
CountdownOffByTheMove ==
  LET answer == evaluate(settings, now)
      rule == ZoneRule[settings.timezone]
      flips == {t \in now + 1 .. now + 2 * Day :
                  evaluate(settings, t).is_open # evaluate(settings, t - 1).is_open}
  IN  answer.changes_at # None =>
        \A t \in flips : answer.changes_at - t <= rule.before - rule.after

\* The switch is thrown and thrown back by hand: a save that changes it is by
\* somebody whose page showed another position of it.  (Broken by a page that
\* was opened before the switch was thrown and saved after for another reason.)
SwitchedByHand ==
  [][\A a \in Desk :
       form[a] # None /\ form'[a] = None
         /\ settings'.is_open_override # settings.is_open_override
       => settings'.is_open_override # form[a].is_open_override]_hoursVars
=============================================================================
