------------------------------- MODULE Throttle -------------------------------
(***************************************************************************)
(* The two counters in the shared cache: the limiter in front of the       *)
(* endpoints that take a B2CORE token (portal/ratelimit.py) and the        *)
(* lockout in front of the desk's password check (accounts/throttling.py). *)
(*                                                                         *)
(* Each is one cache entry that expires a fixed time after it was made.    *)
(* A statement on the cache is atomic, as the code takes incr to be; a     *)
(* request makes several, and other requests, an expiry or an outage of    *)
(* the cache come in between.                                              *)
(***************************************************************************)
EXTENDS Naturals, FiniteSets

CONSTANTS
  Callers,       \* requests served at one time, all from one address
  Limit,         \* PORTAL_SESSION_RATE: how many a window ...
  Period,        \* ... and how long the window is, in ticks
  FailureLimit,  \* LOGIN_FAILURE_LIMIT
  Window,        \* LOGIN_FAILURE_WINDOW_SECONDS, in ticks
  CacheFails,    \* whether the cache can be out of reach
  None

ASSUME ThrottleAssumption ==
  /\ IsFiniteSet(Callers) /\ Callers # {}
  /\ {Limit, Period, FailureLimit, Window} \subseteq Nat \ {0}
  /\ CacheFails \in BOOLEAN
  /\ None \notin Nat \cup [count: Nat, left: Nat]

VARIABLES
  allowance,  \* the limiter's entry
  failures,   \* the lockout's entry, for one account
  through,    \* how many the limiter has let through in the entry's life
  unread      \* whether an outage has let a login by the lockout in force

counters == <<allowance, failures, through, unread>>

\* A count past the limit is as good as one just past it.
Entry(most, life) == [count: 1..most, left: 1..life] \cup {None}

CountersTypeOK ==
  /\ allowance \in Entry(Limit + 1, Period)
  /\ failures \in Entry(FailureLimit + Cardinality(Callers), Window)
  /\ through \in 0 .. Limit + Cardinality(Callers)
  /\ unread \in BOOLEAN

-----------------------------------------------------------------------------
\* cache.add: only where there is no entry, and it gives the entry its life.
add(entry, life) == IF entry = None THEN [count |-> 1, left |-> life] ELSE entry

\* fault: counting renews the entry.
IncrTouching(entry, most, life) ==
  [count |-> IF entry.count < most THEN entry.count + 1 ELSE most, left |-> life]

\* cache.incr: the entry keeps the life it was given.
incr(entry, most, life) ==
  [entry EXCEPT !.count = IF @ < most THEN @ + 1 ELSE most]

\* fault: an entry that is there once too long.
AgedLate(entry) ==
  IF entry = None \/ entry.left = 0 THEN None ELSE [entry EXCEPT !.left = @ - 1]

\* A tick of an entry's life.
Aged(entry) ==
  IF entry = None \/ entry.left = 1 THEN None ELSE [entry EXCEPT !.left = @ - 1]

CountersTick ==
  /\ allowance' = Aged(allowance)
  /\ failures' = Aged(failures)
  /\ through' = IF allowance' = None THEN 0 ELSE through
  /\ unread' = (unread /\ failures' # None)

-----------------------------------------------------------------------------
(* ratelimit.allow, in the steps at, to and over of whoever calls it.      *)

Admitted == UNCHANGED <<failures, unread>> /\ through' = through + 1

\* The first call of a window makes the entry.
AllowFirst == allowance = None /\ allowance' = add(allowance, Period) /\ Admitted

\* A later one counts, and is let through while the count is not past the limit.
AllowCounted ==
  /\ allowance # None
  /\ allowance' = incr(allowance, Limit + 1, Period)
  /\ allowance'.count <= Limit
  /\ Admitted

AllowRefused ==
  /\ allowance # None
  /\ allowance' = incr(allowance, Limit + 1, Period)
  /\ allowance'.count > Limit
  /\ UNCHANGED <<failures, through, unread>>

\* "The entry expired between add() and incr()": whoever makes the new one.
AllowAnew == allowance' = add(allowance, Period) /\ Admitted

-----------------------------------------------------------------------------
(* The lockout.                                                            *)

\* fault: one failure too many.
LockedPast == failures # None /\ failures.count > FailureLimit

is_locked_out == failures # None /\ failures.count >= FailureLimit

\* record_failure: add, and where there was an entry incr; incr raises where
\* it has expired meanwhile, and the failure is not counted.
RecordFirst ==
  /\ failures = None
  /\ failures' = add(failures, Window)
  /\ UNCHANGED <<allowance, through, unread>>

RecordAgain ==
  /\ failures' = IF failures = None THEN None
                 ELSE incr(failures, FailureLimit + Cardinality(Callers), Window)
  /\ UNCHANGED <<allowance, through, unread>>

clear == failures' = None /\ unread' = FALSE /\ UNCHANGED <<allowance, through>>

-----------------------------------------------------------------------------
\* However their statements interleave, with each other and with an expiry, a
\* window lets through its limit and at most one more for each other request
\* that was under way; and an account whose lockout has been reached hears no
\* more guesses than were under way then, unless an outage of the cache has let
\* one by.  (ratelimit.py allow, the branch for an entry that expired between
\* add and incr; throttling.py, where the count is read before the password is
\* checked and raised after.)
AttemptsBounded ==
  /\ through < Limit + Cardinality(Callers)
  /\ failures # None /\ ~unread => failures.count < FailureLimit + Cardinality(Callers)
=============================================================================
