------------------------------ MODULE KeysProofs ------------------------------
(***************************************************************************)
(* The counters of Throttle and the signing keys of Keys, for any number   *)
(* of requests, any limits and lives of the entries, any keys, and however *)
(* often the cache, the endpoint and the worker fail.                      *)
(*                                                                         *)
(* A counter says how many came, and the bound on it is about who may      *)
(* still come: the invariant counts, beside the entry, the requests that   *)
(* stand between their look at it and their mark in it.                    *)
(***************************************************************************)
EXTENDS Keys, FiniteSetTheorems, TLAPS

\* Found no entry where a statement before there was one: let through uncounted.
Late == {c \in Callers : At(c, "readd")}

\* Guesses past the look at the lockout and not yet counted.
Guessing == {c \in Callers : thread[c].step \in {"password", "record", "count"}}

Many == Cardinality(Callers)

Counted(count) == IF count <= Limit THEN count ELSE Limit

\* Whoever is let through uncounted was under way when the entry was made, and
\* whoever made it is not among them.
WindowInv ==
  /\ allowance = None => through = 0
  /\ allowance # None =>
       through + Cardinality(Late) <= Counted(allowance.count) + Many - 1

\* A guess begins below the limit, when at most every request is guessing.
LockoutInv ==
  failures # None /\ ~unread =>
    failures.count + Cardinality(Guessing) <= FailureLimit + Many - 1

\* The gate is only come to by a token that no fetch helped, and no kept answer.
MissedInv == \A c \in Callers : thread[c].step \in {"gate", "refused"} => thread[c].missed

EntriesOK ==
  /\ allowance \in Entry(Limit + 1, Period)
  /\ failures \in Entry(FailureLimit + Many, Window)
  /\ through \in Nat
  /\ unread \in BOOLEAN

WorkerOK ==
  /\ published \in Served
  /\ jwk_set \in [keys: SUBSET Kids, left: 1..Lifespan] \cup {None}
  /\ keys \in SUBSET Signing
  /\ floor \in 0..Interval

ThreadsOK == thread \in [Callers -> Thread]

\* A request without a kid is at the door or at the desk's login.
KidsOK == \A c \in Callers : thread[c].step \in {"lookup", "gate"} \cup Limiting \cup Fetching
                               => thread[c].kid \in Signing

KeysInv ==
  /\ EntriesOK /\ WorkerOK /\ ThreadsOK /\ KidsOK
  /\ WindowInv /\ LockoutInv /\ MissedInv

-----------------------------------------------------------------------------
(***************************************************************************)
(* The constants, the entries, and counting.                               *)
(***************************************************************************)

LEMMA Numbers ==
  /\ Limit \in Nat \ {0} /\ Period \in Nat \ {0}
  /\ FailureLimit \in Nat \ {0} /\ Window \in Nat \ {0}
  /\ Lifespan \in Nat \ {0} /\ Interval \in Nat \ {0}
  /\ Many \in Nat \ {0} /\ IsFiniteSet(Callers)
<1>1. Many \in Nat /\ Many # 0
  BY ThrottleAssumption, FS_CardinalityType, FS_EmptySet DEF Many
<1> QED
  BY <1>1, ThrottleAssumption, KeysAssumption

\* An entry that is made, or was there, is one. (cache.add)
LEMMA AddFits ==
  ASSUME NEW most \in Nat \ {0}, NEW life \in Nat \ {0}, NEW entry \in Entry(most, life)
  PROVE  /\ add(entry, life) \in Entry(most, life)
         /\ add(entry, life) # None
         /\ entry # None => add(entry, life) = entry
         /\ entry = None => add(entry, life).count = 1
  BY ThrottleAssumption DEF add, Entry

\* Counting keeps the entry and its life, and counts at most one. (cache.incr)
LEMMA IncrFits ==
  ASSUME NEW most \in Nat \ {0}, NEW life \in Nat \ {0},
         NEW entry \in Entry(most, life), entry # None
  PROVE  /\ incr(entry, most, life) \in Entry(most, life)
         /\ incr(entry, most, life) # None
         /\ incr(entry, most, life).left = entry.left
         /\ incr(entry, most, life).count =
              IF entry.count < most THEN entry.count + 1 ELSE most
  BY ThrottleAssumption DEF incr, Entry

\* A tick takes an entry away or leaves its count. (the cache's timeout)
LEMMA AgedFits ==
  ASSUME NEW most \in Nat \ {0}, NEW life \in Nat \ {0}, NEW entry \in Entry(most, life)
  PROVE  /\ Aged(entry) \in Entry(most, life)
         /\ Aged(entry) # None => entry # None /\ Aged(entry).count = entry.count
  BY ThrottleAssumption DEF Aged, Entry

LEMMA CountWithin ==
  ASSUME NEW S \in SUBSET Callers
  PROVE  /\ IsFiniteSet(S) /\ Cardinality(S) \in 0..Many
         /\ \A c \in Callers : c \notin S => Cardinality(S) <= Many - 1
<1>1. IsFiniteSet(S) /\ Cardinality(S) \in Nat /\ Cardinality(S) <= Many
  BY Numbers, FS_Subset, FS_CardinalityType DEF Many
<1>2. ASSUME NEW c \in Callers, c \notin S
      PROVE  Cardinality(S) <= Many - 1
  <2>1. Cardinality(S) = Many => S = Callers
    BY Numbers, FS_Subset DEF Many
  <2> QED
    BY <2>1, <1>1, <1>2, Numbers
<1> QED
  BY <1>1, <1>2, Numbers

LEMMA OneLess ==
  ASSUME NEW T \in SUBSET Callers, NEW c \in T
  PROVE  Cardinality(T \ {c}) = Cardinality(T) - 1
  BY CountWithin, FS_RemoveElement

LEMMA NoMore ==
  ASSUME NEW T \in SUBSET Callers, NEW S \in SUBSET T
  PROVE  Cardinality(S) <= Cardinality(T)
  BY CountWithin, FS_Subset

\* A request that moves changes the counted sets by itself alone.
LEMMA Moves ==
  ASSUME ThreadsOK, NEW c \in Callers, NEW x, thread' = [thread EXCEPT ![c] = x]
  PROVE  /\ Late' = IF x.step = "readd" THEN Late \cup {c} ELSE Late \ {c}
         /\ Guessing' = IF x.step \in {"password", "record", "count"}
                        THEN Guessing \cup {c} ELSE Guessing \ {c}
         /\ thread'[c] = x
         /\ \A d \in Callers \ {c} : thread'[d] = thread[d]
  BY DEF ThreadsOK, Late, Guessing, At

\* Only the step of one changes.
LEMMA GoesMoves ==
  ASSUME ThreadsOK, NEW c \in Callers, NEW step, Goes(c, step)
  PROVE  thread' = [thread EXCEPT ![c] = [thread[c] EXCEPT !.step = step]]
  BY DEF ThreadsOK, Goes, Thread

LEMMA Initially == Init => KeysInv
<1> SUFFICES ASSUME Init
             PROVE  KeysInv
  OBVIOUS
<1>1. EntriesOK /\ WorkerOK
  <2>1. EntriesOK
    BY Numbers DEF Init, EntriesOK, Entry
  <2>2. floor \in 0..Interval
    BY Numbers DEF Init
  <2> QED
    BY <2>1, <2>2 DEF Init, WorkerOK
<1>2. ThreadsOK /\ KidsOK /\ MissedInv
  BY DEF Init, ThreadsOK, KidsOK, MissedInv, Thread, Idle, Steps, Limiting, Fetching
<1>3. WindowInv /\ LockoutInv
  BY DEF Init, WindowInv, LockoutInv
<1> QED
  BY <1>1, <1>2, <1>3 DEF KeysInv

-----------------------------------------------------------------------------
(***************************************************************************)
(* One request's step.                                                     *)
(***************************************************************************)

\* What a request may become: whoever looks for a key has one's id, and whoever
\* stands at the gate or is refused has missed.
Fits(x) ==
  /\ x \in Thread
  /\ x.step \in {"lookup", "gate"} \cup Limiting \cup Fetching => x.kid \in Signing
  /\ x.step \in {"gate", "refused"} => x.missed

LEMMA ThreadFits ==
  ASSUME ThreadsOK, KidsOK, MissedInv, NEW c \in Callers, NEW x, Fits(x),
         thread' = [thread EXCEPT ![c] = x]
  PROVE  ThreadsOK' /\ KidsOK' /\ MissedInv'
<1>1. ThreadsOK'
  BY DEF ThreadsOK, Fits
<1>2. \A d \in Callers : thread'[d] = IF d = c THEN x ELSE thread[d]
  BY DEF ThreadsOK
<1> QED
  BY <1>1, <1>2 DEF KidsOK, MissedInv, Fits

LEMMA IdleFits == Fits(Idle)
  BY DEF Fits, Idle, Thread, Steps, Limiting, Fetching

\* A request that stays the same but for its step.
LEMMA StepFits ==
  ASSUME ThreadsOK, KidsOK, MissedInv, NEW c \in Callers, NEW step \in Steps, Goes(c, step),
         step \in {"lookup", "gate"} \cup Limiting \cup Fetching => thread[c].kid \in Signing,
         step \in {"gate", "refused"} => thread[c].missed
  PROVE  /\ ThreadsOK' /\ KidsOK' /\ MissedInv'
         /\ \E x : x.step = step /\ thread' = [thread EXCEPT ![c] = x]
<1> DEFINE x == [thread[c] EXCEPT !.step = step]
<1>1. thread' = [thread EXCEPT ![c] = x]
  BY GoesMoves
<1>2. thread[c] \in Thread
  BY DEF ThreadsOK
<1>3. Fits(x) /\ x.step = step
  BY <1>2 DEF Fits, Thread
<1> QED
  BY <1>1, <1>3, ThreadFits

\* Steps that leave the counters alone, and the counted sets but for leaving them.
LEMMA CountersStay ==
  ASSUME KeysInv, UNCHANGED counters,
         NEW c \in Callers, NEW x, thread' = [thread EXCEPT ![c] = x],
         x.step = "readd" => allowance = None,
         x.step \in {"password", "record", "count"} =>
            failures = None \/ thread[c].step \in {"password", "record", "count"}
  PROVE  EntriesOK' /\ WindowInv' /\ LockoutInv'
<1>1. EntriesOK'
  BY DEF KeysInv, EntriesOK, counters
<1>2. WindowInv'
  <2>1. CASE x.step = "readd"
    BY <2>1 DEF KeysInv, WindowInv, counters
  <2>2. CASE x.step # "readd"
    <3>1. Late' = Late \ {c}
      BY <2>2, Moves DEF KeysInv
    <3>2. Cardinality(Late') <= Cardinality(Late)
      BY <3>1, NoMore DEF Late
    <3>3. Cardinality(Late) \in Nat /\ Cardinality(Late') \in Nat
      BY <3>1, CountWithin DEF Late
    <3>4. CASE allowance # None
      <4>1. allowance.count \in Nat
        BY <3>4, Numbers DEF KeysInv, EntriesOK, Entry
      <4> QED
        BY <3>2, <3>3, <4>1, Numbers DEF KeysInv, EntriesOK, WindowInv, counters, Counted
    <3> QED
      BY <3>4 DEF KeysInv, WindowInv, counters
  <2> QED
    BY <2>1, <2>2
<1>3. LockoutInv'
  <2>1. CASE failures = None
    BY <2>1 DEF LockoutInv, counters
  <2>2. CASE failures # None
    <3>1. Guessing' \subseteq Guessing /\ Guessing \subseteq Callers
      BY <2>2, Moves DEF KeysInv, Guessing
    <3>2. Cardinality(Guessing') <= Cardinality(Guessing)
      BY <3>1, NoMore
    <3>3. Cardinality(Guessing) \in Nat /\ Cardinality(Guessing') \in Nat
      BY <3>1, CountWithin
    <3>4. failures.count \in Nat
      BY <2>2, Numbers DEF KeysInv, EntriesOK, Entry
    <3> QED
      BY <3>2, <3>3, <3>4, Numbers DEF KeysInv, LockoutInv, counters
  <2> QED
    BY <2>1, <2>2
<1> QED
  BY <1>1, <1>2, <1>3

\* ... and the worker's keys too.
LEMMA OnlyMoves ==
  ASSUME KeysInv, UNCHANGED <<counters, published, worker>>,
         NEW c \in Callers, NEW x, thread' = [thread EXCEPT ![c] = x], Fits(x),
         x.step = "readd" => allowance = None,
         x.step \in {"password", "record", "count"} =>
            failures = None \/ thread[c].step \in {"password", "record", "count"}
  PROVE  KeysInv'
<1>1. EntriesOK' /\ WindowInv' /\ LockoutInv'
  BY CountersStay
<1>2. ThreadsOK' /\ KidsOK' /\ MissedInv'
  BY ThreadFits DEF KeysInv
<1>3. WorkerOK'
  BY DEF KeysInv, WorkerOK, worker
<1> QED
  BY <1>1, <1>2, <1>3 DEF KeysInv

\* The step of a request that only goes on.
LEMMA OnlyGoes ==
  ASSUME KeysInv, UNCHANGED <<counters, published, worker>>,
         NEW c \in Callers, NEW step \in Steps, Goes(c, step),
         step \in {"lookup", "gate"} \cup Limiting \cup Fetching => thread[c].kid \in Signing,
         step \in {"gate", "refused"} => thread[c].missed,
         step = "readd" => allowance = None,
         step \in {"password", "record", "count"} =>
            failures = None \/ thread[c].step \in {"password", "record", "count"}
  PROVE  KeysInv'
<1>1. /\ ThreadsOK' /\ KidsOK' /\ MissedInv'
      /\ \E x : x.step = step /\ thread' = [thread EXCEPT ![c] = x]
  BY StepFits DEF KeysInv
<1>2. EntriesOK' /\ WindowInv' /\ LockoutInv'
  BY <1>1, CountersStay
<1>3. WorkerOK'
  BY DEF KeysInv, WorkerOK, worker
<1> QED
  BY <1>1, <1>2, <1>3 DEF KeysInv

\* Arrivals and answers.
LEMMA DoorKeeps ==
  ASSUME KeysInv, NEW c \in Callers,
         \/ \E kid \in Signing : Post(c, kid)
         \/ Unreadable(c) \/ Unavailable(c) \/ verify_token(c)
  PROVE  KeysInv'
<1>1. CASE \E kid \in Signing : Post(c, kid)
  <2>1. PICK kid \in Signing : Post(c, kid)
    BY <1>1
  <2> DEFINE x == [Idle EXCEPT !.step = "add", !.kid = kid]
  <2>2. Fits(x) /\ x.step = "add"
    BY DEF Fits, Idle, Thread, Steps, Limiting, Fetching
  <2> QED
    BY <2>1, <2>2, OnlyMoves DEF Post
<1>2. CASE Unreadable(c) \/ Unavailable(c) \/ verify_token(c)
  <2>1. Idle.step = "idle"
    BY DEF Idle
  <2> QED
    BY <1>2, <2>1, IdleFits, OnlyMoves DEF Unreadable, Unavailable, verify_token
<1> QED
  BY <1>1, <1>2

\* The keys: the counters are left alone, and so are the counted sets.
LEMMA KeyStepKeeps ==
  ASSUME KeysInv, NEW c \in Callers, get_signing_key(c) \/ FetchFails(c)
  PROVE  KeysInv'
<1>0. /\ thread[c] \in Thread /\ UNCHANGED counters /\ ThreadsOK
      /\ thread[c].step \in {"lookup", "gate"} \cup Fetching
      /\ thread[c].kid \in Signing
  BY DEF KeysInv, ThreadsOK, KidsOK, get_signing_key, Lookup, Fetch, Gate, Refresh,
         FetchFails, At, Fetching
<1>1. ASSUME NEW x, Fits(x), thread' = [thread EXCEPT ![c] = x],
             x.step \in {"lookup", "gate"} \cup Fetching \cup Outcomes, WorkerOK'
      PROVE  KeysInv'
  <2>1. EntriesOK' /\ WindowInv' /\ LockoutInv'
    BY <1>0, <1>1, CountersStay DEF Fetching, Outcomes
  <2>2. ThreadsOK' /\ KidsOK' /\ MissedInv'
    BY <1>1, ThreadFits DEF KeysInv
  <2> QED
    BY <1>1, <2>1, <2>2 DEF KeysInv
<1>2. ASSUME NEW step \in {"fetch", "refetch", "forced"}, Goes(c, step), WorkerOK'
      PROVE  KeysInv'
  <2> DEFINE x == [thread[c] EXCEPT !.step = step]
  <2>1. thread' = [thread EXCEPT ![c] = x]
    BY <1>0, <1>2, GoesMoves
  <2>2. Fits(x) /\ x.step = step
    BY <1>0 DEF Fits, Thread, Steps, Fetching, Outcomes
  <2> QED
    BY <1>1, <1>2, <2>1, <2>2 DEF Fetching, Outcomes
<1>3. ASSUME NEW step \in {"refetch", "gate", "refused"}, Missed(c, step), WorkerOK'
      PROVE  KeysInv'
  <2> DEFINE x == [thread[c] EXCEPT !.missed = TRUE, !.step = step]
  <2>1. thread' = [thread EXCEPT ![c] = x]
    BY <1>0, <1>3 DEF Missed, ThreadsOK, Thread
  <2>2. Fits(x) /\ x.step = step
    BY <1>0 DEF Fits, Thread, Steps, Fetching, Outcomes
  <2> QED
    BY <1>1, <1>3, <2>1, <2>2 DEF Fetching, Outcomes
<1>4. /\ Resolve(c) => keys' \in SUBSET Signing
      /\ Resolve(c) /\ WorkerOK' => KeysInv'
  <2>1. Resolve(c) => keys' \in SUBSET Signing
    BY <1>0 DEF Resolve, KeysInv, WorkerOK
  <2>2. ASSUME Resolve(c), WorkerOK' PROVE KeysInv'
    <3> DEFINE x == [Idle EXCEPT !.step = "resolved", !.kid = thread[c].kid]
    <3>1. thread' = [thread EXCEPT ![c] = x]
      BY <2>2 DEF Resolve
    <3>2. Fits(x) /\ x.step = "resolved"
      BY <1>0 DEF Fits, Idle, Thread, Steps, Limiting, Fetching, Outcomes
    <3> QED
      BY <1>1, <2>2, <3>1, <3>2 DEF Outcomes
  <2> QED
    BY <2>1, <2>2
<1>5. CASE Lookup(c)
  <2>1. /\ UNCHANGED <<published, jwk_set, floor>>
        /\ \/ Resolve(c)
           \/ UNCHANGED keys /\ (Goes(c, "fetch") \/ Goes(c, "refetch"))
           \/ UNCHANGED keys /\ (Missed(c, "gate") \/ Missed(c, "refused"))
    <3>1. CASE thread[c].kid \in keys
      BY <1>5, <3>1 DEF Lookup
    <3>2. CASE thread[c].kid \notin keys /\ jwk_set = None
      BY <1>5, <3>2 DEF Lookup
    <3>3. CASE thread[c].kid \notin keys /\ jwk_set # None
      BY <1>5, <3>3 DEF Lookup, GivenUp
    <3> QED
      BY <3>1, <3>2, <3>3
  <2>2. WorkerOK'
    BY <1>4, <2>1 DEF KeysInv, WorkerOK
  <2> QED
    BY <1>2, <1>3, <1>4, <2>1, <2>2
<1>6. CASE Fetch(c)
  <2>1. [keys |-> published, left |-> Lifespan] \in
          [keys: SUBSET Kids, left: 1..Lifespan]
    BY Numbers, KeysAssumption DEF KeysInv, WorkerOK
  <2>2. GivenUp(c) \in {"gate", "refused"}
    BY DEF GivenUp
  <2>3. /\ Resolve(c) \/ (UNCHANGED keys /\ \E step \in {"refetch", "gate", "refused"} : Missed(c, step))
        /\ UNCHANGED <<published, floor>>
        /\ jwk_set' = [keys |-> published, left |-> Lifespan]
    <3>1. CASE thread[c].kid \in published
      BY <1>6, <3>1 DEF Fetch
    <3>2. CASE thread[c].kid \notin published
      BY <1>6, <2>2, <3>2 DEF Fetch
    <3> QED
      BY <3>1, <3>2
  <2>4. WorkerOK'
    BY <1>4, <2>1, <2>3 DEF KeysInv, WorkerOK
  <2> QED
    BY <1>2, <1>3, <1>4, <2>3, <2>4
<1>7. CASE Gate(c)
  <2>1. CASE floor > 0
    <3>1. Goes(c, "refused") /\ UNCHANGED <<floor, published, jwk_set, keys, counters>>
      BY <1>7, <2>1, Zenon DEF Gate
    <3>2. thread[c].missed
      BY <1>7 DEF Gate, At, KeysInv, MissedInv
    <3> DEFINE x == [thread[c] EXCEPT !.step = "refused"]
    <3>3. thread' = [thread EXCEPT ![c] = x]
      BY <1>0, <3>1, GoesMoves
    <3>4. Fits(x) /\ x.step = "refused"
      BY <1>0, <3>2 DEF Fits, Thread, Steps, Fetching, Limiting, Outcomes
    <3>5. WorkerOK'
      BY <3>1 DEF KeysInv, WorkerOK
    <3> QED
      BY <1>1, <3>3, <3>4, <3>5 DEF Outcomes
  <2>2. CASE ~(floor > 0)
    <3>1. Goes(c, "forced") /\ floor' = Interval /\ UNCHANGED <<published, jwk_set, keys>>
      BY <1>7, <2>2, Zenon DEF Gate
    <3>2. WorkerOK'
      BY <3>1, Numbers DEF KeysInv, WorkerOK
    <3> QED
      BY <1>2, <3>1, <3>2
  <2> QED
    BY <2>1, <2>2
<1>8. CASE Refresh(c)
  <2> DEFINE x == [thread[c] EXCEPT !.step = "lookup", !.again = TRUE]
  <2>1. thread' = [thread EXCEPT ![c] = x]
    BY <1>0, <1>8 DEF Refresh, ThreadsOK, Thread
  <2>2. Fits(x) /\ x.step = "lookup"
    BY <1>0 DEF Fits, Thread, Steps, Fetching, Outcomes
  <2>3. [keys |-> published, left |-> Lifespan] \in
          [keys: SUBSET Kids, left: 1..Lifespan]
    BY Numbers, KeysAssumption DEF KeysInv, WorkerOK
  <2>4. WorkerOK'
    BY <1>8, <2>3 DEF Refresh, KeysInv, WorkerOK
  <2> QED
    BY <1>1, <2>1, <2>2, <2>4
<1>9. CASE FetchFails(c)
  <2>1. GivenUp(c) \in {"gate", "refused"}
    BY DEF GivenUp
  <2>2. \E step \in {"refetch", "gate", "refused"} : Missed(c, step)
    BY <1>9, <2>1 DEF FetchFails
  <2>3. [keys |-> {}, left |-> Lifespan] \in [keys: SUBSET Kids, left: 1..Lifespan]
    BY Numbers
  <2>4. WorkerOK'
    BY <1>9, <2>3 DEF FetchFails, KeysInv, WorkerOK
  <2> QED
    BY <1>3, <2>2, <2>4
<1> QED
  BY <1>5, <1>6, <1>7, <1>8, <1>9 DEF get_signing_key

\* The limiter's mark: what it does to the bound on a window.  One more through
\* is one more counted, or one fewer late.  (ratelimit.py allow)
LEMMA MarkKeeps ==
  ASSUME KeysInv, NEW c \in Callers, NEW x, thread' = [thread EXCEPT ![c] = x],
         x.step \in {"lookup", "idle"},
         \/ At(c, "add") /\ AllowFirst
         \/ At(c, "incr") /\ (AllowCounted \/ AllowRefused)
         \/ At(c, "readd") /\ AllowAnew
  PROVE  EntriesOK' /\ WindowInv' /\ LockoutInv'
<1>0. allowance \in Entry(Limit + 1, Period) /\ through \in Nat /\ Limit + 1 \in Nat \ {0}
  BY Numbers DEF KeysInv, EntriesOK
<1>1. UNCHANGED <<failures, unread>>
  BY DEF AllowFirst, AllowCounted, AllowRefused, AllowAnew, Admitted
<1>2. Late' = Late \ {c} /\ Guessing' = Guessing \ {c}
  BY Moves DEF KeysInv
<1>3. /\ Cardinality(Late) \in Nat /\ Cardinality(Late') \in Nat
      /\ Cardinality(Late') <= Cardinality(Late)
      /\ Cardinality(Late') <= Many - 1
  BY <1>2, CountWithin, NoMore DEF Late
<1>4. LockoutInv'
  <2>1. CASE failures = None
    BY <1>1, <2>1 DEF LockoutInv
  <2>2. CASE failures # None
    <3>1. /\ Cardinality(Guessing) \in Nat /\ Cardinality(Guessing') \in Nat
          /\ Cardinality(Guessing') <= Cardinality(Guessing)
      BY <1>2, CountWithin, NoMore DEF Guessing
    <3>2. failures.count \in Nat
      BY <2>2, Numbers DEF KeysInv, EntriesOK, Entry
    <3> QED
      BY <1>1, <3>1, <3>2, Numbers DEF KeysInv, LockoutInv
  <2> QED
    BY <2>1, <2>2
<1>5. ASSUME allowance' \in Entry(Limit + 1, Period), through' \in Nat
      PROVE  EntriesOK'
  BY <1>1, <1>5 DEF KeysInv, EntriesOK
<1>6. CASE AllowFirst \/ (AllowAnew /\ allowance = None)
  <2>1. allowance = None /\ allowance' = add(allowance, Period) /\ through' = through + 1
    BY <1>6 DEF AllowFirst, AllowAnew, Admitted
  <2>2. allowance' \in Entry(Limit + 1, Period) /\ allowance' # None /\ allowance'.count = 1
    BY <1>0, <2>1, AddFits, Numbers
  <2>3. through' = 1
    BY <2>1 DEF KeysInv, WindowInv
  <2>4. WindowInv'
    BY <1>3, <2>2, <2>3, Numbers DEF WindowInv, Counted
  <2> QED
    BY <1>4, <1>5, <2>2, <2>3, <2>4
<1>7. CASE At(c, "readd") /\ AllowAnew /\ allowance # None
  <2>1. allowance' = allowance /\ through' = through + 1
    BY <1>0, <1>7, AddFits, Numbers DEF AllowAnew, Admitted
  <2>2. Cardinality(Late') = Cardinality(Late) - 1
    BY <1>2, <1>7, OneLess DEF Late
  <2>3. allowance.count \in Nat
    BY <1>0, <1>7 DEF Entry
  <2>4. WindowInv'
    BY <1>0, <1>3, <1>7, <2>1, <2>2, <2>3, Numbers DEF KeysInv, WindowInv, Counted
  <2> QED
    BY <1>0, <1>4, <1>5, <2>1, <2>4
<1>8. CASE AllowCounted \/ AllowRefused
  <2>1. allowance # None /\ allowance' = incr(allowance, Limit + 1, Period)
    BY <1>8 DEF AllowCounted, AllowRefused
  <2>2. /\ allowance' \in Entry(Limit + 1, Period) /\ allowance' # None
        /\ allowance'.count = IF allowance.count < Limit + 1 THEN allowance.count + 1
                               ELSE Limit + 1
    BY <1>0, <2>1, IncrFits, Numbers
  <2>3. allowance.count \in 1 .. Limit + 1
    BY <1>0, <2>1 DEF Entry
  <2>4. \/ allowance'.count <= Limit /\ through' = through + 1
        \/ allowance'.count > Limit /\ through' = through
    BY <1>8 DEF AllowCounted, AllowRefused, Admitted
  <2>5. WindowInv'
    BY <1>0, <1>3, <2>1, <2>2, <2>3, <2>4, Numbers DEF KeysInv, WindowInv, Counted
  <2> QED
    BY <1>0, <1>4, <1>5, <2>2, <2>4, <2>5
<1> QED
  <2>1. \/ AllowFirst \/ (AllowAnew /\ allowance = None)
        \/ At(c, "readd") /\ AllowAnew /\ allowance # None
        \/ AllowCounted \/ AllowRefused
    OBVIOUS
  <2> QED
    BY <2>1, <1>6, <1>7, <1>8

LEMMA AllowKeeps ==
  ASSUME KeysInv, NEW c \in Callers, allow(c)
  PROVE  KeysInv'
<1>0. WorkerOK' /\ ThreadsOK /\ thread[c] \in Thread
  BY DEF allow, KeysInv, WorkerOK, worker, ThreadsOK
<1>1. CASE \/ At(c, "add") /\ allowance # None /\ Goes(c, "incr") /\ UNCHANGED counters
           \/ At(c, "incr") /\ allowance = None /\ Goes(c, "readd") /\ UNCHANGED counters
  <2>1. thread[c].kid \in Signing
    BY <1>1 DEF KeysInv, KidsOK, At, Limiting
  <2>2. UNCHANGED <<counters, published, worker>>
    BY <1>1 DEF allow
  <2>3. {"incr", "readd"} \subseteq Steps
    BY DEF Steps, Limiting
  <2>4. CASE Goes(c, "incr")
    BY <2>1, <2>2, <2>3, <2>4, OnlyGoes
  <2>5. CASE Goes(c, "readd") /\ allowance = None
    BY <2>1, <2>2, <2>3, <2>5, OnlyGoes
  <2> QED
    BY <1>1, <2>4, <2>5
<1>2. CASE \/ At(c, "add") /\ AllowFirst /\ Goes(c, "lookup")
           \/ At(c, "incr") /\ AllowCounted /\ Goes(c, "lookup")
           \/ At(c, "readd") /\ AllowAnew /\ Goes(c, "lookup")
  <2> DEFINE x == [thread[c] EXCEPT !.step = "lookup"]
  <2>1. thread' = [thread EXCEPT ![c] = x]
    BY <1>0, <1>2, GoesMoves
  <2>2. thread[c].kid \in Signing
    BY <1>2 DEF KeysInv, KidsOK, At, Limiting
  <2>3. Fits(x) /\ x.step = "lookup"
    BY <1>0, <2>2 DEF Fits, Thread, Steps
  <2>4. EntriesOK' /\ WindowInv' /\ LockoutInv'
    BY <1>2, <2>1, <2>3, MarkKeeps
  <2>5. ThreadsOK' /\ KidsOK' /\ MissedInv'
    BY <2>1, <2>3, ThreadFits DEF KeysInv
  <2> QED
    BY <1>0, <2>4, <2>5 DEF KeysInv
<1>3. CASE At(c, "incr") /\ AllowRefused /\ thread' = [thread EXCEPT ![c] = Idle]
  <2>1. EntriesOK' /\ WindowInv' /\ LockoutInv'
    BY <1>3, MarkKeeps DEF Idle
  <2>2. ThreadsOK' /\ KidsOK' /\ MissedInv'
    BY <1>3, IdleFits, ThreadFits DEF KeysInv
  <2> QED
    BY <1>0, <2>1, <2>2 DEF KeysInv
<1> QED
  BY <1>1, <1>2, <1>3 DEF allow

\* A login begins under the limit, and one more guess is under way.  (throttling.py
\* is_locked_out, before the password)
LEMMA AttemptKeeps ==
  ASSUME KeysInv, NEW c \in Callers, Attempt(c)
  PROVE  KeysInv'
<1>0. /\ At(c, "idle") /\ ~is_locked_out /\ Goes(c, "password") /\ ThreadsOK
      /\ UNCHANGED <<counters, published, worker>>
  BY DEF Attempt, KeysInv
<1>1. "password" \in Steps \ ({"lookup", "gate", "refused"} \cup Limiting \cup Fetching)
  BY DEF Steps, Login, Limiting, Fetching
<1>2. /\ ThreadsOK' /\ KidsOK' /\ MissedInv'
      /\ \E x : x.step = "password" /\ thread' = [thread EXCEPT ![c] = x]
  BY <1>0, <1>1, StepFits DEF KeysInv
<1>3. Late' = Late \ {c}
  BY <1>0, <1>2, Moves
<1>4. EntriesOK' /\ WorkerOK'
  BY <1>0 DEF KeysInv, EntriesOK, WorkerOK, counters, worker
<1>5. WindowInv'
  <2>1. Late' = Late
    BY <1>0, <1>3 DEF Late, At
  <2> QED
    BY <1>0, <2>1 DEF KeysInv, WindowInv, counters
<1>6. LockoutInv'
  <2>1. CASE failures = None
    BY <1>0, <2>1 DEF LockoutInv, counters
  <2>2. CASE failures # None
    <3>1. failures.count < FailureLimit /\ failures.count \in Nat
      BY <1>0, <2>2, Numbers DEF is_locked_out, KeysInv, EntriesOK, Entry
    <3>2. Cardinality(Guessing') \in 0..Many
      BY CountWithin DEF Guessing
    <3> QED
      BY <1>0, <3>1, <3>2, Numbers DEF LockoutInv, counters
  <2> QED
    BY <2>1, <2>2
<1> QED
  BY <1>2, <1>4, <1>5, <1>6 DEF KeysInv

\* A failure that is recorded is one guess fewer under way.  (throttling.py
\* record_failure)
LEMMA RecordKeeps ==
  ASSUME KeysInv, NEW c \in Callers, UNCHANGED <<published, worker>>, Goes(c, "idle"),
         \/ At(c, "record") /\ RecordFirst
         \/ At(c, "count") /\ RecordAgain
         \/ At(c, "clear") /\ clear
  PROVE  KeysInv'
<1> DEFINE most == FailureLimit + Many
<1>0. /\ ThreadsOK /\ most \in Nat \ {0} /\ failures \in Entry(most, Window)
      /\ UNCHANGED <<allowance, through>>
  BY Numbers DEF KeysInv, EntriesOK, RecordFirst, RecordAgain, clear
<1>1. /\ ThreadsOK' /\ KidsOK' /\ MissedInv'
      /\ \E x : x.step = "idle" /\ thread' = [thread EXCEPT ![c] = x]
  BY StepFits DEF KeysInv, Steps, Limiting, Fetching
<1>2. Late' = Late \ {c} /\ Guessing' = Guessing \ {c}
  BY <1>0, <1>1, Moves
<1>3. WorkerOK'
  BY DEF KeysInv, WorkerOK, worker
<1>4. WindowInv'
  <2>1. Late' = Late
    BY <1>2 DEF Late, At
  <2> QED
    BY <1>0, <2>1 DEF KeysInv, WindowInv
<1>5. Cardinality(Guessing) \in Nat /\ Cardinality(Guessing') \in 0 .. Many - 1
  BY <1>2, CountWithin, Numbers DEF Guessing
<1>6. /\ RecordFirst \/ RecordAgain => unread' = unread
      /\ unread' \in BOOLEAN
  <2>1. RecordFirst \/ RecordAgain => unread' = unread
    BY DEF RecordFirst, RecordAgain
  <2>2. clear => unread' = FALSE
    BY DEF clear
  <2> QED
    BY <2>1, <2>2 DEF KeysInv, EntriesOK
<1>7. ASSUME failures' \in Entry(most, Window), LockoutInv'
      PROVE  KeysInv'
  <2>1. EntriesOK'
    <3>1. /\ allowance' \in Entry(Limit + 1, Period)
          /\ through' \in Nat /\ unread' \in BOOLEAN
      BY <1>0, <1>6 DEF KeysInv, EntriesOK
    <3> QED
      BY <1>7, <3>1 DEF EntriesOK, Many
  <2> QED
    BY <1>1, <1>3, <1>4, <1>7, <2>1 DEF KeysInv
<1>8. CASE RecordFirst
  <2>1. failures' \in Entry(most, Window) /\ failures'.count = 1
    BY <1>0, <1>8, AddFits, Numbers DEF RecordFirst
  <2>2. LockoutInv'
    BY <2>1, <1>5, Numbers DEF LockoutInv
  <2> QED
    BY <1>7, <2>1, <2>2
<1>9. CASE At(c, "count") /\ RecordAgain /\ failures # None
  <2>1. failures' = incr(failures, most, Window)
    BY <1>9 DEF RecordAgain, Many
  <2>2. /\ failures' \in Entry(most, Window)
        /\ failures'.count = IF failures.count < most THEN failures.count + 1 ELSE most
    BY <1>0, <1>9, <2>1, IncrFits, Numbers
  <2>3. failures.count \in 1..most
    BY <1>0, <1>9 DEF Entry
  <2>4. Cardinality(Guessing') = Cardinality(Guessing) - 1
    BY <1>2, <1>9, OneLess DEF Guessing, At
  <2>5. LockoutInv'
    BY <1>0, <1>5, <1>9, <1>6, <2>2, <2>3, <2>4, Numbers DEF KeysInv, LockoutInv
  <2> QED
    BY <1>7, <2>2, <2>5
<1>10. CASE (RecordAgain /\ failures = None) \/ clear
  <2>1. failures' = None
    BY <1>10 DEF RecordAgain, clear
  <2> QED
    BY <1>7, <2>1 DEF Entry, LockoutInv
<1> QED
  <2>1. RecordFirst \/ (At(c, "count") /\ RecordAgain) \/ clear
    OBVIOUS
  <2> QED
    BY <2>1, <1>8, <1>9, <1>10

LEMMA AuthenticateKeeps ==
  ASSUME KeysInv, NEW c \in Callers, authenticate(c)
  PROVE  KeysInv'
<1>0. UNCHANGED <<published, worker>>
  BY DEF authenticate
<1>1. CASE At(c, "password") /\ (Goes(c, "record") \/ Goes(c, "clear")) /\ UNCHANGED counters
  <2>1. {"record", "clear"} \subseteq Steps \ ({"lookup", "gate", "refused"} \cup Limiting \cup Fetching)
    BY DEF Steps, Login, Limiting, Fetching
  <2>2. UNCHANGED <<counters, published, worker>>
    BY <1>0, <1>1
  <2>3. CASE Goes(c, "record")
    BY <1>1, <2>1, <2>2, <2>3, OnlyGoes DEF At, Limiting
  <2>4. CASE Goes(c, "clear")
    BY <1>1, <2>1, <2>2, <2>4, OnlyGoes
  <2> QED
    BY <1>1, <2>3, <2>4
<1>2. CASE At(c, "record") /\ failures # None /\ Goes(c, "count") /\ UNCHANGED counters
  <2>1. "count" \in Steps \ ({"lookup", "gate", "refused"} \cup Limiting \cup Fetching)
    BY DEF Steps, Login, Limiting, Fetching
  <2>2. UNCHANGED <<counters, published, worker>>
    BY <1>0, <1>2
  <2> QED
    BY <1>2, <2>1, <2>2, OnlyGoes DEF At, Limiting
<1>3. CASE \/ At(c, "record") /\ RecordFirst /\ Goes(c, "idle")
           \/ At(c, "count") /\ RecordAgain /\ Goes(c, "idle")
           \/ At(c, "clear") /\ clear /\ Goes(c, "idle")
  BY <1>0, <1>3, RecordKeeps
<1> QED
  BY <1>1, <1>2, <1>3 DEF authenticate

\* Without the cache an exchange goes on uncounted and a guess is let by; neither
\* is among those the counters answer for.  (throttling.py, ratelimit.py: fail open)
LEMMA CacheDownKeeps ==
  ASSUME KeysInv, NEW c \in Callers, CacheDown(c)
  PROVE  KeysInv'
<1>0. /\ UNCHANGED <<allowance, failures, through, published, worker>>
      /\ ThreadsOK
  BY DEF CacheDown, KeysInv
<1>1. CASE thread[c].step \in Limiting /\ Goes(c, "lookup") /\ UNCHANGED unread
  <2>1. thread[c].kid \in Signing /\ "lookup" \in Steps
    BY <1>1 DEF KeysInv, KidsOK, Steps
  <2>2. UNCHANGED <<counters, published, worker>>
    BY <1>0, <1>1 DEF counters
  <2> QED
    BY <1>1, <2>1, <2>2, OnlyGoes
<1>2. CASE thread[c].step \in {"record", "count", "clear"} /\ Goes(c, "idle") /\ UNCHANGED unread
  <2>1. "idle" \in Steps \ ({"lookup", "gate", "refused"} \cup Limiting \cup Fetching)
    BY DEF Steps, Limiting, Fetching
  <2>2. UNCHANGED <<counters, published, worker>>
    BY <1>0, <1>2 DEF counters
  <2> QED
    BY <1>2, <2>1, <2>2, OnlyGoes
<1>3. CASE At(c, "idle") /\ Goes(c, "password") /\ unread' = (unread \/ is_locked_out)
  <2>1. "password" \in Steps \ ({"lookup", "gate", "refused"} \cup Limiting \cup Fetching)
    BY DEF Steps, Login, Limiting, Fetching
  <2>2. /\ ThreadsOK' /\ KidsOK' /\ MissedInv'
        /\ \E x : x.step = "password" /\ thread' = [thread EXCEPT ![c] = x]
    BY <1>3, <2>1, StepFits DEF KeysInv
  <2>3. Late' = Late \ {c}
    BY <1>0, <2>2, Moves
  <2>4. Late' = Late
    BY <1>3, <2>3 DEF Late, At
  <2>5. EntriesOK'
    <3>1. unread' \in BOOLEAN
      BY <1>3 DEF KeysInv, EntriesOK
    <3> QED
      BY <1>0, <3>1 DEF KeysInv, EntriesOK
  <2>6. WorkerOK' /\ WindowInv'
    BY <1>0, <2>4 DEF KeysInv, WorkerOK, WindowInv, worker
  <2>7. LockoutInv'
    <3> SUFFICES ASSUME failures # None, ~is_locked_out
                 PROVE  failures.count + Cardinality(Guessing') <= FailureLimit + Many - 1
      BY <1>0, <1>3 DEF LockoutInv
    <3>1. failures.count < FailureLimit /\ failures.count \in Nat
      BY Numbers DEF is_locked_out, KeysInv, EntriesOK, Entry
    <3>2. Cardinality(Guessing') \in 0..Many
      BY CountWithin DEF Guessing
    <3> QED
      BY <3>1, <3>2, Numbers
  <2> QED
    BY <2>2, <2>5, <2>6, <2>7 DEF KeysInv
<1> QED
  BY <1>1, <1>2, <1>3 DEF CacheDown

-----------------------------------------------------------------------------
(***************************************************************************)
(* What happens around the requests, and the invariant.                    *)
(***************************************************************************)

LEMMA RotateKeeps == KeysInv /\ Rotate => KeysInv'
<1> SUFFICES ASSUME KeysInv, Rotate
             PROVE  KeysInv'
  OBVIOUS
<1>1. Late' = Late /\ Guessing' = Guessing
  BY DEF Rotate, Late, Guessing, At
<1>2. EntriesOK' /\ WindowInv' /\ LockoutInv'
  BY <1>1 DEF Rotate, KeysInv, EntriesOK, WindowInv, LockoutInv, counters
<1>3. WorkerOK' /\ ThreadsOK' /\ KidsOK' /\ MissedInv'
  BY DEF Rotate, KeysInv, WorkerOK, ThreadsOK, KidsOK, MissedInv, worker
<1> QED
  BY <1>2, <1>3 DEF KeysInv

\* The requests a worker ends with were counted or were not: either way they are
\* no longer under way.
LEMMA RestartKeeps == KeysInv /\ Restart => KeysInv'
<1> SUFFICES ASSUME KeysInv, Restart
             PROVE  KeysInv'
  OBVIOUS
<1>1. \A c \in Callers : thread'[c] = Idle /\ Idle.step = "idle"
  BY DEF Restart, Idle
<1>2. Late' = {} /\ Guessing' = {}
  BY <1>1 DEF Late, Guessing, At
<1>3. /\ Cardinality(Late') <= Cardinality(Late)
      /\ Cardinality(Guessing') <= Cardinality(Guessing)
      /\ {Cardinality(Late), Cardinality(Late'),
          Cardinality(Guessing), Cardinality(Guessing')} \subseteq Nat
  <2>1. Late' \in SUBSET Late /\ Late \in SUBSET Callers
    BY <1>2 DEF Late
  <2>2. Guessing' \in SUBSET Guessing /\ Guessing \in SUBSET Callers
    BY <1>2 DEF Guessing
  <2> QED
    BY <2>1, <2>2, NoMore, CountWithin
<1>4. UNCHANGED <<allowance, failures, through, unread, published>>
  BY DEF Restart, counters
<1>5. EntriesOK' /\ WorkerOK'
  BY <1>4, Numbers DEF Restart, KeysInv, EntriesOK, WorkerOK
<1>6. WindowInv'
  <2>1. CASE allowance = None
    BY <1>4, <2>1 DEF KeysInv, WindowInv
  <2>2. CASE allowance # None
    <3>1. allowance.count \in Nat
      BY <2>2, Numbers DEF KeysInv, EntriesOK, Entry
    <3> QED
      BY <1>3, <1>4, <2>2, <3>1, Numbers DEF KeysInv, EntriesOK, WindowInv, Counted
  <2> QED
    BY <2>1, <2>2
<1>7. LockoutInv'
  <2>1. CASE failures = None
    BY <1>4, <2>1 DEF LockoutInv
  <2>2. CASE failures # None
    <3>1. failures.count \in Nat
      BY <2>2, Numbers DEF KeysInv, EntriesOK, Entry
    <3> QED
      BY <1>3, <1>4, <3>1, Numbers DEF KeysInv, LockoutInv
  <2> QED
    BY <2>1, <2>2
<1>8. ThreadsOK' /\ KidsOK' /\ MissedInv'
  BY <1>1 DEF Restart, ThreadsOK, KidsOK, MissedInv, Thread, Idle, Steps, Limiting, Fetching
<1> QED
  BY <1>5, <1>6, <1>7, <1>8 DEF KeysInv

\* An entry that expires takes its bound with it.
LEMMA TickKeeps == KeysInv /\ Tick => KeysInv'
<1> SUFFICES ASSUME KeysInv, Tick
             PROVE  KeysInv'
  OBVIOUS
<1>1. /\ Limit + 1 \in Nat \ {0} /\ FailureLimit + Many \in Nat \ {0}
      /\ allowance \in Entry(Limit + 1, Period)
      /\ failures \in Entry(FailureLimit + Many, Window)
  BY Numbers DEF KeysInv, EntriesOK
<1>2. /\ allowance' \in Entry(Limit + 1, Period)
      /\ allowance' # None => allowance # None /\ allowance'.count = allowance.count
  BY <1>1, AgedFits, Numbers DEF Tick, CountersTick
<1>3. /\ failures' \in Entry(FailureLimit + Many, Window)
      /\ failures' # None => failures # None /\ failures'.count = failures.count
  BY <1>1, AgedFits, Numbers DEF Tick, CountersTick
<1>4. /\ through' = IF allowance' = None THEN 0 ELSE through
      /\ unread' = (unread /\ failures' # None)
      /\ UNCHANGED <<published, keys, thread>>
      /\ jwk_set' = Aged(jwk_set) /\ floor' = IF floor = 0 THEN 0 ELSE floor - 1
  BY DEF Tick, CountersTick
<1>5. Late' = Late /\ Guessing' = Guessing
  BY <1>4 DEF Late, Guessing, At
<1>6. EntriesOK'
  BY <1>2, <1>3, <1>4 DEF KeysInv, EntriesOK, Many
<1>7. WindowInv' /\ LockoutInv'
  BY <1>2, <1>3, <1>4, <1>5 DEF KeysInv, WindowInv, LockoutInv
<1>8. WorkerOK'
  <2>1. jwk_set' \in [keys: SUBSET Kids, left: 1..Lifespan] \cup {None}
    <3>1. CASE jwk_set = None
      BY <1>4, <3>1 DEF Aged
    <3>2. CASE jwk_set # None
      <4>1. jwk_set \in [keys: SUBSET Kids, left: 1..Lifespan]
        BY <3>2 DEF KeysInv, WorkerOK
      <4> QED
        BY <1>4, <3>2, <4>1, Numbers DEF Aged
    <3> QED
      BY <3>1, <3>2
  <2>2. floor' \in 0..Interval
    BY <1>4, Numbers DEF KeysInv, WorkerOK
  <2> QED
    BY <1>4, <2>1, <2>2 DEF KeysInv, WorkerOK
<1>9. ThreadsOK' /\ KidsOK' /\ MissedInv'
  BY <1>4 DEF KeysInv, ThreadsOK, KidsOK, MissedInv
<1> QED
  BY <1>6, <1>7, <1>8, <1>9 DEF KeysInv

LEMMA Inductive == KeysInv /\ [Next]_vars => KeysInv'
<1> SUFFICES ASSUME KeysInv, [Next]_vars
             PROVE  KeysInv'
  OBVIOUS
<1>1. ASSUME NEW c \in Callers,
             \/ \E kid \in Signing : Post(c, kid)
             \/ Attempt(c) \/ Handled(c) \/ Unreadable(c) \/ CacheDown(c)
      PROVE  KeysInv'
  BY <1>1, DoorKeeps, AttemptKeeps, AllowKeeps, KeyStepKeeps, AuthenticateKeeps, CacheDownKeeps
     DEF Handled
<1>2. CASE UNCHANGED vars
  <2>1. Late' = Late /\ Guessing' = Guessing
    BY <1>2 DEF vars, Late, Guessing, At
  <2>2. EntriesOK' /\ WorkerOK' /\ WindowInv' /\ LockoutInv'
    BY <1>2, <2>1 DEF vars, KeysInv, EntriesOK, WorkerOK, WindowInv, LockoutInv
  <2>3. ThreadsOK' /\ KidsOK' /\ MissedInv'
    BY <1>2 DEF vars, KeysInv, ThreadsOK, KidsOK, MissedInv
  <2> QED
    BY <2>2, <2>3 DEF KeysInv
<1> QED
  BY <1>1, <1>2, RotateKeeps, RestartKeeps, TickKeeps DEF Next

LEMMA KeysInvHolds == Spec => []KeysInv
  BY Initially, Inductive, PTL DEF Spec

-----------------------------------------------------------------------------
(***************************************************************************)
(* The theorems.                                                           *)
(***************************************************************************)

LEMMA Bounded == KeysInv => AttemptsBounded /\ through \in 0 .. Limit + Many
<1> SUFFICES ASSUME KeysInv
             PROVE  AttemptsBounded /\ through \in 0 .. Limit + Many
  OBVIOUS
<1>1. through < Limit + Many /\ through \in Nat
  <2>1. Cardinality(Late) \in Nat
    BY CountWithin DEF Late
  <2>2. CASE allowance = None
    BY <2>2, Numbers DEF KeysInv, WindowInv, EntriesOK
  <2>3. CASE allowance # None
    <3>1. allowance.count \in Nat
      BY <2>3, Numbers DEF KeysInv, EntriesOK, Entry
    <3> QED
      BY <2>1, <2>3, <3>1, Numbers DEF KeysInv, WindowInv, EntriesOK, Counted
  <2> QED
    BY <2>2, <2>3
<1>2. failures # None /\ ~unread => failures.count < FailureLimit + Many
  <2>1. Cardinality(Guessing) \in Nat
    BY CountWithin DEF Guessing
  <2> SUFFICES ASSUME failures # None, ~unread
               PROVE  failures.count < FailureLimit + Many
    OBVIOUS
  <2>2. failures.count \in Nat
    BY Numbers DEF KeysInv, EntriesOK, Entry
  <2> QED
    BY <2>1, <2>2, Numbers DEF KeysInv, LockoutInv
<1> QED
  BY <1>1, <1>2, Numbers DEF AttemptsBounded, Many

\* The two cache entries, the worker's key set, keys and floor, and every request
\* keep their ranges; the number a window lets through has one. (ratelimit.py,
\* throttling.py, jwks.py)
THEOREM KeysTypes == Spec => []KeysTypeOK
<1>1. KeysInv => KeysTypeOK
  BY Bounded DEF KeysInv, KeysTypeOK, CountersTypeOK, EntriesOK, WorkerOK, ThreadsOK, Many
<1> QED
  BY <1>1, KeysInvHolds, PTL

\* A window of the limiter lets through its limit and at most one more for each
\* other request under way, and a locked account hears at most the guesses that
\* were under way, for any number of requests in any order of their statements.
\* (ratelimit.py allow; throttling.py)
THEOREM CountersBound == Spec => []AttemptsBounded
  BY Bounded, KeysInvHolds, PTL

\* A token is refused for want of its key only after a fetch made for it failed
\* or came without it, or over an answer that is kept and is no key set,
\* whatever the other requests have used up of the floor. (jwks.py get_signing_key)
THEOREM RefusalsHaveCause == Spec => []RefusedForCause
<1>1. KeysInv => RefusedForCause
  BY DEF KeysInv, MissedInv, RefusedForCause, At
<1> QED
  BY <1>1, KeysInvHolds, PTL
=============================================================================
