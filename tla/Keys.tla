--------------------------------- MODULE Keys ---------------------------------
(***************************************************************************)
(* One worker of the portal and the keys B2CORE signs its tokens with: the *)
(* exchange of a token (portal/views.py SessionView.post and the merchant  *)
(* panel's twin), from the limiter through verify_token to the key set     *)
(* that portal/b2core/jwks.py keeps, with B2CORE rotating its keys and its *)
(* endpoint failing; and, on the same worker, the desk's login behind its  *)
(* lockout.                                                                *)
(*                                                                         *)
(* PyJWKClient is external.  It keeps the key set for a while, keeps every *)
(* key it has resolved, fetches the set when it has none, and once more    *)
(* when the token's key is not in it.  A fetch that fails drops the set,   *)
(* or, where the answer is a document but no key set, may keep that one.   *)
(***************************************************************************)
EXTENDS Throttle

CONSTANTS
  Kids,       \* the ids of the keys B2CORE has
  Served,     \* the key sets its endpoint serves, now this one and now that
  Signing,    \* the ones the tokens that arrive are signed with
  Lifespan,   \* B2CORE_JWKS_CACHE_SECONDS, in ticks
  Interval    \* MIN_REFRESH_INTERVAL, in ticks

ASSUME KeysAssumption ==
  /\ None \notin Kids
  /\ Signing \subseteq Kids
  /\ Served \subseteq (SUBSET Kids) \ {{}}
  /\ {Lifespan, Interval} \subseteq Nat \ {0}

VARIABLES
  published,  \* the keys B2CORE's endpoint serves
  jwk_set,    \* PyJWKClient: the key set it keeps, an empty one if it is none
  keys,       \* PyJWKClient: the keys it has resolved, kept until the worker ends
  floor,      \* ticks until a refresh may be forced again
  thread      \* the requests

worker == <<jwk_set, keys, floor>>
vars == <<allowance, failures, through, unread, published, jwk_set, keys, floor, thread>>

\* How far a request is.  An exchange: the limiter's statements, then the key.
\* A login: the lockout, the password, what is recorded.
Limiting == {"add", "incr", "readd"}
Login == {"password", "record", "count", "clear"}
Fetching == {"fetch", "refetch", "forced"}
Outcomes == {"refused", "resolved"}
Steps == {"idle", "lookup", "gate"} \cup Limiting \cup Login \cup Fetching \cup Outcomes

\* again: the lookup after a forced refresh.  missed: a fetch of its own failed
\* or came without its key, or what is kept is no key set.
Thread == [step: Steps, kid: Signing \cup {None}, again: BOOLEAN, missed: BOOLEAN]

Idle == [step |-> "idle", kid |-> None, again |-> FALSE, missed |-> FALSE]

KeysTypeOK ==
  /\ CountersTypeOK
  /\ published \in Served
  /\ jwk_set \in [keys: SUBSET Kids, left: 1..Lifespan] \cup {None}
  /\ keys \in SUBSET Signing
  /\ floor \in 0..Interval
  /\ thread \in [Callers -> Thread]

At(c, step) == thread[c].step = step

Goes(c, step) == thread' = [thread EXCEPT ![c].step = step]

-----------------------------------------------------------------------------
(* The limiter.                                                            *)

\* A request with a token arrives.
Post(c, kid) ==
  /\ At(c, "idle")
  /\ thread' = [thread EXCEPT ![c] = [Idle EXCEPT !.step = "add", !.kid = kid]]
  /\ UNCHANGED <<counters, published, worker>>

allow(c) ==
  /\ \/ At(c, "add") /\ AllowFirst /\ Goes(c, "lookup")
     \/ At(c, "add") /\ allowance # None /\ Goes(c, "incr") /\ UNCHANGED counters
     \/ At(c, "incr") /\ AllowCounted /\ Goes(c, "lookup")
     \/ At(c, "incr") /\ AllowRefused /\ thread' = [thread EXCEPT ![c] = Idle]
     \/ At(c, "incr") /\ allowance = None /\ Goes(c, "readd") /\ UNCHANGED counters
     \/ At(c, "readd") /\ AllowAnew /\ Goes(c, "lookup")
  /\ UNCHANGED <<published, worker>>

-----------------------------------------------------------------------------
(* The keys.                                                               *)

\* verify_token: a token that cannot be read, or signed in a way that is not
\* accepted, is turned away before its key is looked for.
Unreadable(c) ==
  /\ At(c, "lookup") /\ ~thread[c].again
  /\ thread' = [thread EXCEPT ![c] = Idle]
  /\ UNCHANGED <<counters, published, worker>>

Resolve(c) ==
  /\ keys' = keys \cup {thread[c].kid}
  /\ thread' = [thread EXCEPT ![c] = [Idle EXCEPT !.step = "resolved", !.kid = thread[c].kid]]

\* fault: the floor is there for every miss.
LookupFloored(c) ==
  /\ At(c, "lookup")
  /\ CASE thread[c].kid \in keys -> Resolve(c)
       [] thread[c].kid \notin keys /\ floor > 0 /\ ~thread[c].again ->
            Goes(c, "refused") /\ UNCHANGED keys
       [] OTHER -> Goes(c, "fetch") /\ UNCHANGED keys
  /\ UNCHANGED <<counters, published, jwk_set, floor>>

Missed(c, step) ==
  thread' = [thread EXCEPT ![c].missed = TRUE, ![c].step = step]

\* What is left when PyJWKClient gives up: the first time there is a gate.
GivenUp(c) == IF thread[c].again THEN "refused" ELSE "gate"

\* get_signing_key_from_jwt, up to where it needs the network.  What is no key
\* set is given up on, by an error of PyJWKClient's own or another.
Lookup(c) ==
  /\ At(c, "lookup")
  /\ CASE thread[c].kid \in keys -> Resolve(c)
       [] thread[c].kid \notin keys /\ jwk_set = None ->
            Goes(c, "fetch") /\ UNCHANGED keys
       [] OTHER ->
            \/ thread[c].kid \in jwk_set.keys /\ Resolve(c)
            \/ thread[c].kid \notin jwk_set.keys /\ jwk_set.keys # {}
               /\ Goes(c, "refetch") /\ UNCHANGED keys
            \/ jwk_set.keys = {} /\ UNCHANGED keys
               /\ (Missed(c, GivenUp(c)) \/ Missed(c, "refused"))
  /\ UNCHANGED <<counters, published, jwk_set, floor>>

\* fetch_data, for the set and again for a key that is not in it.
Fetch(c) ==
  /\ At(c, "fetch") \/ At(c, "refetch")
  /\ jwk_set' = [keys |-> published, left |-> Lifespan]
  /\ IF thread[c].kid \in published THEN Resolve(c)
     ELSE /\ Missed(c, IF At(c, "fetch") THEN "refetch" ELSE GivenUp(c))
          /\ UNCHANGED keys
  /\ UNCHANGED <<counters, published, floor>>

\* A connection error is PyJWKClient's own and comes to the gate; any other (an
\* answer that is not a key set) does not, and nor does a forced fetch's.
FetchFails(c) ==
  /\ thread[c].step \in Fetching
  /\ jwk_set' \in {None, [keys |-> {}, left |-> Lifespan]}
  /\ \/ ~At(c, "forced") /\ Missed(c, GivenUp(c))
     \/ Missed(c, "refused")
  /\ UNCHANGED <<counters, published, keys, floor>>

\* get_signing_key's gate, under its lock: a refresh is forced unless one was
\* very recently, by whichever thread.
Gate(c) ==
  /\ At(c, "gate")
  /\ IF floor > 0 THEN Goes(c, "refused") /\ UNCHANGED floor
     ELSE Goes(c, "forced") /\ floor' = Interval
  /\ UNCHANGED <<counters, published, jwk_set, keys>>

\* get_jwk_set(refresh=True), and the lookup once more.
Refresh(c) ==
  /\ At(c, "forced")
  /\ jwk_set' = [keys |-> published, left |-> Lifespan]
  /\ thread' = [thread EXCEPT ![c].step = "lookup", ![c].again = TRUE]
  /\ UNCHANGED <<counters, published, keys, floor>>

\* B2CoreKeyError: the answer is 503, to be tried again.
Unavailable(c) ==
  /\ At(c, "refused")
  /\ thread' = [thread EXCEPT ![c] = Idle]
  /\ UNCHANGED <<counters, published, worker>>

\* The rest of verify_token, with the key: signature and claims, good or not.
\* What a good one opens is Access.
verify_token(c) ==
  /\ At(c, "resolved")
  /\ thread' = [thread EXCEPT ![c] = Idle]
  /\ UNCHANGED <<counters, published, worker>>

get_signing_key(c) == Lookup(c) \/ Fetch(c) \/ Gate(c) \/ Refresh(c)

-----------------------------------------------------------------------------
(* ThrottledModelBackend.authenticate, for one account's name.             *)

\* A locked-out name never reaches the password.
Attempt(c) ==
  /\ At(c, "idle")
  /\ ~is_locked_out
  /\ Goes(c, "password")
  /\ UNCHANGED <<counters, published, worker>>

authenticate(c) ==
  /\ \/ At(c, "password") /\ (Goes(c, "record") \/ Goes(c, "clear")) /\ UNCHANGED counters
     \/ At(c, "record") /\ RecordFirst /\ Goes(c, "idle")
     \/ At(c, "record") /\ failures # None /\ Goes(c, "count") /\ UNCHANGED counters
     \/ At(c, "count") /\ RecordAgain /\ Goes(c, "idle")
     \/ At(c, "clear") /\ clear /\ Goes(c, "idle")
  /\ UNCHANGED <<published, worker>>

-----------------------------------------------------------------------------
(* What happens around the requests.                                       *)

\* Both counters fail open: an exchange goes on, so does a login, and nothing
\* is recorded.
CacheDown(c) ==
  /\ CacheFails
  /\ \/ thread[c].step \in Limiting /\ Goes(c, "lookup") /\ UNCHANGED unread
     \/ At(c, "idle") /\ Goes(c, "password") /\ unread' = (unread \/ is_locked_out)
     \/ thread[c].step \in {"record", "count", "clear"} /\ Goes(c, "idle")
        /\ UNCHANGED unread
  /\ UNCHANGED <<allowance, failures, through, published, worker>>

\* B2CORE adds a key, or takes one away.
Rotate ==
  /\ published' \in Served
  /\ published' # published
  /\ UNCHANGED <<counters, worker, thread>>

\* The worker ends with the requests it was serving, and another takes its place.
Restart ==
  /\ jwk_set' = None /\ keys' = {} /\ floor' = 0
  /\ thread' = [c \in Callers |-> Idle]
  /\ UNCHANGED <<counters, published>>

Tick ==
  /\ CountersTick
  /\ jwk_set' = Aged(jwk_set)
  /\ floor' = IF floor = 0 THEN 0 ELSE floor - 1
  /\ UNCHANGED <<published, keys, thread>>

Init ==
  /\ allowance = None /\ failures = None /\ through = 0 /\ unread = FALSE
  /\ published \in Served
  /\ jwk_set = None /\ keys = {} /\ floor = 0
  /\ thread = [c \in Callers |-> Idle]

Handled(c) ==
  \/ allow(c) \/ get_signing_key(c) \/ FetchFails(c)
  \/ Unavailable(c) \/ verify_token(c) \/ authenticate(c)

Next ==
  \/ \E c \in Callers :
       \/ \E kid \in Signing : Post(c, kid)
       \/ Attempt(c) \/ Handled(c) \/ Unreadable(c) \/ CacheDown(c)
  \/ Rotate \/ Restart \/ Tick

Spec == Init /\ [][Next]_vars

\* A request that is being served is served to its end, and time goes on.
FairSpec == Spec /\ WF_vars(Tick) /\ \A c \in Callers : WF_vars(Handled(c))

-----------------------------------------------------------------------------
\* A token is turned away for want of its key only if a fetch made for that very
\* token failed or came without it, or B2CORE's last answer was no key set and is
\* kept: neither a rotation, nor a key set that is kept, nor the floor under
\* forced refreshes that other tokens have used up stands in its way before that.
\* (jwks.py get_signing_key: "the behaviour key rotation needs")
RefusedForCause == \A c \in Callers : At(c, "refused") => thread[c].missed

Lone(c, kid) ==
  /\ \A d \in Callers \ {c} : At(d, "idle")
  /\ At(c, "idle") \/ thread[c].kid = kid

\* Once the endpoint answers, the worker stays and a key stays published, a
\* client who keeps coming back with a good token under it gets in again and
\* again, whatever others have used up before: a refusal does not prolong the
\* next, whether it is the limiter's or the floor's.  (ratelimit.py: a window
\* that begins with its first call and is not renewed by the later ones)
RetryGetsIn ==
  \A c \in Callers : \A kid \in Signing :
    /\ <>[](kid \in published /\ Lone(c, kid))
    /\ <>[][\A d \in Callers : ~(FetchFails(d) \/ Unreadable(d) \/ Restart)]_vars
    /\ []<>At(c, "add")
    => []<>At(c, "resolved")
=============================================================================
