----------------------------- MODULE Submission -----------------------------
(***************************************************************************)
(* Deposits, from the wallet number on a client's screen to the row that   *)
(* names it (apps/portal/flow_views.py, submissions.py), while Finance     *)
(* changes the registry, and under the wallets' daily caps                 *)
(* (apps/merchants/capacity.py) for the length of one day.                 *)
(*                                                                         *)
(* build_draft reads the link, then the wallet, then the cap, in queries   *)
(* of their own outside any transaction, and whatever Finance commits in   *)
(* between is in force for what is still to be read; create_request        *)
(* measures the cap again, then writes and commits.                        *)
(***************************************************************************)
EXTENDS Registry, Integers, FiniteSetsExt

CONSTANTS
  Clients,   \* one screen, and the one deposit it files
  Totals,    \* dinar totals, in any unit
  DailyCap   \* a wallet's daily_cap, or None

ASSUME SubmissionAssumption ==
  /\ Totals \subseteq Nat \ {0}
  /\ DailyCap \in [Wallets -> Nat \cup {None}]

VARIABLES
  screen,   \* the wallet a client's screen shows, and its number
  request,  \* the form under way, the Draft, and the Request row it becomes
  shut      \* history: what has been gone ever since the client's form arrived

vars == <<registry, screen, request, shut>>

Shown == [wallet: Wallets \cup {None}, number: Numbers \cup {None}]

\* asking is the catalogue's answer under way; from sent to resolved it is
\* build_draft's, and shown is what the form was filled in against.
Deposit == [stage: {"absent", "asking", "sent", "linked", "resolved", "drafted",
                    "measured", "filed", "rejected"},
            merchant: Merchants \cup {None}, wallet: Wallets \cup {None},
            snapshot: Numbers \cup {None}, amount_iqd: Nat, shown: Shown]

\* The stages at which the form has been matched to a wallet.
Taken == {"resolved", "drafted", "measured", "filed", "rejected"}

Blank == [wallet |-> None, number |-> None]

Absent == [stage |-> "absent", merchant |-> None, wallet |-> None,
           snapshot |-> None, amount_iqd |-> 0, shown |-> Blank]

TypeOK ==
  /\ RegistryTypeOK
  /\ screen \in [Clients -> Shown]
  /\ request \in [Clients -> Deposit]
  /\ shut \in [Clients -> SUBSET {"merchant", "wallet"}]

Init ==
  /\ RegistryInit
  /\ screen = [c \in Clients |-> Blank]
  /\ request = [c \in Clients |-> Absent]
  /\ shut = [c \in Clients |-> {}]

-----------------------------------------------------------------------------
Rows == {c \in Clients : request[c].stage \in {"filed", "rejected"}}

\* Requests point at the wallet; was_used also asks by merchant and number.
was_used(w) ==
  \E c \in Rows : \/ request[c].wallet = w
                  \/ /\ request[c].snapshot = wallet[w].number
                     /\ Owner[request[c].wallet] = Owner[w]

\* Consumption follows the number on the instance in hand, not the wallet row;
\* a rejected request does not count.
consumed_iqd(w, number) ==
  MapThenSumSet(LAMBDA c : request[c].amount_iqd,
    {c \in Rows : /\ request[c].stage = "filed"
                  /\ Owner[request[c].wallet] = Owner[w]
                  /\ request[c].snapshot = number})

Accepts(w, number, total) ==
  DailyCap[w] # None => total + consumed_iqd(w, number) <= DailyCap[w]

-----------------------------------------------------------------------------
Named(c) == request[c].stage \notin {"absent", "asking"}

\* What the form names that cannot take it now.
GoneFor(c) ==
  {x \in {"merchant", "wallet"} :
     /\ Named(c)
     /\ CASE x = "merchant" -> merchant[request[c].merchant].archived
          [] x = "wallet" -> Gone(request[c].shown.wallet)}

Remember ==
  shut' = [c \in Clients |-> IF Named(c) THEN shut[c] \cap GoneFor(c)' ELSE GoneFor(c)']

Becomes(c, row) == request' = [request EXCEPT ![c] = row]

Moves(c, stage) == Becomes(c, [request[c] EXCEPT !.stage = stage])

\* _offerable_methods, of the merchant's one link.
Covered(m) == Offerable(m) /\ \E w \in Wallets : Owner[w] = m /\ InForce(w)

Show(c, w) ==
  screen' = [screen EXCEPT ![c] = [wallet |-> w, number |-> wallet[w].number]]

\* A choice is made, which takes the old wallet off the screen (resetAfter), and
\* OptionsView is asked, as deep as the wallet: the link is read first ...
AskOptions(c, m) ==
  /\ request[c].stage = "absent"
  /\ Covered(m)
  /\ Becomes(c, [Absent EXCEPT !.stage = "asking", !.merchant = m])
  /\ screen' = [screen EXCEPT ![c] = Blank]
  /\ UNCHANGED registry

\* ... and the wallet that is active by then, if there is one, goes on screen.
Options(c) ==
  /\ request[c].stage = "asking"
  /\ Becomes(c, Absent)
  /\ \/ \E w \in Wallets : Owner[w] = request[c].merchant /\ InForce(w) /\ Show(c, w)
     \/ /\ \A w \in Wallets : Owner[w] = request[c].merchant => ~ InForce(w)
        /\ UNCHANGED screen
  /\ UNCHANGED registry

Send(c) ==
  /\ request[c].stage = "absent"
  /\ screen[c].wallet # None
  /\ Becomes(c, [Absent EXCEPT !.stage = "sent", !.shown = screen[c],
                               !.merchant = Owner[screen[c].wallet]])
  /\ UNCHANGED <<registry, screen>>

\* resolve_method, resolve_merchant and resolve_link ask the same of the link;
\* the last of them decides.
ResolveLink(c) ==
  /\ request[c].stage = "sent"
  /\ IF Covered(request[c].merchant) THEN Moves(c, "linked") ELSE Becomes(c, Absent)
  /\ UNCHANGED <<registry, screen>>

HasRoom(w) == DailyCap[w] # None => consumed_iqd(w, wallet[w].number) < DailyCap[w]

\* resolve_wallet: the wallet in force by now has to be the one shown.
ResolveWallet(c, w) ==
  /\ request[c].stage = "linked"
  /\ Owner[w] = request[c].merchant /\ InForce(w) /\ HasRoom(w)
  /\ request[c].shown.wallet = w
  /\ Becomes(c, [request[c] EXCEPT !.stage = "resolved", !.wallet = w,
                                   !.snapshot = wallet[w].number])
  /\ UNCHANGED <<registry, screen>>

\* wallet_changed: the refusal carries the wallet in force, if it has room.
WalletChanged(c, w) ==
  /\ request[c].stage = "linked"
  /\ Owner[w] = request[c].merchant /\ InForce(w) /\ HasRoom(w)
  /\ request[c].shown.wallet # w
  /\ Becomes(c, Absent)
  /\ Show(c, w)
  /\ UNCHANGED registry

\* wallet_unavailable and wallet_cap_reached.
WalletRefused(c) ==
  /\ request[c].stage = "linked"
  /\ \A w \in Wallets : Owner[w] = request[c].merchant => ~ (InForce(w) /\ HasRoom(w))
  /\ Becomes(c, Absent)
  /\ UNCHANGED <<registry, screen>>

\* check_wallet_capacity, of the priced amount, and the draft is complete.
CheckCapacity(c, total) ==
  LET form == request[c] IN
  /\ form.stage = "resolved"
  /\ IF Accepts(form.wallet, form.snapshot, total)
     THEN Becomes(c, [form EXCEPT !.stage = "drafted", !.amount_iqd = total])
     ELSE Becomes(c, Absent)
  /\ UNCHANGED <<registry, screen>>

\* create_request begins: the cap is measured again, on the draft's instance.
Measure(c) ==
  LET draft == request[c] IN
  /\ draft.stage = "drafted"
  /\ IF Accepts(draft.wallet, draft.snapshot, draft.amount_iqd)
     THEN Moves(c, "measured") ELSE Becomes(c, Absent)
  /\ UNCHANGED <<registry, screen>>

\* ... and ends: the insert needs the wallet's row to be there.
Commit(c) ==
  /\ request[c].stage = "measured"
  /\ IF wallet[request[c].wallet].stage = "live"
     THEN Moves(c, "filed") ELSE Becomes(c, Absent)
  /\ UNCHANGED <<registry, screen>>

Reject(c) ==
  /\ request[c].stage = "filed"
  /\ Moves(c, "rejected")
  /\ UNCHANGED <<registry, screen>>

\* fault: removal only asks about requests that are still standing
RemoveStanding(w) ==
  /\ remove_wallet(w, \E c \in Clients : /\ request[c].stage = "filed"
                                         /\ request[c].wallet = w)
  /\ UNCHANGED <<screen, request>>

Remove(w) == remove_wallet(w, was_used(w)) /\ UNCHANGED <<screen, request>>

-----------------------------------------------------------------------------
ClientStep(c) ==
  \/ \E m \in Merchants : AskOptions(c, m)
  \/ Options(c) \/ Send(c) \/ ResolveLink(c) \/ WalletRefused(c)
  \/ \E w \in Wallets : ResolveWallet(c, w) \/ WalletChanged(c, w)
  \/ \E total \in Totals : CheckCapacity(c, total)
  \/ Measure(c) \/ Commit(c)

Next ==
  \/ RegistryNext /\ UNCHANGED <<screen, request>> /\ Remember
  \/ \E w \in Wallets : Remove(w) /\ Remember
  \/ \E c \in Clients : (ClientStep(c) \/ Reject(c)) /\ Remember

Spec == Init /\ [][Next]_vars

-----------------------------------------------------------------------------
\* Every deposit ever filed, a rejected one included, resolves to the wallet its
\* client was looking at when they sent the form, and that wallet's row is in
\* the database: whatever was activated, removed, put back or saved over from
\* an old copy around it (wallet_changed, Wallet.was_used).
DepositResolves ==
  \A c \in Rows : /\ request[c].wallet = request[c].shown.wallet
                  /\ wallet[request[c].wallet].stage = "live"

\* A merchant archived when a client's form arrives, and archived ever since,
\* takes no deposit from it, nor does a wallet archived or deleted all that
\* time, even where a save from an old copy has switched one on again
\* (catalog.py: "two conditions that must both hold").  One archived while the
\* form is being read may still take it: the reads are not one snapshot.
ArchivedTakesNoForm ==
  \A c \in Clients :
    request[c].stage \in Taken => shut[c] = {}

-----------------------------------------------------------------------------
\* "Storing the current one anyway would snapshot a wallet the client never
\* saw" (submissions.resolve_wallet); wallet_number_snapshot is the "number as
\* shown at submission time" (the specification, section 5).
SnapshotIsWhatWasShown ==
  \A c \in Rows : request[c].snapshot = request[c].shown.number

\* "Re-checked inside the transaction: ... two clients can fill the same wallet
\* in that gap" (create_request): no deposit is filed past the cap.
CapNeverExceeded ==
  \A w \in Wallets :
    DailyCap[w] # None => consumed_iqd(w, wallet[w].number) <= DailyCap[w]
=============================================================================
