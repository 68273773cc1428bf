------------------------------ MODULE Registry ------------------------------
(***************************************************************************)
(* Merchants, the payment method each covers, and the wallets clients pay  *)
(* into (apps/merchants), as Finance's screens change them                 *)
(* (apps/finance/views.py).                                                *)
(*                                                                         *)
(* Those views lock nothing: a POST reads the row, decides, and saves what *)
(* it read.  Only archiving, restoring and removing re-read under a lock   *)
(* (merchants/lifecycle.py).  A full save writes every column back, and    *)
(* puts back a row that has been deleted meanwhile.  A merchant has one    *)
(* link here, to the one payment method there is.                          *)
(***************************************************************************)
CONSTANTS
  Merchants,
  Wallets,
  Owner,     \* the merchant whose link a wallet hangs from
  Numbers,   \* account numbers
  Staff,     \* Finance operators
  None

ASSUME RegistryAssumption ==
  /\ Owner \in [Wallets -> Merchants]
  /\ Merchants \cap Wallets = {}
  /\ None \notin Merchants \cup Wallets \cup Numbers

VARIABLES
  merchant,  \* Merchant rows
  link,      \* whether the merchant's link and its method are both switched on
  wallet,    \* Wallet rows
  desk       \* the POST each operator's view is in the middle of

registry == <<merchant, link, wallet, desk>>

MerchantRow == [is_active: BOOLEAN, archived: BOOLEAN]

WalletRow == [stage: {"new", "live", "deleted"}, number: Numbers \cup {None},
              is_active: BOOLEAN, archived: BOOLEAN]

\* copy: the instance the view loaded, and is going to save; stood: the holders
\* of the active slot its save has decided to stand down.
Idle == [step |-> "idle", of |-> None, copy |-> None, stood |-> {}]

Post == [step: {"loaded", "saving"}, of: Merchants, copy: MerchantRow, stood: {{}}]
   \cup [step: {"loaded", "saving"}, of: Wallets, copy: WalletRow,
         stood: SUBSET Wallets]

RegistryTypeOK ==
  /\ merchant \in [Merchants -> MerchantRow]
  /\ link \in [Merchants -> BOOLEAN]
  /\ wallet \in [Wallets -> WalletRow]
  /\ \A w \in Wallets : wallet[w].stage = "live" <=> wallet[w].number # None
  /\ desk \in [Staff -> Post \cup {Idle}]

RegistryInit ==
  /\ merchant = [m \in Merchants |-> [is_active |-> TRUE, archived |-> FALSE]]
  /\ link = [m \in Merchants |-> TRUE]
  /\ wallet = [w \in Wallets |-> [stage |-> "new", number |-> None,
                                  is_active |-> FALSE, archived |-> FALSE]]
  /\ desk = [s \in Staff |-> Idle]

-----------------------------------------------------------------------------
(***************************************************************************)
(* What the catalogue offers a depositing client (apps/portal/catalog.py). *)
(***************************************************************************)
Siblings(w) == {v \in Wallets \ {w} : Owner[v] = Owner[w] /\ wallet[v].stage = "live"}

ActiveSiblings(w) == {v \in Siblings(w) : wallet[v].is_active}

InForce(w) ==
  wallet[w].stage = "live" /\ wallet[w].is_active /\ ~ wallet[w].archived

Gone(w) == wallet[w].stage = "deleted" \/ wallet[w].archived

\* fault: an archived merchant is taken to be inactive
OfferableIfActive(m) == merchant[m].is_active /\ link[m]

Offerable(m) == merchant[m].is_active /\ ~ merchant[m].archived /\ link[m]

-----------------------------------------------------------------------------
(***************************************************************************)
(* Merchants and links.                                                    *)
(***************************************************************************)
Load(s, x, row) ==
  /\ desk[s] = Idle
  /\ desk' = [desk EXCEPT ![s] = [step |-> "loaded", of |-> x, copy |-> row,
                                  stood |-> {}]]
  /\ UNCHANGED <<merchant, link, wallet>>

Loaded(s, x) == desk[s].step = "loaded" /\ desk[s].of = x

Done(s) == desk' = [desk EXCEPT ![s] = Idle]

\* Refused by the form, or by the guard a view starts with.
GiveUp(s) ==
  /\ desk[s].step = "loaded"
  /\ Done(s)
  /\ UNCHANGED <<merchant, link, wallet>>

\* MerchantToggleView: the guard is on the copy, the write is one column.
ToggleMerchant(s, m) ==
  /\ Loaded(s, m)
  /\ ~ desk[s].copy.archived
  /\ merchant' = [merchant EXCEPT ![m].is_active = ~ desk[s].copy.is_active]
  /\ Done(s)
  /\ UNCHANGED <<link, wallet>>

\* MerchantUpdateView: the form has an is_active box; every column is written.
SaveMerchant(s, m, active) ==
  /\ Loaded(s, m)
  /\ merchant' = [merchant EXCEPT ![m] = [desk[s].copy EXCEPT !.is_active = active]]
  /\ Done(s)
  /\ UNCHANGED <<link, wallet>>

archive_merchant(m) ==
  /\ ~ merchant[m].archived
  /\ merchant' = [merchant EXCEPT ![m] = [is_active |-> FALSE, archived |-> TRUE]]
  /\ UNCHANGED <<link, wallet, desk>>

restore_merchant(m) ==
  /\ merchant[m].archived
  /\ merchant' = [merchant EXCEPT ![m].archived = FALSE]
  /\ UNCHANGED <<link, wallet, desk>>

\* MerchantMethodToggleView and PaymentMethodToggleView.
ToggleLink(m) ==
  /\ link' = [link EXCEPT ![m] = ~@]
  /\ UNCHANGED <<merchant, wallet, desk>>

-----------------------------------------------------------------------------
(***************************************************************************)
(* Wallets.  Wallet.save is a transaction of two statements: it stands     *)
(* down the active siblings it can see, then writes its row.  What commits *)
(* in between is not seen, and the partial unique index has the last word. *)
(***************************************************************************)
BeginSave(s, w, number, active) ==
  desk' = [desk EXCEPT ![s] =
    [step |-> "saving", of |-> w,
     copy |-> [desk[s].copy EXCEPT !.stage = "live", !.number = number,
                                   !.is_active = active],
     stood |-> IF active THEN ActiveSiblings(w) ELSE {}]]

\* WalletCreateView and WalletUpdateView; clean_number refuses a number another
\* wallet of the link has, archived ones included.
SaveWallet(s, w, number, active) ==
  /\ Loaded(s, w)
  /\ \A v \in Siblings(w) : wallet[v].number # number
  /\ BeginSave(s, w, number, active)
  /\ UNCHANGED <<merchant, link, wallet>>

\* WalletActivateView: refused only when it is the active one by now.
ActivateWallet(s, w) ==
  /\ Loaded(s, w)
  /\ desk[s].copy.stage = "live"
  /\ ~ wallet[w].is_active
  /\ BeginSave(s, w, desk[s].copy.number, TRUE)
  /\ UNCHANGED <<merchant, link, wallet>>

Written(s, w) ==
  [v \in Wallets |->
     IF v = w THEN desk[s].copy
     ELSE IF v \in desk[s].stood /\ wallet[v].stage = "live"
     THEN [wallet[v] EXCEPT !.is_active = FALSE]
     ELSE wallet[v]]

\* fault: there is no index, and save is trusted to stand everybody down
CommitUnindexed(s, w) ==
  /\ desk[s].step = "saving" /\ desk[s].of = w
  /\ wallet' = Written(s, w)
  /\ Done(s)
  /\ UNCHANGED <<merchant, link>>

\* one_active_wallet_per_merchant_method: a save that lost the race fails whole.
CommitWallet(s, w) ==
  /\ desk[s].step = "saving" /\ desk[s].of = w
  /\ wallet' = IF desk[s].copy.is_active /\ ~ ActiveSiblings(w) \subseteq desk[s].stood
               THEN wallet
               ELSE Written(s, w)
  /\ Done(s)
  /\ UNCHANGED <<merchant, link>>

\* WalletDeactivateView writes is_active alone, to a row that is still there.
DeactivateWallet(s, w) ==
  /\ Loaded(s, w)
  /\ desk[s].copy.is_active
  /\ wallet[w].stage = "live"
  /\ wallet' = [wallet EXCEPT ![w].is_active = FALSE]
  /\ Done(s)
  /\ UNCHANGED <<merchant, link>>

\* fault: an archived wallet gives its number up
RemoveAndClear(w, was_used) ==
  /\ wallet[w].stage = "live"
  /\ ~ wallet[w].archived
  /\ wallet' = [wallet EXCEPT ![w] =
       IF was_used
       THEN [@ EXCEPT !.archived = TRUE, !.is_active = FALSE, !.number = None]
       ELSE [@ EXCEPT !.stage = "deleted", !.is_active = FALSE, !.number = None]]
  /\ UNCHANGED <<merchant, link, desk>>

\* Deleted if nothing was ever submitted against it, archived otherwise.
remove_wallet(w, was_used) ==
  /\ wallet[w].stage = "live"
  /\ ~ wallet[w].archived
  /\ wallet' = [wallet EXCEPT ![w] =
       IF was_used THEN [@ EXCEPT !.archived = TRUE, !.is_active = FALSE]
       ELSE [@ EXCEPT !.stage = "deleted", !.is_active = FALSE, !.number = None]]
  /\ UNCHANGED <<merchant, link, desk>>

-----------------------------------------------------------------------------
\* Two operators creating wallets are creating two.
Free(w) ==
  CASE wallet[w].stage = "new" -> \A t \in Staff : desk[t].of # w
    [] wallet[w].stage = "live" -> TRUE
    [] OTHER -> FALSE

LoadAny(s) ==
  \/ \E m \in Merchants : Load(s, m, merchant[m])
  \/ \E w \in Wallets : Free(w) /\ Load(s, w, wallet[w])

MerchantStep(s, m) ==
  \/ ToggleMerchant(s, m)
  \/ \E active \in BOOLEAN : SaveMerchant(s, m, active)

WalletStep(s, w) ==
  \/ \E number \in Numbers, active \in BOOLEAN : SaveWallet(s, w, number, active)
  \/ ActivateWallet(s, w) \/ CommitWallet(s, w) \/ DeactivateWallet(s, w)

\* Everything Finance does to the registry but removing a wallet, which asks
\* the requests first.
RegistryNext ==
  \/ \E s \in Staff : LoadAny(s) \/ GiveUp(s)
  \/ \E s \in Staff, m \in Merchants : MerchantStep(s, m)
  \/ \E s \in Staff, w \in Wallets : WalletStep(s, w)
  \/ \E m \in Merchants : archive_merchant(m) \/ restore_merchant(m) \/ ToggleLink(m)

-----------------------------------------------------------------------------
\* A link never has two wallets accepting money, however many operators are
\* saving wallets of it at once (one_active_wallet_per_merchant_method).
OneActiveWallet ==
  \A w \in Wallets : wallet[w].stage = "live" /\ wallet[w].is_active
                       => ActiveSiblings(w) = {}

\* A wallet got rid of stays so: it is "deleted outright", or "archived, and gone
\* from every screen" (README, "Archiving, and the one thing that is really
\* deleted"), and no view brings one back.
RemovedWalletGone ==
  [][\A w \in Wallets : Gone(w) => Gone(w)']_registry
=============================================================================
