-------------------------- MODULE SubmissionProofs --------------------------
(***************************************************************************)
(* The safety properties of Submission, for any merchants, wallets, number *)
(* of operators and number of depositing clients, under any caps.          *)
(*                                                                         *)
(* The invariant they rest on: what a wallet view is about to save is the  *)
(* row of a wallet that exists, with a number; a deposit's wallet is the   *)
(* one its client was shown, from the moment build_draft matches the two;  *)
(* and the merchant, once its link has been read, and the wallet, once it  *)
(* has been, had not been gone ever since the form arrived.                *)
(***************************************************************************)
EXTENDS Submission, TLAPS

WalletPost == [step: {"loaded", "saving"}, of: Wallets, copy: WalletRow,
               stood: SUBSET Wallets]

MerchantPost == [step: {"loaded", "saving"}, of: Merchants, copy: MerchantRow,
                 stood: {{}}]

Numbered(row) == row.stage = "live" <=> row.number # None

CopiesSound ==
  \A s \in Staff : desk[s].of \in Wallets =>
    /\ Numbered(desk[s].copy)
    /\ desk[s].copy.stage # "deleted"
    /\ desk[s].step = "saving" => desk[s].copy.stage = "live"

RegistrySound == RegistryTypeOK /\ CopiesSound /\ OneActiveWallet

DepositsNamed ==
  \A c \in Clients :
    /\ request[c].stage # "absent" => request[c].merchant \in Merchants
    /\ Named(c) => request[c].shown.wallet \in Wallets
    /\ request[c].stage \in Taken => request[c].wallet = request[c].shown.wallet

\* What a form was let past had not been gone all the time.
StillOpen ==
  /\ \A c \in Clients : request[c].stage = "linked" => "merchant" \notin shut[c]
  /\ ArchivedTakesNoForm

Sound ==
  /\ RegistrySound
  /\ screen \in [Clients -> Shown]
  /\ request \in [Clients -> Deposit]
  /\ shut \in [Clients -> SUBSET {"merchant", "wallet"}]
  /\ DepositsNamed
  /\ DepositResolves
  /\ StillOpen

Assumptions == RegistryAssumption /\ SubmissionAssumption

-----------------------------------------------------------------------------
\* What is on an operator's desk, by the kind of row it is about.
LEMMA DeskOfWallet ==
  ASSUME Assumptions, RegistryTypeOK, NEW s \in Staff, desk[s].of \in Wallets
  PROVE  desk[s] \in WalletPost
BY DEF Assumptions, RegistryAssumption, RegistryTypeOK, Post, Idle, WalletPost

LEMMA DeskOfMerchant ==
  ASSUME Assumptions, RegistryTypeOK, NEW s \in Staff, desk[s].of \in Merchants
  PROVE  desk[s] \in MerchantPost
BY DEF Assumptions, RegistryAssumption, RegistryTypeOK, Post, Idle, MerchantPost

LEMMA PostsFit == WalletPost \cup MerchantPost \subseteq Post
BY DEF WalletPost, MerchantPost, Post

\* An idle desk is about no row.
LEMMA IdleOfNothing ==
  ASSUME Assumptions PROVE Idle.of \notin Wallets \cup Merchants
BY DEF Assumptions, RegistryAssumption, Idle

\* A step that leaves the wallets alone leaves their order alone.
LEMMA SameWallets ==
  ASSUME RegistrySound, UNCHANGED wallet,
         RegistryTypeOK', CopiesSound'
  PROVE  RegistrySound'
BY DEF RegistrySound, OneActiveWallet, ActiveSiblings, Siblings

\* Switching wallets off never gives a link a second active one.
LEMMA FewerActive ==
  ASSUME OneActiveWallet,
         \A w \in Wallets : wallet'[w].stage = "live" /\ wallet'[w].is_active
           => wallet[w].stage = "live" /\ wallet[w].is_active
  PROVE  OneActiveWallet'
BY DEF OneActiveWallet, ActiveSiblings, Siblings

-----------------------------------------------------------------------------
LEMMA InitSound == Assumptions /\ Init => Sound
<1> SUFFICES ASSUME Assumptions, Init PROVE Sound
  OBVIOUS
<1>1. RegistryTypeOK
  BY DEF Init, RegistryInit, RegistryTypeOK, MerchantRow, WalletRow
<1>2. CopiesSound
  BY IdleOfNothing DEF Init, RegistryInit, CopiesSound
<1>3. OneActiveWallet
  BY DEF Init, RegistryInit, OneActiveWallet
<1>4. /\ screen \in [Clients -> Shown] /\ request \in [Clients -> Deposit]
      /\ shut \in [Clients -> SUBSET {"merchant", "wallet"}]
  BY DEF Init, Blank, Absent, Shown, Deposit
<1>5. \A c \in Clients : request[c].stage = "absent"
  BY DEF Init, Absent
<1>6. DepositsNamed /\ DepositResolves /\ StillOpen
  BY <1>5 DEF DepositsNamed, DepositResolves, StillOpen, ArchivedTakesNoForm,
              Rows, Named, Taken
<1> QED
  BY <1>1, <1>2, <1>3, <1>4, <1>6 DEF Sound, RegistrySound

\* Freeing a desk.
LEMMA DoneKeeps ==
  ASSUME Assumptions, RegistrySound, NEW s \in Staff, Done(s)
  PROVE  desk' \in [Staff -> Post \cup {Idle}] /\ CopiesSound'
<1>1. desk \in [Staff -> Post \cup {Idle}]
  BY DEF RegistrySound, RegistryTypeOK
<1>2. desk' = [desk EXCEPT ![s] = Idle]
  BY DEF Done
<1>3. CopiesSound'
  BY <1>1, <1>2, IdleOfNothing DEF RegistrySound, CopiesSound, Numbered
<1> QED
  BY <1>1, <1>2, <1>3

\* Filling it, with a post that is fit to save.
LEMMA PostKeeps ==
  ASSUME Assumptions, RegistrySound, NEW s \in Staff, NEW post \in Post,
         desk' = [desk EXCEPT ![s] = post],
         post.of \in Wallets => /\ Numbered(post.copy)
                                /\ post.copy.stage # "deleted"
                                /\ post.step = "saving" => post.copy.stage = "live",
         UNCHANGED <<merchant, link, wallet>>
  PROVE  RegistrySound'
<1>1. desk \in [Staff -> Post \cup {Idle}] /\ RegistryTypeOK
  BY DEF RegistrySound, RegistryTypeOK
<1>2. RegistryTypeOK'
  BY <1>1 DEF RegistryTypeOK
<1>3. CopiesSound'
  BY <1>1 DEF RegistrySound, CopiesSound, Numbered
<1> QED
  BY <1>2, <1>3, SameWallets

LEMMA LoadKeeps ==
  ASSUME Assumptions, RegistrySound, NEW s \in Staff, LoadAny(s)
  PROVE  RegistrySound' /\ UNCHANGED wallet
<1>1. ASSUME NEW m \in Merchants, Load(s, m, merchant[m])
      PROVE RegistrySound' /\ UNCHANGED wallet
  <2> DEFINE post == [step |-> "loaded", of |-> m, copy |-> merchant[m], stood |-> {}]
  <2>1. post \in Post
    BY DEF RegistrySound, RegistryTypeOK, Post
  <2>2. desk' = [desk EXCEPT ![s] = post] /\ UNCHANGED <<merchant, link, wallet>>
    BY <1>1 DEF Load
  <2>3. post.of \notin Wallets
    BY DEF Assumptions, RegistryAssumption
  <2> HIDE DEF post
  <2> QED
    BY <2>1, <2>2, <2>3, PostKeeps
<1>2. ASSUME NEW w \in Wallets, Free(w), Load(s, w, wallet[w])
      PROVE RegistrySound' /\ UNCHANGED wallet
  <2> DEFINE post == [step |-> "loaded", of |-> w, copy |-> wallet[w], stood |-> {}]
  <2>1. post \in Post
    BY DEF RegistrySound, RegistryTypeOK, Post
  <2>2. desk' = [desk EXCEPT ![s] = post] /\ UNCHANGED <<merchant, link, wallet>>
    BY <1>2 DEF Load
  <2>3. /\ Numbered(post.copy) /\ post.copy.stage # "deleted"
        /\ post.step # "saving"
    BY <1>2 DEF Free, Numbered, RegistrySound, RegistryTypeOK
  <2> HIDE DEF post
  <2> QED
    BY <2>1, <2>2, <2>3, PostKeeps
<1> QED
  BY <1>1, <1>2 DEF LoadAny

-----------------------------------------------------------------------------
\* Merchants and links: no wallet is touched.
LEMMA MerchantsKeep ==
  ASSUME Assumptions, RegistrySound,
         \/ \E s \in Staff : GiveUp(s)
         \/ \E s \in Staff, m \in Merchants : MerchantStep(s, m)
         \/ \E m \in Merchants : \/ archive_merchant(m) \/ restore_merchant(m)
                                 \/ ToggleLink(m)
  PROVE  RegistrySound' /\ UNCHANGED wallet
<1> USE DEF RegistrySound, RegistryTypeOK
<1>1. ASSUME NEW s \in Staff, GiveUp(s) PROVE RegistrySound' /\ UNCHANGED wallet
  BY <1>1, DoneKeeps, SameWallets DEF GiveUp
<1>2. ASSUME NEW s \in Staff, NEW m \in Merchants, MerchantStep(s, m)
      PROVE  RegistrySound' /\ UNCHANGED wallet
  <2>1. desk[s] \in MerchantPost
    BY <1>2, DeskOfMerchant DEF MerchantStep, ToggleMerchant, SaveMerchant, Loaded
  <2>2. ToggleMerchant(s, m) => merchant' \in [Merchants -> MerchantRow]
    <3> DEFINE row == [merchant[m] EXCEPT !.is_active = ~ desk[s].copy.is_active]
    <3>1. row \in MerchantRow
      BY DEF MerchantRow
    <3>2. ToggleMerchant(s, m) => merchant' = [merchant EXCEPT ![m] = row]
      BY DEF ToggleMerchant
    <3> HIDE DEF row
    <3> QED
      BY <3>1, <3>2
  <2>3. ASSUME NEW active \in BOOLEAN, SaveMerchant(s, m, active)
        PROVE  merchant' \in [Merchants -> MerchantRow]
    <3> DEFINE row == [desk[s].copy EXCEPT !.is_active = active]
    <3>1. row \in MerchantRow
      BY <2>1 DEF MerchantPost, MerchantRow
    <3>2. merchant' = [merchant EXCEPT ![m] = row]
      BY <2>3 DEF SaveMerchant
    <3> HIDE DEF row
    <3> QED
      BY <3>1, <3>2
  <2>4. Done(s) /\ UNCHANGED <<link, wallet>>
    BY <1>2 DEF MerchantStep, ToggleMerchant, SaveMerchant
  <2>5. merchant' \in [Merchants -> MerchantRow]
    BY <1>2, <2>2, <2>3 DEF MerchantStep
  <2> QED
    BY <2>4, <2>5, DoneKeeps, SameWallets
<1>3. ASSUME NEW m \in Merchants,
             archive_merchant(m) \/ restore_merchant(m) \/ ToggleLink(m)
      PROVE  RegistrySound' /\ UNCHANGED wallet
  <2>1. /\ UNCHANGED <<wallet, desk>>
        /\ merchant' \in [Merchants -> MerchantRow]
        /\ link' \in [Merchants -> BOOLEAN]
    <3> DEFINE away == [is_active |-> FALSE, archived |-> TRUE]
               back == [merchant[m] EXCEPT !.archived = FALSE]
    <3>1. away \in MerchantRow /\ back \in MerchantRow
      BY DEF MerchantRow
    <3>2. CASE archive_merchant(m)
      <4>1. merchant' = [merchant EXCEPT ![m] = away] /\ UNCHANGED <<link, wallet, desk>>
        BY <3>2 DEF archive_merchant
      <4> QED
        BY <3>1, <4>1 DEF MerchantRow
    <3>3. CASE restore_merchant(m)
      <4>1. merchant' = [merchant EXCEPT ![m] = back] /\ UNCHANGED <<link, wallet, desk>>
        BY <3>3 DEF restore_merchant
      <4> HIDE DEF back
      <4> QED
        BY <3>1, <4>1
    <3>4. CASE ToggleLink(m)
      <4>1. link' = [link EXCEPT ![m] = ~ link[m]] /\ UNCHANGED <<merchant, wallet, desk>>
        BY <3>4 DEF ToggleLink
      <4> QED
        BY <4>1
    <3> QED
      BY <1>3, <3>2, <3>3, <3>4
  <2>2. CopiesSound'
    BY <2>1 DEF CopiesSound
  <2> QED
    BY <2>1, <2>2, SameWallets
<1> QED
  BY <1>1, <1>2, <1>3

-----------------------------------------------------------------------------
LiveStays == \A w \in Wallets : wallet[w].stage = "live" => wallet'[w].stage = "live"

\* A save that begins is fit to be written.
LEMMA BeginKeeps ==
  ASSUME Assumptions, RegistrySound, NEW s \in Staff, NEW w \in Wallets,
         desk[s].of = w, NEW number \in Numbers, NEW active \in BOOLEAN,
         BeginSave(s, w, number, active), UNCHANGED <<merchant, link, wallet>>
  PROVE  RegistrySound'
<1> DEFINE row == [desk[s].copy EXCEPT !.stage = "live", !.number = number,
                                       !.is_active = active]
           post == [step |-> "saving", of |-> w, copy |-> row,
                    stood |-> IF active THEN ActiveSiblings(w) ELSE {}]
<1>1. desk[s] \in WalletPost
  BY DeskOfWallet DEF RegistrySound
<1>2. row \in WalletRow /\ row.stage = "live" /\ row.number # None
  BY <1>1 DEF WalletPost, WalletRow, Assumptions, RegistryAssumption
<1>3. ActiveSiblings(w) \subseteq Wallets
  BY DEF ActiveSiblings, Siblings
<1>4. desk' = [desk EXCEPT ![s] = post]
  BY DEF BeginSave
<1> HIDE DEF row
<1>5. post \in Post
  BY <1>2, <1>3 DEF Post
<1>6. Numbered(post.copy) /\ post.copy.stage = "live"
  BY <1>2 DEF Numbered
<1> HIDE DEF post
<1> QED
  BY <1>4, <1>5, <1>6, PostKeeps

\* The save that commits: it wins the slot, or it fails whole.
LEMMA CommitKeeps ==
  ASSUME Assumptions, RegistrySound, NEW s \in Staff, NEW w \in Wallets,
         CommitWallet(s, w)
  PROVE  RegistrySound' /\ LiveStays
<1> DEFINE row == desk[s].copy
           stood == desk[s].stood
<1>1. desk[s] \in WalletPost
  BY DeskOfWallet DEF CommitWallet, RegistrySound
<1>2. row \in WalletRow /\ row.stage = "live" /\ Numbered(row)
  <2>1. desk[s].of \in Wallets /\ desk[s].step = "saving"
    BY DEF CommitWallet
  <2> QED
    BY <1>1, <2>1 DEF WalletPost, RegistrySound, CopiesSound
<1>3. /\ Done(s) /\ UNCHANGED <<merchant, link>>
      /\ wallet' = IF row.is_active /\ ~ ActiveSiblings(w) \subseteq stood
                   THEN wallet ELSE Written(s, w)
  BY DEF CommitWallet
<1>4. wallet \in [Wallets -> WalletRow] /\ \A v \in Wallets : Numbered(wallet[v])
  BY DEF RegistrySound, RegistryTypeOK, Numbered
<1>5. CASE wallet' = wallet
  <2>1. RegistryTypeOK' /\ CopiesSound'
    BY <1>3, <1>5, DoneKeeps DEF RegistrySound, RegistryTypeOK
  <2> QED
    BY <1>5, <2>1, SameWallets DEF LiveStays
<1>6. CASE /\ wallet' = Written(s, w)
           /\ row.is_active => ActiveSiblings(w) \subseteq stood
  <2>1. \A v \in Wallets : wallet'[v] =
          IF v = w THEN row
          ELSE IF v \in stood /\ wallet[v].stage = "live"
          THEN [wallet[v] EXCEPT !.is_active = FALSE]
          ELSE wallet[v]
    BY <1>6 DEF Written
  <2>2. \A v \in Wallets \ {w} :
          /\ wallet'[v] \in WalletRow
          /\ wallet'[v].stage = wallet[v].stage
          /\ wallet'[v].number = wallet[v].number
          /\ wallet'[v].is_active => wallet[v].is_active
          /\ wallet'[v].stage = "live" /\ wallet'[v].is_active => v \notin stood
    BY <1>4, <2>1 DEF WalletRow
  <2>3. wallet'[w] = row
    BY <2>1
  <2>4. LiveStays
    BY <1>2, <2>2, <2>3 DEF LiveStays
  <2>5. wallet' \in [Wallets -> WalletRow]
    <3>1. DOMAIN wallet' = Wallets /\ wallet' = [v \in Wallets |-> wallet'[v]]
      BY <1>6 DEF Written
    <3> QED
      BY <1>2, <2>2, <2>3, <3>1
  <2>6. \A v \in Wallets : Numbered(wallet'[v])
    BY <1>2, <1>4, <2>2, <2>3 DEF Numbered
  <2>7. RegistryTypeOK' /\ CopiesSound'
    BY <1>3, <2>5, <2>6, DoneKeeps DEF RegistrySound, RegistryTypeOK, Numbered
  <2>8. OneActiveWallet'
    <3> SUFFICES ASSUME NEW u \in Wallets, NEW v \in Wallets, u # v,
                        Owner[u] = Owner[v],
                        wallet'[u].stage = "live", wallet'[u].is_active,
                        wallet'[v].stage = "live", wallet'[v].is_active
                 PROVE  FALSE
      BY DEF OneActiveWallet, ActiveSiblings, Siblings
    <3>1. \A x, y \in Wallets :
            /\ x # y /\ Owner[x] = Owner[y]
            /\ wallet[x].stage = "live" /\ wallet[x].is_active
            /\ wallet[y].stage = "live" /\ wallet[y].is_active
            => FALSE
      BY DEF RegistrySound, OneActiveWallet, ActiveSiblings, Siblings
    <3>2. \A x \in Wallets \ {w} :
            ~ (/\ Owner[x] = Owner[w] /\ row.is_active
               /\ wallet'[x].stage = "live" /\ wallet'[x].is_active)
      BY <1>6, <2>2 DEF ActiveSiblings, Siblings
    <3>3. u # w /\ v # w
      BY <2>3, <3>2
    <3> QED
      BY <2>2, <3>1, <3>3
  <2> QED
    BY <2>4, <2>7, <2>8 DEF RegistrySound
<1> QED
  BY <1>3, <1>5, <1>6

LEMMA WalletsKeep ==
  ASSUME Assumptions, RegistrySound, NEW s \in Staff, NEW w \in Wallets,
         WalletStep(s, w)
  PROVE  RegistrySound' /\ LiveStays
<1>1. ASSUME NEW number \in Numbers, NEW active \in BOOLEAN,
             SaveWallet(s, w, number, active)
      PROVE  RegistrySound' /\ LiveStays
  BY <1>1, BeginKeeps DEF SaveWallet, Loaded, LiveStays
<1>2. CASE ActivateWallet(s, w)
  <2>1. desk[s] \in WalletPost
    BY <1>2, DeskOfWallet DEF ActivateWallet, Loaded, RegistrySound
  <2>2. Numbered(desk[s].copy) /\ desk[s].copy.stage = "live"
    BY <1>2 DEF ActivateWallet, Loaded, RegistrySound, CopiesSound
  <2>3. desk[s].copy.number \in Numbers
    BY <2>1, <2>2 DEF WalletPost, WalletRow, Numbered
  <2> QED
    BY <1>2, <2>3, BeginKeeps DEF ActivateWallet, Loaded, LiveStays
<1>3. CASE CommitWallet(s, w)
  BY <1>3, CommitKeeps
<1>4. CASE DeactivateWallet(s, w)
  <2> DEFINE row == [wallet[w] EXCEPT !.is_active = FALSE]
  <2>1. /\ Done(s) /\ UNCHANGED <<merchant, link>>
        /\ wallet' = [wallet EXCEPT ![w] = row]
    BY <1>4 DEF DeactivateWallet
  <2>2. /\ row \in WalletRow /\ row.stage = wallet[w].stage
        /\ row.number = wallet[w].number /\ ~ row.is_active
    BY DEF RegistrySound, RegistryTypeOK, WalletRow
  <2> HIDE DEF row
  <2>3. RegistryTypeOK' /\ CopiesSound'
    BY <2>1, <2>2, DoneKeeps DEF RegistrySound, RegistryTypeOK
  <2>4. OneActiveWallet'
    BY <2>1, <2>2, FewerActive DEF RegistrySound, RegistryTypeOK
  <2>5. LiveStays
    BY <2>1, <2>2 DEF RegistrySound, RegistryTypeOK, LiveStays
  <2> QED
    BY <2>3, <2>4, <2>5 DEF RegistrySound
<1> QED
  BY <1>1, <1>2, <1>3, <1>4 DEF WalletStep

LEMMA RemoveKeeps ==
  ASSUME Assumptions, RegistrySound, NEW w \in Wallets, NEW used \in BOOLEAN,
         remove_wallet(w, used)
  PROVE  /\ RegistrySound'
         /\ \A v \in Wallets : /\ wallet[v].stage = "live"
                               /\ v = w => used
                               => wallet'[v].stage = "live"
<1> DEFINE row == IF used THEN [wallet[w] EXCEPT !.archived = TRUE, !.is_active = FALSE]
                  ELSE [wallet[w] EXCEPT !.stage = "deleted", !.is_active = FALSE,
                                         !.number = None]
<1>1. wallet[w].stage = "live" /\ UNCHANGED <<merchant, link, desk>>
  BY DEF remove_wallet
<1>2. wallet' = [wallet EXCEPT ![w] = row]
  BY DEF remove_wallet
<1>3. /\ row \in WalletRow /\ ~ row.is_active
      /\ row.number = IF used THEN wallet[w].number ELSE None
      /\ row.stage = IF used THEN "live" ELSE "deleted"
  BY <1>1 DEF RegistrySound, RegistryTypeOK, WalletRow
<1> HIDE DEF row
<1>4. RegistryTypeOK'
  <2>1. wallet[w].number # None
    BY <1>1 DEF RegistrySound, RegistryTypeOK
  <2> QED
    BY <1>1, <1>2, <1>3, <2>1 DEF RegistrySound, RegistryTypeOK
<1>5. CopiesSound'
  BY <1>1 DEF RegistrySound, CopiesSound
<1>6. OneActiveWallet'
  BY <1>2, <1>3, FewerActive DEF RegistrySound, RegistryTypeOK
<1> QED
  BY <1>2, <1>3, <1>4, <1>5, <1>6 DEF RegistrySound, RegistryTypeOK

LEMMA RegistryKeeps ==
  ASSUME Assumptions, RegistrySound, RegistryNext
  PROVE  RegistrySound' /\ LiveStays
BY LoadKeeps, MerchantsKeep, WalletsKeep DEF RegistryNext, LiveStays

-----------------------------------------------------------------------------
\* The history only grows shorter while a form is under way, and keeps nothing
\* that is not gone.
LEMMA RememberKeeps ==
  ASSUME Sound, Remember
  PROVE  /\ shut' \in [Clients -> SUBSET {"merchant", "wallet"}]
         /\ \A c \in Clients : /\ shut'[c] \subseteq GoneFor(c)'
                               /\ Named(c) => shut'[c] \subseteq shut[c]
BY DEF Sound, Remember, GoneFor

\* What is gone for a form when the registry stands still.
LEMMA GoneForRow ==
  ASSUME UNCHANGED registry, NEW c \in Clients
  PROVE  /\ "merchant" \in GoneFor(c)' => merchant[request'[c].merchant].archived
         /\ "wallet" \in GoneFor(c)' => Gone(request'[c].shown.wallet)
BY DEF GoneFor, Gone, registry

\* The deposits, when the registry keeps the wallets that are there.
LEMMA DepositsKept ==
  ASSUME Sound, RegistrySound', UNCHANGED <<screen, request>>,
         Remember \/ UNCHANGED shut,
         \A c \in Rows : wallet'[request[c].wallet].stage = "live"
  PROVE  Sound'
<1>1. /\ shut' \in [Clients -> SUBSET {"merchant", "wallet"}]
      /\ \A c \in Clients : Named(c) => shut'[c] \subseteq shut[c]
  <2>1. CASE Remember
    BY <2>1, RememberKeeps
  <2>2. CASE UNCHANGED shut
    BY <2>2 DEF Sound
  <2> QED
    BY <2>1, <2>2
<1>2. StillOpen'
  BY <1>1 DEF Sound, StillOpen, ArchivedTakesNoForm, Named, Taken
<1>3. DepositsNamed' /\ DepositResolves'
  BY DEF Sound, DepositsNamed, DepositResolves, Rows, Named
<1> QED
  BY <1>1, <1>2, <1>3 DEF Sound

\* A client's row that is fit to take the old one's place.
Fit(c, row) ==
  /\ row \in Deposit
  /\ row.stage # "absent" => row.merchant \in Merchants
  /\ row.stage \notin {"absent", "asking"} => row.shown.wallet \in Wallets
  /\ row.stage \in Taken => row.wallet = row.shown.wallet
  /\ row.stage \in {"filed", "rejected"} => wallet[row.wallet].stage = "live"

\* A client's step, when the registry stands still.
LEMMA OneDeposit ==
  ASSUME Sound, UNCHANGED registry, NEW c \in Clients, NEW row, Fit(c, row),
         Becomes(c, row), screen' \in [Clients -> Shown], Remember,
         row.stage = "linked" => "merchant" \notin shut'[c],
         row.stage \in Taken => shut'[c] = {}
  PROVE  Sound'
<1>1. RegistrySound'
  BY SameWallets
     DEF Sound, RegistrySound, registry, RegistryTypeOK, CopiesSound
<1>2. /\ request' \in [Clients -> Deposit]
      /\ request'[c] = row
      /\ \A d \in Clients \ {c} : request'[d] = request[d]
  BY DEF Sound, Becomes, Fit
<1>3. /\ shut' \in [Clients -> SUBSET {"merchant", "wallet"}]
      /\ \A d \in Clients : Named(d) => shut'[d] \subseteq shut[d]
  BY RememberKeeps
<1>4. DepositsNamed'
  BY <1>2 DEF Sound, DepositsNamed, Named, Fit
<1>5. DepositResolves'
  <2> SUFFICES ASSUME NEW d \in Clients, request'[d].stage \in {"filed", "rejected"}
               PROVE  /\ request'[d].wallet = request'[d].shown.wallet
                      /\ wallet[request'[d].wallet].stage = "live"
    BY DEF DepositResolves, Rows, registry
  <2>1. CASE d = c
    BY <1>2, <2>1 DEF Fit, Taken
  <2>2. CASE d # c
    BY <1>2, <2>2 DEF Sound, DepositResolves, Rows
  <2> QED
    BY <2>1, <2>2
<1>6. StillOpen'
  BY <1>2, <1>3 DEF Sound, StillOpen, ArchivedTakesNoForm, Named, Taken
<1> QED
  BY <1>1, <1>2, <1>3, <1>4, <1>5, <1>6 DEF Sound

LEMMA NothingUnderWay == ASSUME NEW c PROVE Fit(c, Absent) /\ Absent.stage = "absent"
BY DEF Fit, Absent, Deposit, Shown, Blank, Taken

\* The form dropped, or answered, whatever is on screen then.
LEMMA Dropped ==
  ASSUME Sound, UNCHANGED registry, NEW c \in Clients, Becomes(c, Absent),
         screen' \in [Clients -> Shown], Remember
  PROVE  Sound'
BY NothingUnderWay, OneDeposit DEF Taken

\* The wallet a catalogue answer, or a refusal, puts on screen.
LEMMA OneScreen ==
  ASSUME Sound, NEW c \in Clients, NEW w \in Wallets, Show(c, w)
  PROVE  screen' \in [Clients -> Shown]
<1> DEFINE shown == [wallet |-> w, number |-> wallet[w].number]
<1>1. shown \in Shown
  BY DEF Shown, Sound, RegistrySound, RegistryTypeOK, WalletRow
<1>2. screen' = [screen EXCEPT ![c] = shown]
  BY DEF Show
<1> HIDE DEF shown
<1> QED
  BY <1>1, <1>2 DEF Sound

\* A form past build_draft's reads moves on with what it has.
LEMMA MovedOn ==
  ASSUME Sound, UNCHANGED <<registry, screen>>, NEW c \in Clients, Remember,
         request[c].stage \in Taken, NEW row \in Deposit, Becomes(c, row),
         row.stage \in Taken,
         row.merchant = request[c].merchant, row.wallet = request[c].wallet,
         row.shown = request[c].shown,
         row.stage \in {"filed", "rejected"} => wallet[row.wallet].stage = "live"
  PROVE  Sound'
<1>1. Named(c) /\ shut[c] = {} /\ request[c].stage # "absent"
  BY DEF Sound, StillOpen, ArchivedTakesNoForm, Taken, Named
<1>2. shut'[c] = {}
  BY <1>1, RememberKeeps
<1>3. Fit(c, row)
  BY <1>1 DEF Sound, DepositsNamed, Fit
<1>4. screen' \in [Clients -> Shown] /\ UNCHANGED registry
  BY DEF Sound
<1> QED
  BY <1>2, <1>3, <1>4, OneDeposit DEF Taken

LEMMA MovedTo ==
  ASSUME Sound, UNCHANGED <<registry, screen>>, NEW c \in Clients, Remember,
         request[c].stage \in Taken, NEW stage \in Taken, Moves(c, stage),
         stage \in {"filed", "rejected"} => wallet[request[c].wallet].stage = "live"
  PROVE  Sound'
<1> DEFINE row == [request[c] EXCEPT !.stage = stage]
<1>1. request[c] \in Deposit
  BY DEF Sound
<1>2. /\ row \in Deposit /\ row.stage = stage
      /\ row.merchant = request[c].merchant /\ row.wallet = request[c].wallet
      /\ row.shown = request[c].shown
  BY <1>1 DEF Deposit, Taken
<1>3. Becomes(c, row)
  BY DEF Moves
<1> HIDE DEF row
<1> QED
  BY <1>2, <1>3, MovedOn

LEMMA ClientsKeep ==
  ASSUME Assumptions, Sound, NEW c \in Clients, ClientStep(c) \/ Reject(c), Remember
  PROVE  Sound'
<1>0. /\ request[c] \in Deposit /\ screen \in [Clients -> Shown]
      /\ screen[c] \in Shown
      /\ request[c].stage # "absent" => request[c].merchant \in Merchants
      /\ Named(c) => request[c].shown.wallet \in Wallets
      /\ c \in Rows => wallet[request[c].wallet].stage = "live"
  BY DEF Sound, DepositsNamed, DepositResolves
<1>1. ASSUME NEW m \in Merchants, AskOptions(c, m) PROVE Sound'
  <2> DEFINE row == [Absent EXCEPT !.stage = "asking", !.merchant = m]
  <2>1. Fit(c, row) /\ row.stage = "asking"
    BY DEF Fit, Absent, Deposit, Shown, Blank, Taken
  <2>2. Becomes(c, row) /\ UNCHANGED registry /\ screen' \in [Clients -> Shown]
    BY <1>0, <1>1 DEF AskOptions, Shown, Blank
  <2> HIDE DEF row
  <2> QED
    BY <1>0, <2>1, <2>2, OneDeposit DEF Taken
<1>2. CASE Options(c)
  <2>1. Becomes(c, Absent) /\ UNCHANGED registry
    BY <1>2 DEF Options
  <2>2. screen' \in [Clients -> Shown]
    BY <1>0, <1>2, OneScreen DEF Options
  <2> QED
    BY <2>1, <2>2, Dropped
<1>3. CASE Send(c)
  <2> DEFINE row == [Absent EXCEPT !.stage = "sent", !.shown = screen[c],
                                   !.merchant = Owner[screen[c].wallet]]
  <2>1. screen[c].wallet \in Wallets /\ Owner[screen[c].wallet] \in Merchants
    BY <1>0, <1>3 DEF Send, Shown, Assumptions, RegistryAssumption
  <2>2. Fit(c, row) /\ row.stage = "sent"
    BY <1>0, <2>1 DEF Fit, Absent, Deposit, Taken
  <2>3. Becomes(c, row) /\ UNCHANGED <<registry, screen>>
    BY <1>3 DEF Send
  <2> HIDE DEF row
  <2> QED
    BY <1>0, <2>2, <2>3, OneDeposit DEF Taken
<1>4. CASE ResolveLink(c)
  <2> DEFINE row == [request[c] EXCEPT !.stage = "linked"]
  <2>1. UNCHANGED <<registry, screen>> /\ request[c].stage = "sent"
    BY <1>4 DEF ResolveLink
  <2>2. CASE Covered(request[c].merchant)
    <3>1. Becomes(c, row)
      BY <1>4, <2>2 DEF ResolveLink, Moves
    <3>2. /\ Fit(c, row) /\ row.stage = "linked"
          /\ row.merchant = request[c].merchant
      BY <1>0, <2>1 DEF Fit, Deposit, Named, Taken
    <3> HIDE DEF row
    <3>3. request'[c].merchant = request[c].merchant
      BY <3>1, <3>2 DEF Becomes, Sound
    <3>4. "merchant" \notin shut'[c]
      BY <2>1, <2>2, <3>3, GoneForRow, RememberKeeps DEF Covered, Offerable
    <3> QED
      BY <1>0, <2>1, <3>1, <3>2, <3>4, OneDeposit DEF Taken
  <2>3. CASE ~ Covered(request[c].merchant)
    BY <1>0, <1>4, <2>1, <2>3, Dropped DEF ResolveLink
  <2> QED
    BY <2>2, <2>3
<1>5. CASE WalletRefused(c)
  BY <1>0, <1>5, Dropped DEF WalletRefused
<1>6. ASSUME NEW w \in Wallets, ResolveWallet(c, w) PROVE Sound'
  <2> DEFINE row == [request[c] EXCEPT !.stage = "resolved", !.wallet = w,
                                       !.snapshot = wallet[w].number]
  <2>1. /\ UNCHANGED <<registry, screen>> /\ request[c].stage = "linked"
        /\ request[c].shown.wallet = w /\ InForce(w) /\ Becomes(c, row)
    BY <1>6 DEF ResolveWallet
  <2>2. wallet[w].number \in Numbers \cup {None}
    BY DEF Sound, RegistrySound, RegistryTypeOK, WalletRow
  <2>3. Fit(c, row) /\ row.stage = "resolved" /\ row.shown.wallet = w
    BY <1>0, <2>1, <2>2 DEF Fit, Deposit, Taken
  <2> HIDE DEF row
  <2>4. request'[c].shown.wallet = w
    BY <2>1, <2>3 DEF Becomes, Sound
  <2>5. "wallet" \notin shut'[c]
    BY <2>1, <2>4, GoneForRow, RememberKeeps DEF InForce, Gone
  <2>6. "merchant" \notin shut'[c]
    BY <2>1, RememberKeeps DEF Sound, StillOpen, Named
  <2>7. shut'[c] = {}
    BY <2>5, <2>6, RememberKeeps
  <2> QED
    BY <1>0, <2>1, <2>3, <2>7, OneDeposit
<1>7. ASSUME NEW w \in Wallets, WalletChanged(c, w) PROVE Sound'
  BY <1>7, OneScreen, Dropped DEF WalletChanged
<1>8. ASSUME NEW total \in Totals, CheckCapacity(c, total) PROVE Sound'
  <2> DEFINE row == [request[c] EXCEPT !.stage = "drafted", !.amount_iqd = total]
  <2>1. /\ UNCHANGED <<registry, screen>> /\ request[c].stage \in Taken
        /\ Becomes(c, row) \/ Becomes(c, Absent)
    BY <1>8 DEF CheckCapacity, Taken
  <2>2. total \in Nat
    BY DEF Assumptions, SubmissionAssumption
  <2>3. /\ row \in Deposit /\ row.stage = "drafted"
        /\ row.merchant = request[c].merchant /\ row.wallet = request[c].wallet
        /\ row.shown = request[c].shown
    BY <1>0, <2>2 DEF Deposit
  <2> HIDE DEF row
  <2>4. CASE Becomes(c, row)
    BY <2>1, <2>3, <2>4, MovedOn DEF Taken
  <2>5. CASE Becomes(c, Absent)
    BY <1>0, <2>1, <2>5, Dropped
  <2> QED
    BY <2>1, <2>4, <2>5
<1>9. CASE Measure(c)
  <2>1. /\ UNCHANGED <<registry, screen>> /\ request[c].stage \in Taken
        /\ Moves(c, "measured") \/ Becomes(c, Absent)
    BY <1>9 DEF Measure, Taken
  <2> QED
    BY <1>0, <2>1, MovedTo, Dropped DEF Taken
<1>10. CASE Commit(c)
  <2>1. /\ UNCHANGED <<registry, screen>> /\ request[c].stage \in Taken
        /\ \/ Moves(c, "filed") /\ wallet[request[c].wallet].stage = "live"
           \/ Becomes(c, Absent)
    BY <1>10 DEF Commit, Taken
  <2> QED
    BY <1>0, <2>1, MovedTo, Dropped DEF Taken
<1>11. CASE Reject(c)
  <2>1. /\ UNCHANGED <<registry, screen>> /\ c \in Rows
        /\ request[c].stage \in Taken /\ Moves(c, "rejected")
    BY <1>11 DEF Reject, Rows, Taken
  <2> QED
    BY <1>0, <2>1, MovedTo DEF Taken
<1> QED
  BY <1>1, <1>2, <1>3, <1>4, <1>5, <1>6, <1>7, <1>8, <1>9, <1>10, <1>11 DEF ClientStep

LEMMA NextKeeps == Assumptions /\ Sound /\ [Next]_vars => Sound'
<1> SUFFICES ASSUME Assumptions, Sound, [Next]_vars PROVE Sound'
  OBVIOUS
<1>1. CASE RegistryNext /\ UNCHANGED <<screen, request>> /\ Remember
  <2>1. RegistrySound' /\ LiveStays
    BY <1>1, RegistryKeeps DEF Sound
  <2>2. \A c \in Rows : wallet'[request[c].wallet].stage = "live"
    <3>1. \A c \in Rows : request[c].wallet \in Wallets
      BY DEF Sound, DepositsNamed, Rows, Named, Taken
    <3> QED
      BY <2>1, <3>1 DEF Sound, DepositResolves, LiveStays
  <2> QED
    BY <1>1, <2>1, <2>2, DepositsKept
<1>2. ASSUME NEW w \in Wallets, Remove(w), Remember PROVE Sound'
  <2>1. was_used(w) \in BOOLEAN /\ remove_wallet(w, was_used(w))
    BY <1>2 DEF Remove, was_used
  <2>2. /\ RegistrySound'
        /\ \A v \in Wallets : /\ wallet[v].stage = "live"
                              /\ v = w => was_used(w)
                              => wallet'[v].stage = "live"
    BY <2>1, RemoveKeeps DEF Sound
  <2>3. \A c \in Rows : request[c].wallet = w => was_used(w)
    BY DEF was_used
  <2>4. \A c \in Rows : wallet'[request[c].wallet].stage = "live"
    <3>1. \A c \in Rows : request[c].wallet \in Wallets
      BY DEF Sound, DepositsNamed, Rows, Named, Taken
    <3> QED
      BY <2>2, <2>3, <3>1 DEF Sound, DepositResolves
  <2> QED
    BY <1>2, <2>2, <2>4, DepositsKept DEF Remove
<1>3. ASSUME NEW c \in Clients, ClientStep(c) \/ Reject(c), Remember PROVE Sound'
  BY <1>3, ClientsKeep
<1>4. CASE UNCHANGED vars
  <2>1. RegistrySound'
    BY <1>4, SameWallets
       DEF vars, Sound, RegistrySound, registry, RegistryTypeOK, CopiesSound
  <2> QED
    BY <1>4, <2>1, DepositsKept DEF vars, registry, Sound, DepositResolves
<1> QED
  BY <1>1, <1>2, <1>3, <1>4 DEF Next

-----------------------------------------------------------------------------
\* The invariant holds in every state a run of the views can reach.
THEOREM SoundAlways == ASSUME Assumptions PROVE Spec => []Sound
<1>1. Init => Sound
  BY InitSound
<1>2. Sound /\ [Next]_vars => Sound'
  BY NextKeeps
<1> QED
  BY <1>1, <1>2, PTL DEF Spec

\* The rows, the posts on the operators' desks, the screens and the deposits
\* keep their types, and no wallet row is without a number.
THEOREM TypeCorrect == ASSUME Assumptions PROVE Spec => []TypeOK
<1>1. Sound => TypeOK
  BY DEF Sound, RegistrySound, TypeOK
<1> QED
  BY <1>1, SoundAlways, PTL

\* Of the wallets of a link at most one accepts money, for any number of
\* operators whose saves overlap.
THEOREM LinksHaveOneWallet == ASSUME Assumptions PROVE Spec => []OneActiveWallet
<1>1. Sound => OneActiveWallet
  BY DEF Sound, RegistrySound
<1> QED
  BY <1>1, SoundAlways, PTL

\* A filed deposit resolves to the wallet its client was shown.
THEOREM DepositsResolve == ASSUME Assumptions PROVE Spec => []DepositResolves
<1>1. Sound => DepositResolves
  BY DEF Sound
<1> QED
  BY <1>1, SoundAlways, PTL

\* A form is not let past a merchant or a wallet that has been gone at every
\* moment since the form arrived, for any number of operators and clients.
THEOREM ArchivesTakeNoForm == ASSUME Assumptions PROVE Spec => []ArchivedTakesNoForm
<1>1. Sound => ArchivedTakesNoForm
  BY DEF Sound, StillOpen
<1> QED
  BY <1>1, SoundAlways, PTL
=============================================================================
