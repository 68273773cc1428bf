------------------------------- MODULE Quotes -------------------------------
(***************************************************************************)
(* From a rate Finance sets to the dinar figure a client is held to:       *)
(* apps/rates, the client's screen (static/js/flow.js), resolve_quote and  *)
(* create_request (apps/portal/submissions.py), and correct_amount.        *)
(*                                                                         *)
(* The screen asks for its catalogue each time the client picks a          *)
(* direction.  An answer carries the rate in force when the server wrote   *)
(* it, arrives whenever it arrives, and is applied unconditionally.        *)
(***************************************************************************)
EXTENDS Pricing, Sequences

CONSTANTS
  Requests,   \* one screen, and the request it files
  Amounts,    \* cents a client or an operator may type
  Minimum,    \* bounds_for, in cents: one pair for each direction
  Maximum,
  Revisions,  \* the <<rate, commission>> pairs Finance may set
  Horizon,    \* bound: moments that are told apart
  MaxRates,   \* bound: rate revisions ever set
  None

ASSUME QuotesAssumption ==
  /\ Amounts \subseteq Nat \ {0}
  /\ Minimum \in [RequestType -> Nat]
  /\ Maximum \in [RequestType -> Nat]
  /\ Revisions \subseteq Nat \X Nat
  /\ Horizon \in Nat
  /\ MaxRates \in Nat
  /\ None \notin RequestType

VARIABLES
  now,
  rates,    \* every ExchangeRate row, by id: the table is append-only
  screen,   \* direction chosen, rate shown (0: none), answers on their way
  request   \* the Draft, and the row it becomes

vars == <<now, rates, screen, request>>

Moment == 0 .. Horizon

ExchangeRate == [rate_type: RequestType, iqd_per_usd: Nat, commission: Nat,
                 effective_from: Moment]

Screen == [type: RequestType \cup {None}, rate: Nat, coming: SUBSET Nat]

\* quoted and shown record what the client was looking at: the revision on the
\* screen, and the total the screen had worked out from it.
Row == [stage: {"absent", "drafted", "filed"}, type: RequestType,
        quoted: Nat, shown: Int, rate_applied: Nat, commission_rate_applied: Nat,
        amount_usd: Nat, amount_iqd: Int, commission_applied: Int,
        submitted_usd: Nat, submitted_iqd: Int]

Blank == [stage |-> "absent", type |-> "deposit", quoted |-> 0, shown |-> 0,
          rate_applied |-> 0, commission_rate_applied |-> 0, amount_usd |-> 0,
          amount_iqd |-> 0, commission_applied |-> 0, submitted_usd |-> 0,
          submitted_iqd |-> 0]

TypeOK ==
  /\ now \in Moment
  /\ rates \in Seq(ExchangeRate)
  /\ screen \in [Requests -> Screen]
  /\ request \in [Requests -> Row]

Init ==
  /\ now = 0
  /\ rates = << >>
  /\ screen = [r \in Requests |-> [type |-> None, rate |-> 0, coming |-> {}]]
  /\ request = [r \in Requests |-> Blank]

-----------------------------------------------------------------------------
(***************************************************************************)
(* Rates.  A revision may be dated ahead or back; the latest date not in   *)
(* the future governs, and the later row of two with the same date.        *)
(***************************************************************************)
Effective(type) ==
  {i \in DOMAIN rates : rates[i].rate_type = type /\ rates[i].effective_from <= now}

InForce(i, type) ==
  /\ i \in Effective(type)
  /\ \A j \in Effective(type) \ {i} :
       \/ rates[j].effective_from < rates[i].effective_from
       \/ rates[j].effective_from = rates[i].effective_from /\ j < i

Tick ==
  /\ now < Horizon
  /\ now' = now + 1
  /\ UNCHANGED <<rates, screen, request>>

SetRate(type, revision, from) ==
  /\ Len(rates) < MaxRates
  /\ rates' = Append(rates, [rate_type |-> type, iqd_per_usd |-> revision[1],
                             commission |-> revision[2], effective_from |-> from])
  /\ UNCHANGED <<now, screen, request>>

-----------------------------------------------------------------------------
(***************************************************************************)
(* The screen.  Choosing a direction blanks the rate and asks again; the   *)
(* load of the page asks for a deposit.  With no rate set the answer       *)
(* carries none and changes nothing here.                                  *)
(***************************************************************************)
Load(r) ==
  /\ screen[r].type = None
  /\ \E i \in DOMAIN rates :
       /\ InForce(i, "deposit")
       /\ screen' = [screen EXCEPT ![r].coming = @ \cup {i}]
  /\ UNCHANGED <<now, rates, request>>

Choose(r, type) ==
  /\ request[r].stage = "absent"
  /\ \E asked \in SUBSET DOMAIN rates :
       /\ asked = {i \in DOMAIN rates : InForce(i, type)}
       /\ screen' = [screen EXCEPT ![r] = [type |-> type, rate |-> 0,
                                           coming |-> screen[r].coming \cup asked]]
  /\ UNCHANGED <<now, rates, request>>

Arrive(r, i) ==
  /\ i \in screen[r].coming
  /\ screen' = [screen EXCEPT ![r].rate = i, ![r].coming = @ \ {i}]
  /\ UNCHANGED <<now, rates, request>>

-----------------------------------------------------------------------------
(***************************************************************************)
(* Submission.  The amount is checked against the direction's bounds, the  *)
(* rate against the one in force, and only then priced.                    *)
(***************************************************************************)
Acceptable(type, cents) == Minimum[type] <= cents /\ cents <= Maximum[type]

Quoted(r, i, cents) ==
  LET type == screen[r].type
      figures == price(rates[i].iqd_per_usd, rates[i].commission, cents, type)
      seen == rates[screen[r].rate]
  IN  [stage |-> "drafted", type |-> type, quoted |-> screen[r].rate,
       shown |-> ScreenTotal(seen.iqd_per_usd, seen.commission, cents,
                             CommissionSign(seen.rate_type)),
       rate_applied |-> rates[i].iqd_per_usd,
       commission_rate_applied |-> rates[i].commission,
       amount_usd |-> cents, amount_iqd |-> figures.total,
       commission_applied |-> figures.commission,
       submitted_usd |-> cents, submitted_iqd |-> figures.total]

Posted(r, cents) ==
  /\ request[r].stage = "absent"
  /\ screen[r].type # None
  /\ screen[r].rate # 0
  /\ Acceptable(screen[r].type, cents)

\* fault: any revision the client may have been shown will do
SubmitAtAny(r, cents) ==
  \E i \in DOMAIN rates :
    LET type == screen[r].type IN
    /\ Posted(r, cents)
    /\ InForce(i, type)
    /\ ~ Refused(rates[i].iqd_per_usd, rates[i].commission, cents, type)
    /\ request' = [request EXCEPT ![r] = Quoted(r, i, cents)]
    /\ UNCHANGED <<now, rates, screen>>

Submit(r, cents) ==
  \E i \in DOMAIN rates :
    LET type == screen[r].type IN
    /\ Posted(r, cents)
    /\ InForce(i, type)
    /\ screen[r].rate = i
    /\ ~ Refused(rates[i].iqd_per_usd, rates[i].commission, cents, type)
    /\ request' = [request EXCEPT ![r] = Quoted(r, i, cents)]
    /\ UNCHANGED <<now, rates, screen>>

\* fault: the refusal does not say what the rate has become
LookAgainBlind(r, cents) ==
  \E i \in DOMAIN rates :
    /\ Posted(r, cents)
    /\ InForce(i, screen[r].type)
    /\ screen[r].rate # i
    /\ UNCHANGED vars

\* rate_changed: the refusal carries the rate in force, and the screen shows it.
LookAgain(r, cents) ==
  \E i \in DOMAIN rates :
    /\ Posted(r, cents)
    /\ InForce(i, screen[r].type)
    /\ screen[r].rate # i
    /\ screen' = [screen EXCEPT ![r].rate = i]
    /\ UNCHANGED <<now, rates, request>>

CreateRequest(r) ==
  /\ request[r].stage = "drafted"
  /\ request' = [request EXCEPT ![r].stage = "filed"]
  /\ UNCHANGED <<now, rates, screen>>

-----------------------------------------------------------------------------
(***************************************************************************)
(* correct_amount's figures: the new amount at the rate and the commission *)
(* the request was quoted on, whatever the desk quotes now.                *)
(***************************************************************************)
Repriced(row, iqd_per_usd, commission, cents) ==
  LET figures == price(iqd_per_usd, commission, cents, row.type)
  IN  [row EXCEPT !.amount_usd = cents, !.amount_iqd = figures.total,
                  !.commission_applied = figures.commission]

\* fault: a correction is priced at the rate in force when it is made
CorrectAtCurrent(r, cents) ==
  LET row == request[r] IN
  /\ row.stage = "filed"
  /\ Acceptable(row.type, cents)
  /\ cents # row.amount_usd
  /\ \E i \in DOMAIN rates :
       /\ InForce(i, row.type)
       /\ ~ Refused(rates[i].iqd_per_usd, rates[i].commission, cents, row.type)
       /\ request' = [request EXCEPT ![r] =
            Repriced(row, rates[i].iqd_per_usd, rates[i].commission, cents)]
  /\ UNCHANGED <<now, rates, screen>>

\* fault: a correction is never refused for what it would pay
CorrectUnpaid(r, cents) ==
  LET row == request[r] IN
  /\ row.stage = "filed"
  /\ Acceptable(row.type, cents)
  /\ cents # row.amount_usd
  /\ request' = [request EXCEPT ![r] =
       Repriced(row, row.rate_applied, row.commission_rate_applied, cents)]
  /\ UNCHANGED <<now, rates, screen>>

\* fault: a correction that would pay nothing is stored without a figure
CorrectToNothing(r, cents) ==
  LET row == request[r] IN
  /\ row.stage = "filed"
  /\ Acceptable(row.type, cents)
  /\ cents # row.amount_usd
  /\ request' = [request EXCEPT ![r] =
       IF Refused(row.rate_applied, row.commission_rate_applied, cents, row.type)
       THEN [row EXCEPT !.amount_usd = cents, !.amount_iqd = None]
       ELSE Repriced(row, row.rate_applied, row.commission_rate_applied, cents)]
  /\ UNCHANGED <<now, rates, screen>>

\* fault: the figures first submitted move with the correction
CorrectSubmitted(r, cents) ==
  LET row == request[r] IN
  /\ row.stage = "filed"
  /\ Acceptable(row.type, cents)
  /\ cents # row.amount_usd
  /\ ~ Refused(row.rate_applied, row.commission_rate_applied, cents, row.type)
  /\ request' = [request EXCEPT ![r] =
       [Repriced(row, row.rate_applied, row.commission_rate_applied, cents)
          EXCEPT !.submitted_iqd = @ + TRANSFER_STEP]]
  /\ UNCHANGED <<now, rates, screen>>

CorrectAmount(r, cents) ==
  LET row == request[r] IN
  /\ row.stage = "filed"
  /\ Acceptable(row.type, cents)
  /\ cents # row.amount_usd
  /\ ~ Refused(row.rate_applied, row.commission_rate_applied, cents, row.type)
  /\ request' = [request EXCEPT ![r] =
       Repriced(row, row.rate_applied, row.commission_rate_applied, cents)]
  /\ UNCHANGED <<now, rates, screen>>

-----------------------------------------------------------------------------
ScreenStep(r) ==
  \/ Load(r)
  \/ \E type \in RequestType : Choose(r, type)
  \/ \E i \in screen[r].coming : Arrive(r, i)

Next ==
  \/ Tick
  \/ \E type \in RequestType, revision \in Revisions, from \in Moment :
       SetRate(type, revision, from)
  \/ \E r \in Requests : ScreenStep(r) \/ CreateRequest(r)
  \/ \E r \in Requests, cents \in Amounts :
       Submit(r, cents) \/ LookAgain(r, cents) \/ CorrectAmount(r, cents)

Spec == Init /\ [][Next]_vars

\* A client who has a figure on the screen keeps sending the form, with every
\* amount they might want, and a draft that passed is written.
Fairness ==
  \A r \in Requests :
    /\ WF_vars(CreateRequest(r))
    /\ \A cents \in Amounts :
         SF_vars(Submit(r, cents)) /\ SF_vars(LookAgain(r, cents))

FairSpec == Spec /\ Fairness

-----------------------------------------------------------------------------
(***************************************************************************)
(* Properties.                                                             *)
(***************************************************************************)
Filed(r) == request[r].stage = "filed"

\* A client is charged, or paid, exactly the total their own screen showed, at
\* a rate of their direction: however rates are dated, whichever answer was
\* late, and although the screen and the server round by different functions.
ChargedAsShown ==
  \A r \in Requests :
    Filed(r) => /\ request[r].submitted_iqd = request[r].shown
                /\ rates[request[r].quoted].rate_type = request[r].type

\* The receipt of a request adds up, before and after any correction: each
\* figure is the nearest to what the revision shown to the client says of the
\* amount, and the rounding is at most half a step.
FiguresReconcile ==
  \A r \in Requests :
    LET row == request[r]
        revision == rates[row.quoted]
    IN  Filed(r) =>
          Reconciles(Receipt(row.type, row.rate_applied, row.commission_applied,
                             row.amount_usd, row.amount_iqd),
                     revision.iqd_per_usd, revision.commission, row.amount_usd,
                     row.type)

\* No withdrawal pays less than one transfer step, whatever it is corrected to.
WithdrawalPays ==
  \A r \in Requests :
    Filed(r) /\ request[r].type = "withdrawal"
      => request[r].amount_iqd >= TRANSFER_STEP

\* What was agreed when a request was filed stays: its rate, its commission
\* rate, the figures submitted; and no revision a request may rest on changes.
AgreementKept ==
  [][/\ \A r \in Requests : Filed(r) =>
          \A f \in {"type", "quoted", "rate_applied", "commission_rate_applied",
                    "submitted_usd", "submitted_iqd"} :
            request'[r][f] = request[r][f]
     /\ \A i \in DOMAIN rates : i \in DOMAIN rates' /\ rates'[i] = rates[i]]_vars

\* A client who settles on a deposit with a figure on the screen files it in
\* the end, provided Finance has set a rate, however often it has moved under
\* them: every rate_changed leaves them one press away.
SettledClientFiles ==
  \A r \in Requests :
    <>[](/\ screen[r].type = "deposit" /\ screen[r].rate # 0
         /\ Effective("deposit") # {}) => <>Filed(r)

\* "a client who switches direction can never submit against the other one's
\* figures" (flow.js).
OwnDirectionOnScreen ==
  \A r \in Requests :
    request[r].stage = "absent" /\ screen[r].type # None /\ screen[r].rate # 0
      => rates[screen[r].rate].rate_type = screen[r].type
=============================================================================
