---------------------------- MODULE QuotesProofs ----------------------------
(***************************************************************************)
(* The arithmetic of Pricing, for every rate, commission and amount, and   *)
(* on it the safety properties of Quotes, for any clients, amounts, bounds *)
(* and revisions, and any number of them.                                  *)
(*                                                                         *)
(* The products of an amount with a rate and with a commission are treated *)
(* as two arbitrary naturals; what is left is linear, and each rounding    *)
(* has a constant denominator.                                             *)
(***************************************************************************)
EXTENDS Quotes, TLAPS

-----------------------------------------------------------------------------
(***************************************************************************)
(* The roundings.                                                          *)
(***************************************************************************)

\* Rounding to the dinar is to a nearest one: a conversion's denominator.
LEMMA ConvertedNearest ==
  ASSUME NEW p \in Nat
  PROVE  /\ HalfUp(p, 10000) \in Nat
         /\ HalfUp(p, 10000) = MathRound(p, 10000)
         /\ Nearest(HalfUp(p, 10000), p, 10000)
  BY SMTT(30) DEF HalfUp, MathRound, Nearest, Magnitude

\* And a commission's.
LEMMA CommissionNearest ==
  ASSUME NEW p \in Nat
  PROVE  /\ HalfUp(p, 1000000) \in Nat
         /\ HalfUp(p, 1000000) = MathRound(p, 1000000)
         /\ Nearest(HalfUp(p, 1000000), p, 1000000)
  BY SMTT(30) DEF HalfUp, MathRound, Nearest, Magnitude

\* to_transfer_step lands on a whole step, at most half of one away.
LEMMA StepNearest ==
  ASSUME NEW x \in Int
  PROVE  /\ to_transfer_step(x) \in Int
         /\ to_transfer_step(x) % TRANSFER_STEP = 0
         /\ 2 * Magnitude(to_transfer_step(x) - x) <= TRANSFER_STEP
<1>1. CASE x >= 0
  BY <1>1, SMTT(30) DEF to_transfer_step, HalfUp, TRANSFER_STEP, Magnitude
<1>2. CASE x < 0
  BY <1>2, SMTT(30) DEF to_transfer_step, HalfUp, TRANSFER_STEP, Magnitude
<1> QED
  BY <1>1, <1>2

\* The two tie-breaking rules differ below zero only, where neither reaches one
\* step.
LEMMA StepScreen ==
  ASSUME NEW x \in Int
  PROVE  /\ MathRound(x, TRANSFER_STEP) * TRANSFER_STEP \in Int
         /\ to_transfer_step(x) >= TRANSFER_STEP \/ x >= 0
              => MathRound(x, TRANSFER_STEP) * TRANSFER_STEP = to_transfer_step(x)
         /\ MathRound(x, TRANSFER_STEP) * TRANSFER_STEP < TRANSFER_STEP
              <=> to_transfer_step(x) < TRANSFER_STEP
<1>1. CASE x >= 0
  BY <1>1, SMTT(30) DEF to_transfer_step, HalfUp, MathRound, TRANSFER_STEP
<1>2. CASE x < 0
  <2>1. to_transfer_step(x) < TRANSFER_STEP
    BY <1>2, SMTT(30) DEF to_transfer_step, HalfUp, TRANSFER_STEP
  <2>2. /\ MathRound(x, TRANSFER_STEP) * TRANSFER_STEP \in Int
        /\ MathRound(x, TRANSFER_STEP) * TRANSFER_STEP < TRANSFER_STEP
    BY <1>2, SMTT(30) DEF MathRound, TRANSFER_STEP
  <2>3. to_transfer_step(x) \in Int
    BY StepNearest
  <2> QED
    BY <1>2, <2>1, <2>2, <2>3 DEF TRANSFER_STEP
<1> QED
  BY <1>1, <1>2

\* The figures of price are integers.
LEMMA FiguresTyped ==
  ASSUME NEW rate \in Nat, NEW fee \in Nat, NEW cents \in Nat,
         NEW type \in RequestType
  PROVE  /\ Converted(rate, cents) \in Nat
         /\ Commission(fee, cents) \in Nat
         /\ Subtotal(rate, fee, cents, type) \in Int
         /\ price(rate, fee, cents, type).total \in Int
<1>1. cents * rate \in Nat /\ cents * fee \in Nat
  OBVIOUS
<1>2. Converted(rate, cents) \in Nat /\ Commission(fee, cents) \in Nat
  BY <1>1, ConvertedNearest, CommissionNearest DEF Converted, Commission
<1>3. Subtotal(rate, fee, cents, type) \in Int
  BY <1>2 DEF Subtotal
<1>4. price(rate, fee, cents, type).total \in Int
  BY <1>3, StepNearest DEF price
<1> QED
  BY <1>2, <1>3, <1>4

-----------------------------------------------------------------------------
(***************************************************************************)
(* What a quote is worth.                                                  *)
(***************************************************************************)

\* The four figures of any quote add up, each the nearest to what it is of, and
\* the rounding moves the total by at most half a step (pricing.price).
THEOREM PriceReconciles ==
  ASSUME NEW rate \in Nat, NEW fee \in Nat, NEW cents \in Nat,
         NEW type \in RequestType
  PROVE  Reconciles(price(rate, fee, cents, type), rate, fee, cents, type)
<1> DEFINE f == price(rate, fee, cents, type)
           sub == Subtotal(rate, fee, cents, type)
<1>1. cents * rate \in Nat /\ cents * fee \in Nat
  OBVIOUS
<1>2. Nearest(f.converted, cents * rate, 10000)
  BY <1>1, ConvertedNearest DEF price, Converted
<1>3. Nearest(f.commission, cents * fee, 1000000)
  BY <1>1, CommissionNearest DEF price, Commission
<1>4. /\ f.converted \in Nat /\ f.commission \in Nat /\ sub \in Int
      /\ f.total \in Int
  BY FiguresTyped DEF price
<1>5. sub = f.converted + CommissionSign(type) * f.commission
  BY <1>4 DEF Subtotal, CommissionSign, price
<1>6. CommissionSign(type) * f.commission \in Int
  BY <1>4 DEF CommissionSign
<1>7. f.rounding = f.total - sub /\ f.total = to_transfer_step(sub)
  BY DEF price
<1>8. /\ f.total % TRANSFER_STEP = 0
      /\ 2 * Magnitude(f.rounding) <= TRANSFER_STEP
  BY <1>4, <1>7, StepNearest
<1>9. f.total = f.converted + CommissionSign(type) * f.commission + f.rounding
  <2> DEFINE c == CommissionSign(type) * f.commission
  <2>1. f.total = sub + f.rounding
    BY <1>4, <1>7
  <2>2. sub = f.converted + c
    BY <1>5
  <2>3. f.rounding \in Int
    BY <1>4, <1>7
  <2> QED
    BY <2>1, <2>2
<1> QED
  BY <1>2, <1>3, <1>8, <1>9 DEF Reconciles

\* The screen and the server agree on every total that is not refused, although
\* one rounds with Math.round and the other away from zero (flow.js renderQuote).
THEOREM ScreenAgrees ==
  ASSUME NEW rate \in Nat, NEW fee \in Nat, NEW cents \in Nat,
         NEW type \in RequestType, ~ Refused(rate, fee, cents, type)
  PROVE  ScreenTotal(rate, fee, cents, CommissionSign(type))
           = price(rate, fee, cents, type).total
<1> DEFINE sub == Subtotal(rate, fee, cents, type)
           conv == Converted(rate, cents)
           com == Commission(fee, cents)
<1>1. cents * rate \in Nat /\ cents * fee \in Nat
  OBVIOUS
<1>2. /\ conv = MathRound(cents * rate, 10000)
      /\ com = MathRound(cents * fee, 1000000)
  BY <1>1, ConvertedNearest, CommissionNearest DEF Converted, Commission
<1>3. conv \in Nat /\ com \in Nat /\ sub \in Int
  BY FiguresTyped
<1>4. sub = conv + CommissionSign(type) * com
  BY <1>3 DEF Subtotal, CommissionSign
<1>5. to_transfer_step(sub) >= TRANSFER_STEP \/ sub >= 0
  <2>1. CASE type = "withdrawal"
    <3>1. to_transfer_step(sub) \in Int
      BY <1>3, StepNearest
    <3> QED
      BY <2>1, <3>1 DEF Refused, TRANSFER_STEP
  <2>2. CASE type # "withdrawal"
    BY <1>3, <2>2 DEF Subtotal
  <2> QED
    BY <2>1, <2>2
<1>6. MathRound(sub, TRANSFER_STEP) * TRANSFER_STEP = to_transfer_step(sub)
  BY <1>3, <1>5, StepScreen
<1>7. ScreenTotal(rate, fee, cents, CommissionSign(type))
        = MathRound(sub, TRANSFER_STEP) * TRANSFER_STEP
  BY <1>2, <1>4 DEF ScreenTotal
<1> QED
  BY <1>6, <1>7 DEF price

\* A withdrawal is refused exactly when the screen shows no total for it.
THEOREM RefusedIsUnshown ==
  ASSUME NEW rate \in Nat, NEW fee \in Nat, NEW cents \in Nat
  PROVE  Refused(rate, fee, cents, "withdrawal")
           <=> ScreenTotal(rate, fee, cents, CommissionSign("withdrawal")) < TRANSFER_STEP
<1> DEFINE sub == Subtotal(rate, fee, cents, "withdrawal")
           conv == Converted(rate, cents)
           com == Commission(fee, cents)
<1>1. cents * rate \in Nat /\ cents * fee \in Nat
  OBVIOUS
<1>2. /\ conv = MathRound(cents * rate, 10000)
      /\ com = MathRound(cents * fee, 1000000)
  BY <1>1, ConvertedNearest, CommissionNearest DEF Converted, Commission
<1>3. conv \in Nat /\ com \in Nat /\ sub \in Int
  BY FiguresTyped DEF RequestType
<1>4. sub = conv + CommissionSign("withdrawal") * com
  BY <1>3 DEF Subtotal, CommissionSign
<1>5. ScreenTotal(rate, fee, cents, CommissionSign("withdrawal"))
        = MathRound(sub, TRANSFER_STEP) * TRANSFER_STEP
  BY <1>2, <1>4 DEF ScreenTotal
<1> QED
  BY <1>3, <1>5, StepScreen DEF Refused

\* A payout that is not refused is at least one step.
THEOREM PayoutAtLeastAStep ==
  ASSUME NEW rate \in Nat, NEW fee \in Nat, NEW cents \in Nat,
         ~ Refused(rate, fee, cents, "withdrawal")
  PROVE  price(rate, fee, cents, "withdrawal").total >= TRANSFER_STEP
  BY FiguresTyped DEF Refused, price, TRANSFER_STEP, RequestType

\* Nothing is lost by storing three figures: the receipt gives back the quote.
THEOREM ReceiptIsTheQuote ==
  ASSUME NEW rate \in Nat, NEW fee \in Nat, NEW cents \in Nat,
         NEW type \in RequestType
  PROVE  Receipt(type, rate, price(rate, fee, cents, type).commission, cents,
                 price(rate, fee, cents, type).total) = price(rate, fee, cents, type)
  BY DEF Receipt, price, Subtotal

\* End to end: a total is within half a step and one dinar of what the amount is
\* exactly worth, the two roundings to the dinar included.
THEOREM TotalNearExact ==
  ASSUME NEW rate \in Nat, NEW fee \in Nat, NEW cents \in Nat,
         NEW type \in RequestType
  PROVE  2 * Magnitude(1000000 * price(rate, fee, cents, type).total
                         - Exact(rate, fee, cents, type))
           <= 1000000 * (TRANSFER_STEP + 2)
<1> DEFINE f == price(rate, fee, cents, type)
           sign == CommissionSign(type)
           p == cents * rate
           q == cents * fee
           c == f.converted
           m == f.commission
           round == f.rounding
<1>1. /\ p \in Nat /\ q \in Nat /\ c \in Nat /\ m \in Nat /\ round \in Int
  BY FiguresTyped DEF price
<1>2. /\ sign \in {-1, 1}
      /\ Exact(rate, fee, cents, type) = 100 * p + sign * q
  BY SMT DEF CommissionSign, Exact
<1>3. /\ Nearest(c, p, 10000) /\ Nearest(m, q, 1000000)
      /\ f.total = c + sign * m + round
      /\ 2 * Magnitude(round) <= TRANSFER_STEP
  BY PriceReconciles DEF Reconciles
<1> HIDE DEF p, q, c, m, round, sign
<1>4. 2 * Magnitude(1000000 * (c + sign * m + round) - (100 * p + sign * q))
        <= 1000000 * (TRANSFER_STEP + 2)
  <2>1. /\ 20000 * c - 2 * p <= 10000 /\ 2 * p - 20000 * c <= 10000
        /\ 2000000 * m - 2 * q <= 1000000 /\ 2 * q - 2000000 * m <= 1000000
        /\ 2 * round <= 1000 /\ -(2 * round) <= 1000
    BY <1>1, <1>3, SMTT(30) DEF Nearest, Magnitude, TRANSFER_STEP
  <2>2. CASE sign = 1
    BY <1>1, <2>1, <2>2, SMTT(30) DEF Magnitude, TRANSFER_STEP
  <2>3. CASE sign = -1
    BY <1>1, <2>1, <2>3, SMTT(30) DEF Magnitude, TRANSFER_STEP
  <2> QED
    BY <1>2, <2>2, <2>3
<1> QED
  BY <1>2, <1>3, <1>4, SMT

-----------------------------------------------------------------------------
(***************************************************************************)
(* The quotes.                                                             *)
(*                                                                         *)
(* The invariant they rest on: the screen only ever names revisions that   *)
(* exist, and every figure of a draft or of a row is price's, taken at the *)
(* revision the client was shown.                                          *)
(***************************************************************************)

QuotedRow(r) ==
  LET row == request[r]
      revision == rates[row.quoted]
  IN  /\ row.quoted \in DOMAIN rates
      /\ revision.rate_type = row.type
      /\ row.rate_applied = revision.iqd_per_usd
      /\ row.commission_rate_applied = revision.commission
      /\ row.submitted_iqd = row.shown

PricedRow(r) ==
  LET row == request[r]
      figures == price(row.rate_applied, row.commission_rate_applied,
                       row.amount_usd, row.type)
  IN  /\ row.amount_iqd = figures.total
      /\ row.commission_applied = figures.commission
      /\ ~ Refused(row.rate_applied, row.commission_rate_applied,
                   row.amount_usd, row.type)

Sound ==
  /\ TypeOK
  /\ \A r \in Requests : screen[r].rate # 0 => screen[r].rate \in DOMAIN rates
  /\ \A r \in Requests : screen[r].coming \subseteq DOMAIN rates
  /\ \A r \in Requests : request[r].stage # "absent" => QuotedRow(r)
  /\ \A r \in Requests : request[r].stage # "absent" => PricedRow(r)

-----------------------------------------------------------------------------
\* The initial state.
LEMMA InitSound == QuotesAssumption /\ Init => Sound
<1> SUFFICES ASSUME QuotesAssumption, Init PROVE Sound
  OBVIOUS
<1>1. TypeOK
  BY DEF TypeOK, Init, Moment, Screen, Row, Blank, RequestType, QuotesAssumption
<1>2. \A r \in Requests : /\ screen[r].rate = 0 /\ screen[r].coming = {}
                          /\ request[r].stage = "absent"
  BY DEF Init, Blank
<1> QED
  BY <1>1, <1>2 DEF Sound

\* A later revision leaves the ones before it where they were.
LEMMA AppendKeeps ==
  ASSUME NEW s \in Seq(ExchangeRate), NEW e \in ExchangeRate
  PROVE  /\ Append(s, e) \in Seq(ExchangeRate)
         /\ DOMAIN s \subseteq DOMAIN Append(s, e)
         /\ \A i \in DOMAIN s : Append(s, e)[i] = s[i]
  OBVIOUS

\* A row depends on the rates through its own revision only.
LEMMA RowsKept ==
  ASSUME Sound, DOMAIN rates \subseteq DOMAIN rates',
         \A i \in DOMAIN rates : rates'[i] = rates[i],
         NEW r \in Requests, request'[r] = request[r],
         request[r].stage # "absent"
  PROVE  QuotedRow(r)' /\ PricedRow(r)'
<1>1. QuotedRow(r) /\ PricedRow(r)
  BY DEF Sound
<1>2. QuotedRow(r)'
  BY <1>1 DEF QuotedRow
<1>3. PricedRow(r)'
  BY <1>1 DEF PricedRow
<1> QED
  BY <1>2, <1>3

\* The types of the figures a price puts in a row.
LEMMA PriceTyped ==
  ASSUME NEW rate \in Nat, NEW fee \in Nat, NEW cents \in Nat,
         NEW type \in RequestType
  PROVE  /\ price(rate, fee, cents, type).total \in Int
         /\ price(rate, fee, cents, type).commission \in Int
  BY FiguresTyped DEF price

-----------------------------------------------------------------------------
\* Steps that leave the requests alone.
LEMMA ScreenSound ==
  ASSUME Sound, UNCHANGED <<rates, request>>, now' \in Moment,
         screen' \in [Requests -> Screen],
         \A r \in Requests : screen'[r].rate # 0 => screen'[r].rate \in DOMAIN rates,
         \A r \in Requests : screen'[r].coming \subseteq DOMAIN rates
  PROVE  Sound'
<1>1. TypeOK'
  BY DEF Sound, TypeOK
<1>2. \A r \in Requests : request'[r].stage # "absent" => QuotedRow(r)' /\ PricedRow(r)'
  BY RowsKept
<1> QED
  BY <1>1, <1>2 DEF Sound

\* Steps of the desk's clock and rate table.
LEMMA RatesSound ==
  ASSUME QuotesAssumption, Sound,
         \/ Tick
         \/ \E type \in RequestType, revision \in Revisions, from \in Moment :
              SetRate(type, revision, from)
  PROVE  Sound'
<1>1. CASE Tick
  <2>1. now' \in Moment /\ UNCHANGED <<rates, screen, request>>
    BY <1>1 DEF Tick, Sound, TypeOK, Moment, QuotesAssumption
  <2> QED
    BY <2>1, ScreenSound DEF Sound, TypeOK
<1>2. ASSUME NEW type \in RequestType, NEW revision \in Revisions,
             NEW from \in Moment, SetRate(type, revision, from)
      PROVE  Sound'
  <2> DEFINE e == [rate_type |-> type, iqd_per_usd |-> revision[1],
                   commission |-> revision[2], effective_from |-> from]
  <2>1. e \in ExchangeRate
    BY DEF QuotesAssumption, ExchangeRate
  <2>2. rates' = Append(rates, e) /\ UNCHANGED <<now, screen, request>>
    BY <1>2 DEF SetRate
  <2>3. rates \in Seq(ExchangeRate)
    BY DEF Sound, TypeOK
  <2>4. /\ rates' \in Seq(ExchangeRate)
        /\ DOMAIN rates \subseteq DOMAIN rates'
        /\ \A i \in DOMAIN rates : rates'[i] = rates[i]
    BY <2>1, <2>2, <2>3, AppendKeeps
  <2>5. TypeOK'
    BY <2>2, <2>4 DEF Sound, TypeOK
  <2>6. \A r \in Requests :
          request'[r].stage # "absent" => QuotedRow(r)' /\ PricedRow(r)'
    BY <2>2, <2>4, RowsKept
  <2>7. \A r \in Requests :
          /\ screen'[r].rate # 0 => screen'[r].rate \in DOMAIN rates'
          /\ screen'[r].coming \subseteq DOMAIN rates'
    BY <2>2, <2>4 DEF Sound
  <2> QED
    BY <2>5, <2>6, <2>7 DEF Sound
<1> QED
  BY <1>1, <1>2

\* Ids of revisions are natural numbers.
LEMMA IdsAreNat == ASSUME TypeOK PROVE DOMAIN rates \subseteq Nat \ {0}
  BY DEF TypeOK

\* Steps of the screen, late answers included.
LEMMA ScreenStepSound ==
  ASSUME Sound, NEW r \in Requests,
         ScreenStep(r) \/ \E cents \in Amounts : LookAgain(r, cents)
  PROVE  Sound'
<1>1. /\ screen \in [Requests -> Screen] /\ DOMAIN rates \subseteq Nat
      /\ now \in Moment
  BY IdsAreNat DEF Sound, TypeOK
<1>2. ASSUME Load(r) PROVE Sound'
  <2>1. PICK i \in DOMAIN rates :
          screen' = [screen EXCEPT ![r].coming = @ \cup {i}]
    BY <1>2 DEF Load
  <2>2. screen' \in [Requests -> Screen]
    BY <1>1, <2>1 DEF Screen
  <2>3. \A q \in Requests : /\ screen'[q].rate = screen[q].rate
                            /\ screen'[q].coming \subseteq screen[q].coming \cup {i}
    BY <1>1, <2>1 DEF Screen
  <2>4. UNCHANGED <<now, rates, request>>
    BY <1>2 DEF Load
  <2> QED
    BY <1>1, <2>2, <2>3, <2>4, ScreenSound DEF Sound
<1>3. ASSUME NEW type \in RequestType, Choose(r, type) PROVE Sound'
  <2>1. PICK asked \in SUBSET DOMAIN rates :
          screen' = [screen EXCEPT ![r] = [type |-> type, rate |-> 0,
                                           coming |-> screen[r].coming \cup asked]]
    BY <1>3 DEF Choose
  <2>2. screen' \in [Requests -> Screen]
    BY <1>1, <2>1 DEF Screen
  <2>3. \A q \in Requests : /\ screen'[q].rate \in {0, screen[q].rate}
                            /\ screen'[q].coming \subseteq screen[q].coming \cup asked
    BY <1>1, <2>1 DEF Screen
  <2>4. UNCHANGED <<now, rates, request>>
    BY <1>3 DEF Choose
  <2> QED
    BY <1>1, <2>2, <2>3, <2>4, ScreenSound DEF Sound
<1>4. ASSUME NEW i \in screen[r].coming, Arrive(r, i) PROVE Sound'
  <2>1. screen' = [screen EXCEPT ![r].rate = i, ![r].coming = @ \ {i}]
    BY <1>4 DEF Arrive
  <2>2. i \in DOMAIN rates
    BY DEF Sound
  <2>3. screen' \in [Requests -> Screen]
    BY <1>1, <2>1, <2>2 DEF Screen
  <2>4. \A q \in Requests : /\ screen'[q].rate \in {i, screen[q].rate}
                            /\ screen'[q].coming \subseteq screen[q].coming
    BY <1>1, <2>1 DEF Screen
  <2>5. UNCHANGED <<now, rates, request>>
    BY <1>4 DEF Arrive
  <2> QED
    BY <1>1, <2>2, <2>3, <2>4, <2>5, ScreenSound DEF Sound
<1>5. ASSUME NEW cents \in Amounts, LookAgain(r, cents) PROVE Sound'
  <2>1. PICK i \in DOMAIN rates : screen' = [screen EXCEPT ![r].rate = i]
    BY <1>5 DEF LookAgain
  <2>2. screen' \in [Requests -> Screen]
    BY <1>1, <2>1 DEF Screen
  <2>3. \A q \in Requests : /\ screen'[q].rate \in {i, screen[q].rate}
                            /\ screen'[q].coming = screen[q].coming
    BY <1>1, <2>1 DEF Screen
  <2>4. UNCHANGED <<now, rates, request>>
    BY <1>5 DEF LookAgain
  <2> QED
    BY <1>1, <2>2, <2>3, <2>4, ScreenSound DEF Sound
<1> QED
  BY <1>2, <1>3, <1>4, <1>5 DEF ScreenStep

-----------------------------------------------------------------------------
\* Steps that write one request.
LEMMA RequestSound ==
  ASSUME Sound, UNCHANGED <<now, rates, screen>>, NEW r \in Requests,
         NEW new \in Row, request' = [request EXCEPT ![r] = new],
         new.stage # "absent" => QuotedRow(r)' /\ PricedRow(r)'
  PROVE  Sound'
<1>1. TypeOK'
  BY DEF Sound, TypeOK
<1>2. request'[r] = new /\ \A q \in Requests \ {r} : request'[q] = request[q]
  BY DEF Sound, TypeOK
<1>3. \A q \in Requests :
        request'[q].stage # "absent" => QuotedRow(q)' /\ PricedRow(q)'
  BY <1>2, RowsKept
<1> QED
  BY <1>1, <1>3 DEF Sound

\* An accepted submission: the draft is priced at the revision on the screen.
LEMMA SubmitSound ==
  ASSUME QuotesAssumption, Sound, NEW r \in Requests, NEW cents \in Amounts,
         Submit(r, cents)
  PROVE  Sound'
<1> DEFINE type == screen[r].type
<1>1. PICK i \in DOMAIN rates :
        /\ Posted(r, cents) /\ InForce(i, type) /\ screen[r].rate = i
        /\ ~ Refused(rates[i].iqd_per_usd, rates[i].commission, cents, type)
        /\ request' = [request EXCEPT ![r] = Quoted(r, i, cents)]
        /\ UNCHANGED <<now, rates, screen>>
  BY DEF Submit
<1> DEFINE new == Quoted(r, i, cents)
           rate == rates[i].iqd_per_usd
           fee == rates[i].commission
<1>2. /\ rates[i].rate_type = type /\ type \in RequestType
      /\ rate \in Nat /\ fee \in Nat /\ cents \in Nat /\ i \in Nat
  <2>1. rates[i] \in ExchangeRate /\ i \in Nat
    BY IdsAreNat DEF Sound, TypeOK
  <2>2. rates[i].rate_type = type
    BY <1>1 DEF InForce, Effective
  <2>3. cents \in Nat
    BY DEF QuotesAssumption
  <2> QED
    BY <2>1, <2>2, <2>3 DEF ExchangeRate
<1>3. /\ price(rate, fee, cents, type).total \in Int
      /\ price(rate, fee, cents, type).commission \in Int
  BY <1>2, PriceTyped
<1>4. ScreenTotal(rate, fee, cents, CommissionSign(rates[i].rate_type))
        = price(rate, fee, cents, type).total
  BY <1>1, <1>2, ScreenAgrees
<1> DEFINE total == price(rate, fee, cents, type).total
           commission == price(rate, fee, cents, type).commission
<1>5. new = [stage |-> "drafted", type |-> type, quoted |-> i, shown |-> total,
             rate_applied |-> rate, commission_rate_applied |-> fee,
             amount_usd |-> cents, amount_iqd |-> total,
             commission_applied |-> commission,
             submitted_usd |-> cents, submitted_iqd |-> total]
  BY <1>1, <1>4 DEF Quoted
<1>6. new \in Row
  <2> HIDE DEF total, commission, rate, fee, type, new
  <2>1. total \in Int /\ commission \in Int
    BY <1>3 DEF total, commission
  <2> QED
    BY <1>2, <1>5, <2>1 DEF Row
<1>7. request'[r] = new
  BY <1>1 DEF Sound, TypeOK
<1>8. QuotedRow(r)'
  BY <1>1, <1>2, <1>5, <1>7 DEF QuotedRow
<1>9. PricedRow(r)'
  BY <1>1, <1>2, <1>5, <1>7 DEF PricedRow
<1> HIDE DEF new
<1> QED
  BY <1>1, <1>6, <1>8, <1>9, RequestSound DEF new

\* The draft is written as it was priced.
LEMMA CreateSound ==
  ASSUME Sound, NEW r \in Requests, CreateRequest(r)
  PROVE  Sound'
<1> DEFINE new == [request[r] EXCEPT !.stage = "filed"]
<1>1. request[r] \in Row /\ request[r].stage = "drafted"
  BY DEF Sound, TypeOK, CreateRequest
<1>2. new \in Row
  BY <1>1 DEF Row
<1>3. request' = [request EXCEPT ![r] = new] /\ UNCHANGED <<now, rates, screen>>
  BY DEF CreateRequest
<1>4. request'[r] = new
  BY <1>3 DEF Sound, TypeOK
<1>5. QuotedRow(r) /\ PricedRow(r)
  BY <1>1 DEF Sound
<1>6. QuotedRow(r)'
  BY <1>1, <1>3, <1>4, <1>5 DEF QuotedRow, Row
<1>7. PricedRow(r)'
  BY <1>1, <1>3, <1>4, <1>5 DEF PricedRow, Row
<1> HIDE DEF new
<1> QED
  BY <1>2, <1>3, <1>6, <1>7, RequestSound

\* A correction: repriced at the revision the client was shown.
LEMMA CorrectSound ==
  ASSUME QuotesAssumption, Sound, NEW r \in Requests, NEW cents \in Amounts,
         CorrectAmount(r, cents)
  PROVE  Sound'
<1> DEFINE row == request[r]
           rate == row.rate_applied
           fee == row.commission_rate_applied
           new == Repriced(row, rate, fee, cents)
<1>1. /\ row.stage = "filed" /\ ~ Refused(rate, fee, cents, row.type)
      /\ request' = [request EXCEPT ![r] = new]
      /\ UNCHANGED <<now, rates, screen>>
  BY DEF CorrectAmount
<1>2. row \in Row /\ cents \in Nat
  BY DEF Sound, TypeOK, QuotesAssumption
<1>3. rate \in Nat /\ fee \in Nat /\ row.type \in RequestType
  BY <1>2 DEF Row
<1> DEFINE total == price(rate, fee, cents, row.type).total
           commission == price(rate, fee, cents, row.type).commission
<1>4. total \in Int /\ commission \in Int
  BY <1>2, <1>3, PriceTyped
<1>5. new = [row EXCEPT !.amount_usd = cents, !.amount_iqd = total,
                        !.commission_applied = commission]
  BY DEF Repriced
<1>6. new \in Row
  <2> HIDE DEF total, commission, new, row
  <2> QED
    BY <1>2, <1>4, <1>5 DEF Row
<1>7. request'[r] = new
  BY <1>1 DEF Sound, TypeOK
<1>8. QuotedRow(r)
  BY <1>1 DEF Sound
<1>9. QuotedRow(r)'
  BY <1>1, <1>2, <1>5, <1>7, <1>8 DEF QuotedRow, Row
<1>10. PricedRow(r)'
  <2>1. /\ request'[r].rate_applied = rate
        /\ request'[r].commission_rate_applied = fee
        /\ request'[r].amount_usd = cents /\ request'[r].type = row.type
        /\ request'[r].amount_iqd = total
        /\ request'[r].commission_applied = commission
    BY <1>2, <1>5, <1>7 DEF Row
  <2> HIDE DEF new
  <2> QED
    BY <1>1, <2>1 DEF PricedRow
<1> HIDE DEF new
<1> QED
  BY <1>1, <1>6, <1>9, <1>10, RequestSound

\* Sound is inductive.
LEMMA StepSound == QuotesAssumption /\ Sound /\ [Next]_vars => Sound'
<1> SUFFICES ASSUME QuotesAssumption, Sound, [Next]_vars PROVE Sound'
  OBVIOUS
<1>1. CASE UNCHANGED vars
  BY <1>1, ScreenSound DEF vars, Sound, TypeOK
<1>2. CASE Next
  BY <1>2, RatesSound, ScreenStepSound, SubmitSound, CreateSound, CorrectSound
     DEF Next
<1> QED
  BY <1>1, <1>2

-----------------------------------------------------------------------------
(***************************************************************************)
(* The theorems.                                                           *)
(***************************************************************************)

\* Every reachable state is sound: every stored figure is price's.
THEOREM SoundAlways == ASSUME QuotesAssumption PROVE Spec => []Sound
<1>1. Init => Sound
  BY InitSound
<1>2. Sound /\ [Next]_vars => Sound'
  BY StepSound
<1> QED
  BY <1>1, <1>2, PTL DEF Spec

\* Type correctness.
THEOREM TypeCorrect == ASSUME QuotesAssumption PROVE Spec => []TypeOK
<1>1. Sound => TypeOK
  BY DEF Sound
<1> QED
  BY <1>1, SoundAlways, PTL

\* Clients are charged the total their screen showed, whatever the rate.
THEOREM ChargedWhatWasShown ==
  ASSUME QuotesAssumption PROVE Spec => []ChargedAsShown
<1>1. Sound => ChargedAsShown
  BY DEF Sound, ChargedAsShown, QuotedRow, Filed
<1> QED
  BY <1>1, SoundAlways, PTL

\* Receipts add up to the revision the client was shown, corrected or not.
THEOREM ReceiptsReconcile ==
  ASSUME QuotesAssumption PROVE Spec => []FiguresReconcile
<1>1. Sound => FiguresReconcile
  <2> SUFFICES ASSUME Sound, NEW r \in Requests, Filed(r)
               PROVE  Reconciles(Receipt(request[r].type, request[r].rate_applied,
                                   request[r].commission_applied,
                                   request[r].amount_usd, request[r].amount_iqd),
                        rates[request[r].quoted].iqd_per_usd,
                        rates[request[r].quoted].commission,
                        request[r].amount_usd, request[r].type)
    BY DEF FiguresReconcile
  <2>1. QuotedRow(r) /\ PricedRow(r) /\ request[r] \in Row
    BY DEF Sound, TypeOK, Filed
  <2> DEFINE row == request[r]
             rate == row.rate_applied
             fee == row.commission_rate_applied
             figures == price(rate, fee, row.amount_usd, row.type)
  <2>2. /\ rate \in Nat /\ fee \in Nat /\ row.amount_usd \in Nat
        /\ row.type \in RequestType
    BY <2>1 DEF Row
  <2>3. Reconciles(figures, rate, fee, row.amount_usd, row.type)
    BY <2>2, PriceReconciles
  <2>4. Receipt(row.type, rate, figures.commission, row.amount_usd, figures.total)
          = figures
    BY <2>2, ReceiptIsTheQuote
  <2>5. /\ row.amount_iqd = figures.total
        /\ row.commission_applied = figures.commission
        /\ rates[row.quoted].iqd_per_usd = rate
        /\ rates[row.quoted].commission = fee
    BY <2>1 DEF QuotedRow, PricedRow
  <2> HIDE DEF figures
  <2> QED
    BY <2>3, <2>4, <2>5
<1> QED
  BY <1>1, SoundAlways, PTL

\* No withdrawal pays less than one step, through every correction.
THEOREM WithdrawalsPay == ASSUME QuotesAssumption PROVE Spec => []WithdrawalPays
<1>1. Sound => WithdrawalPays
  <2> SUFFICES ASSUME Sound, NEW r \in Requests, Filed(r),
                      request[r].type = "withdrawal"
               PROVE  request[r].amount_iqd >= TRANSFER_STEP
    BY DEF WithdrawalPays
  <2>1. PricedRow(r) /\ request[r] \in Row
    BY DEF Sound, TypeOK, Filed
  <2>2. /\ request[r].rate_applied \in Nat /\ request[r].amount_usd \in Nat
        /\ request[r].commission_rate_applied \in Nat
    BY <2>1 DEF Row
  <2> QED
    BY <2>1, <2>2, PayoutAtLeastAStep DEF PricedRow
<1> QED
  BY <1>1, SoundAlways, PTL

\* What a client agreed to when filing is never rewritten, and neither is a
\* revision once set.
THEOREM AgreementsKept == ASSUME QuotesAssumption PROVE Spec => AgreementKept
<1> DEFINE Fields == {"type", "quoted", "rate_applied", "commission_rate_applied",
                      "submitted_usd", "submitted_iqd"}
           Kept == /\ \A r \in Requests : Filed(r) =>
                        \A f \in Fields : request'[r][f] = request[r][f]
                   /\ \A i \in DOMAIN rates : i \in DOMAIN rates' /\ rates'[i] = rates[i]
<1>1. Sound /\ [Next]_vars => [Kept]_vars
  <2> SUFFICES ASSUME Sound, Next PROVE Kept
    OBVIOUS
  <2>1. \A i \in DOMAIN rates : i \in DOMAIN rates' /\ rates'[i] = rates[i]
    <3>1. ASSUME NEW type \in RequestType, NEW revision \in Revisions,
                 NEW from \in Moment, SetRate(type, revision, from)
          PROVE  \A i \in DOMAIN rates : i \in DOMAIN rates' /\ rates'[i] = rates[i]
      <4> DEFINE e == [rate_type |-> type, iqd_per_usd |-> revision[1],
                       commission |-> revision[2], effective_from |-> from]
      <4>1. e \in ExchangeRate /\ rates \in Seq(ExchangeRate)
        BY QuotesAssumption DEF QuotesAssumption, ExchangeRate, Sound, TypeOK
      <4>2. rates' = Append(rates, e)
        BY <3>1 DEF SetRate
      <4> QED
        BY <4>1, <4>2, AppendKeeps
    <3> QED
      BY <3>1 DEF Next, Tick, ScreenStep, Load, Choose, Arrive, CreateRequest,
                  Submit, LookAgain, CorrectAmount
  <2>2. ASSUME NEW r \in Requests, Filed(r), NEW f \in Fields
        PROVE  request'[r][f] = request[r][f]
    <3>1. request \in [Requests -> Row]
      BY DEF Sound, TypeOK
    <3>2. ASSUME NEW q \in Requests, NEW cents \in Amounts, Submit(q, cents)
          PROVE  request'[r] = request[r]
      BY <2>2, <3>1, <3>2 DEF Submit, Posted, Filed
    <3>3. ASSUME NEW q \in Requests, CreateRequest(q)
          PROVE  request'[r] = request[r]
      BY <2>2, <3>1, <3>3 DEF CreateRequest, Filed
    <3>4. ASSUME NEW q \in Requests, NEW cents \in Amounts, CorrectAmount(q, cents)
          PROVE  request'[r][f] = request[r][f]
      <4>1. CASE q # r
        BY <3>1, <3>4, <4>1 DEF CorrectAmount
      <4>2. CASE q = r
        <5>1. request'[r] = Repriced(request[r], request[r].rate_applied,
                                     request[r].commission_rate_applied, cents)
          BY <3>1, <3>4, <4>2 DEF CorrectAmount
        <5>2. LET old == request[r]
                  new == request'[r]
              IN  /\ new.type = old.type /\ new.quoted = old.quoted
                  /\ new.rate_applied = old.rate_applied
                  /\ new.commission_rate_applied = old.commission_rate_applied
                  /\ new.submitted_usd = old.submitted_usd
                  /\ new.submitted_iqd = old.submitted_iqd
          BY <3>1, <5>1 DEF Repriced, Row
        <5> QED
          BY <5>2
      <4> QED
        BY <4>1, <4>2
    <3>5. CASE UNCHANGED request
      BY <3>5
    <3> QED
      BY <3>2, <3>3, <3>4, <3>5
         DEF Next, Tick, SetRate, ScreenStep, Load, Choose, Arrive, LookAgain
  <2> QED
    BY <2>1, <2>2
<1> QED
  BY <1>1, SoundAlways, PTL DEF Spec, AgreementKept
=============================================================================
