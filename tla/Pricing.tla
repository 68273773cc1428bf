------------------------------ MODULE Pricing ------------------------------
(***************************************************************************)
(* What a dollar amount costs, or yields, in dinars                        *)
(* (apps/portal/pricing.py), and the same figures as the client's own      *)
(* screen works them out (static/js/flow.js).                              *)
(*                                                                         *)
(* Amounts are in cents; a rate and a commission are in hundredths of a    *)
(* dinar, per dollar and per hundred dollars, as their columns hold them.  *)
(***************************************************************************)
EXTENDS Integers

RequestType == {"deposit", "withdrawal"}

TRANSFER_STEP == 1000

Magnitude(x) == IF x < 0 THEN -x ELSE x

-----------------------------------------------------------------------------
(***************************************************************************)
(* The server: Decimal's ROUND_HALF_UP, which rounds a half away from zero.*)
(***************************************************************************)
HalfUp(n, d) ==
  IF n < 0 THEN -((2 * (-n) + d) \div (2 * d)) ELSE (2 * n + d) \div (2 * d)

to_transfer_step(value) == HalfUp(value, TRANSFER_STEP) * TRANSFER_STEP

Converted(rate, cents) == HalfUp(cents * rate, 10000)
Commission(fee, cents) == HalfUp(cents * fee, 1000000)

\* The fee is added to what a client transfers, taken from what one receives.
Subtotal(rate, fee, cents, type) ==
  IF type = "withdrawal" THEN Converted(rate, cents) - Commission(fee, cents)
                         ELSE Converted(rate, cents) + Commission(fee, cents)

\* amount_below_commission: nobody is paid less than one step.
Refused(rate, fee, cents, type) ==
  /\ type = "withdrawal"
  /\ to_transfer_step(Subtotal(rate, fee, cents, type)) < TRANSFER_STEP

price(rate, fee, cents, type) ==
  LET subtotal == Subtotal(rate, fee, cents, type)
      total == to_transfer_step(subtotal)
  IN  [converted |-> Converted(rate, cents), commission |-> Commission(fee, cents),
       rounding |-> total - subtotal, total |-> total]

\* A stored request keeps the total, the commission and the rate: what its
\* receipt shows of the conversion and the rounding is worked back from them.
Receipt(type, rate_applied, commission_applied, cents, amount_iqd) ==
  LET converted == Converted(rate_applied, cents)
      metered == IF type = "withdrawal" THEN converted - commission_applied
                                        ELSE converted + commission_applied
  IN  [converted |-> converted, commission |-> commission_applied,
       rounding |-> amount_iqd - metered, total |-> amount_iqd]

-----------------------------------------------------------------------------
(***************************************************************************)
(* The screen: Math.round, which rounds a half up, on products that are    *)
(* whole numbers.  It shows no total below one step.                       *)
(***************************************************************************)
MathRound(n, d) == (2 * n + d) \div (2 * d)

ScreenTotal(rate, fee, cents, sign) ==
  MathRound(MathRound(cents * rate, 10000) + sign * MathRound(cents * fee, 1000000),
            TRANSFER_STEP) * TRANSFER_STEP

\* rate_payload's commission_sign.
CommissionSign(type) == IF type = "withdrawal" THEN -1 ELSE 1

-----------------------------------------------------------------------------
(***************************************************************************)
(* The reference, which rounds nothing: what each figure on a receipt is   *)
(* of, and how far from it the figure may be.                              *)
(***************************************************************************)
Nearest(figure, numerator, denominator) ==
  2 * Magnitude(denominator * figure - numerator) <= denominator

Reconciles(figures, rate, fee, cents, type) ==
  /\ Nearest(figures.converted, cents * rate, 10000)
  /\ Nearest(figures.commission, cents * fee, 1000000)
  /\ figures.total = figures.converted + CommissionSign(type) * figures.commission
                       + figures.rounding
  /\ figures.total % TRANSFER_STEP = 0
  /\ 2 * Magnitude(figures.rounding) <= TRANSFER_STEP

\* The exact value of an amount, in millionths of a dinar.
Exact(rate, fee, cents, type) ==
  100 * (cents * rate) + CommissionSign(type) * (cents * fee)
=============================================================================
