----------------------------- MODULE MCZestMath -----------------------------
(***************************************************************************)
(* Bounded check of the fixed-point arithmetic against exact integer       *)
(* references.  A state is one choice of operands; Next draws other        *)
(* operands, so the invariants range over all of them.                     *)
(***************************************************************************)
EXTENDS ZestMath

CONSTANTS
  MaxAmount,    \* amounts are 0..MaxAmount
  MaxFactor,    \* fixed-point factors and prices are 1..MaxFactor
  MaxDecimals   \* tokens have 0..MaxDecimals decimals

ASSUME RangeAssumption == MaxAmount \in Nat /\ MaxFactor \in Nat /\ MaxDecimals \in Nat

(* The clock plays no part in the conversions this run is about.           *)
Clock == [h \in 0 .. MaxHeight |-> 10 * h]

VARIABLES
  amount,       \* an amount of a token
  decimals,     \* the decimals of that token
  otherDec,     \* the decimals of a second token
  factor,       \* a fixed-point factor, or the price of the token
  price         \* the price of the second token

vars == <<amount, decimals, otherDec, factor, price>>

Init ==
  /\ amount = 0 /\ decimals = 0 /\ otherDec = 0
  /\ factor = 1 /\ price = 1

DrawAmount ==
  /\ amount' \in 0 .. MaxAmount
  /\ UNCHANGED <<decimals, otherDec, factor, price>>

DrawDecimals ==
  /\ decimals' \in 0 .. MaxDecimals
  /\ otherDec' \in 0 .. MaxDecimals
  /\ UNCHANGED <<amount, factor, price>>

DrawFactor ==
  /\ factor' \in 1 .. MaxFactor
  /\ UNCHANGED <<amount, decimals, otherDec, price>>

DrawPrice ==
  /\ price' \in 1 .. MaxFactor
  /\ UNCHANGED <<amount, decimals, otherDec, factor>>

Next == DrawAmount \/ DrawDecimals \/ DrawFactor \/ DrawPrice

Spec == Init /\ [][Next]_vars

-----------------------------------------------------------------------------
Distance(x, y) == IF x >= y THEN x - y ELSE y - x

(* Scaling an amount by a factor and back loses at most what the two       *)
(* roundings can lose: one unit of the token, and what a factor below one  *)
(* magnifies of it.                                                        *)
FactorRoundTrip ==
  LET back == DivWithFactor(MulWithFactor(amount, decimals, factor), decimals, factor)
  IN  Distance(back, amount) <= 1 + One \div factor

(* A balance scaled by the ratio of a later index to an earlier one never  *)
(* shrinks: cumulate-balance and the balance-increase of a debt subtract   *)
(* the old amount from the new one without underflow.                      *)
AccrualNeverShrinks ==
  factor >= price => MulWithFactor(amount, decimals, Div(factor, price)) >= amount

(* The collateral quoted for a debt is worth the debt: the values differ by *)
(* no more than one unit of the collateral and one unit of value, whatever *)
(* the four roundings on the way do.                                       *)
ExchangeIsFair ==
  LET y    == GetYFromX(amount, decimals, otherDec, factor, price)
      \* both values scaled to the same unit
      have == (amount * factor) * 10^otherDec
      want == (y * price) * 10^decimals
      unit == price * 10^decimals + One * 10^otherDec
  IN  Distance(have, want) <= unit

OneToThe5 == One * One * One * One * One

(* 720 * One^5 times the Taylor polynomial of degree six, exactly. *)
ExactTaylor(x) ==
  LET x2 == x * x
      x3 == x * x2
      x4 == x * x3
      x5 == x * x4
  IN  720 * (OneToThe5 * One) + 720 * (OneToThe5 * x) + 360 * (One * One * One * One * x2)
        + 120 * (One * One * One * x3) + 30 * (One * One * x4) + 6 * (One * x5) + x * x5

(* The compounded interest is at least the linear one, never decreases     *)
(* with the rate and is within three units of the polynomial it rounds in  *)
(* ten places.                                                             *)
TaylorIsAccurate ==
  /\ Taylor6(amount) >= One + amount
  /\ Taylor6(amount + 1) >= Taylor6(amount)
  /\ amount <= One =>
       Distance(720 * (OneToThe5 * Taylor6(amount)), ExactTaylor(amount))
         <= 3 * (720 * OneToThe5)

=============================================================================
