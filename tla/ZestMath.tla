------------------------------ MODULE ZestMath ------------------------------
(***************************************************************************)
(* The fixed-point arithmetic of math/math.clar.                           *)
(*                                                                         *)
(* A fixed-point number is a natural scaled by One (10^8 in the contract;  *)
(* the model keeps the scale a parameter so that TLC can use a small one). *)
(* Amounts carry the decimals of their own token.  Every Clarity operation *)
(* is on unsigned integers: a division truncates and a subtraction that    *)
(* would go below zero aborts the transaction, which the modules that use  *)
(* these operators state as a guard.                                       *)
(***************************************************************************)
EXTENDS Integers

CONSTANTS
  FixedPrecision,  \* decimals of a fixed-point number (8 in the contract)
  One,             \* 10^FixedPrecision
  SecondsInYear,   \* seconds in a year
  MaxHeight,       \* bound on the Stacks block height
  Time             \* per block height: the time stamp of the block, in seconds

ASSUME MathAssumption ==
  /\ FixedPrecision \in Nat
  /\ One \in Nat \ {0} /\ One = 10^FixedPrecision
  /\ SecondsInYear \in Nat \ {0}
  /\ MaxHeight \in Nat /\ Time \in [0 .. MaxHeight -> Nat]
  /\ \A h, i \in 0 .. MaxHeight : h <= i => Time[h] <= Time[i]

-----------------------------------------------------------------------------
(* Multiplication and division, rounded to the nearest unit. *)

Mul(x, y) == (x * y + One \div 2) \div One

Div(x, y) == (x * One + y \div 2) \div y

(* The same on operands that carry prec decimals. *)
MulArbitrary(x, y, prec) == (x * y + 10^prec \div 2) \div 10^prec

DivArbitrary(x, y, prec) == (x * 10^prec + y \div 2) \div y

-----------------------------------------------------------------------------
(* Conversions between an amount with `decimals` decimals and fixed point. *)

ToFixed(a, decimals) ==
  IF decimals > FixedPrecision
  THEN a \div 10^(decimals - FixedPrecision)
  ELSE a * 10^(FixedPrecision - decimals)

FromFixed(a, decimals) ==
  IF decimals > FixedPrecision
  THEN a * 10^(decimals - FixedPrecision)
  ELSE a \div 10^(FixedPrecision - decimals)

(* The value, in fixed point, of an amount at a fixed-point price. *)
MulToFixed(a, decimals, price) == Mul(ToFixed(a, decimals), price)

(* The ratio of two amounts of the same token, in fixed point; the first   *)
(* division truncates.                                                     *)
DivPrecisionToFixed(a, b, decimals) ==
  ToFixed((a * 10^decimals) \div b, decimals)

MulWithFactorUnscaled(a, decimals, factor) ==
  IF decimals > FixedPrecision
  THEN MulArbitrary(a, factor, decimals)
  ELSE MulArbitrary(a, factor, FixedPrecision)

(* An amount times, and divided by, a fixed-point factor, as an amount. *)
MulWithFactor(a, decimals, factor) ==
  IF decimals > FixedPrecision
  THEN MulArbitrary(a, factor * 10^(decimals - FixedPrecision), decimals)
  ELSE MulArbitrary(a * 10^(FixedPrecision - decimals), factor, FixedPrecision)
         \div 10^(FixedPrecision - decimals)

DivWithFactorUnscaled(a, decimals, factor) ==
  IF decimals > FixedPrecision
  THEN DivArbitrary(a, factor, decimals)
  ELSE DivArbitrary(a, factor, FixedPrecision)

DivWithFactor(a, decimals, factor) ==
  IF decimals > FixedPrecision
  THEN DivArbitrary(a, factor * 10^(decimals - FixedPrecision), decimals)
  ELSE DivArbitrary(a * 10^(FixedPrecision - decimals), factor, FixedPrecision)
         \div 10^(FixedPrecision - decimals)

(* How much of token y has the value of x units of token x. *)
GetYFromXUnscaled(x, xDecimals, yDecimals, xPrice, yPrice) ==
  DivWithFactor(MulWithFactor(x, xDecimals, xPrice), yDecimals, yPrice)

GetYFromX(x, xDecimals, yDecimals, xPrice, yPrice) ==
  IF xDecimals > yDecimals
  THEN DivWithFactor(MulWithFactor(x, xDecimals, xPrice), xDecimals, yPrice)
         \div 10^(xDecimals - yDecimals)
  ELSE DivWithFactor(
         MulWithFactor(x * 10^(yDecimals - xDecimals), yDecimals, xPrice),
         yDecimals, yPrice)

-----------------------------------------------------------------------------
(* Interest. *)

(* The part of a yearly rate earned between block `since` and the current  *)
(* one, `now`: from the time stamp of the first to five seconds after that *)
(* of the last closed block, now - 1.                                      *)
GetRtByBlock(rate, since, now) ==
  IF now = since
  THEN 0
  ELSE (rate * (Time[now - 1] + 5 - Time[since])) \div SecondsInYear

(* e^x, by its Taylor polynomial of degree six. *)
Taylor6WithoutSquare(x) == One + x + Div(Mul(x, Mul(x, x)), 6 * One)

Taylor6(x) ==
  LET x2 == Mul(x, x)
      x3 == Mul(x, x2)
      x4 == Mul(x, x3)
      x5 == Mul(x, x4)
  IN One + x + Div(x2, 2 * One) + Div(x3, 6 * One) + Div(x4, 24 * One)
       + Div(x5, 120 * One) + Div(Mul(x, x5), 720 * One)

CalculateLinearInterest(rate, since, now) ==
  One + GetRtByBlock(rate, since, now)

CalculateCompoundedInterest(rate, since, now) ==
  Taylor6(GetRtByBlock(rate, since, now))

=============================================================================
