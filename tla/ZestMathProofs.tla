--------------------------- MODULE ZestMathProofs ---------------------------
(***************************************************************************)
(* Facts about the fixed-point operators, for every scale One.             *)
(***************************************************************************)
EXTENDS ZestMath, TLAPS

(* A truncating division of naturals is a natural, and is at least q when  *)
(* q divisors fit.                                                         *)
LEMMA DivNat ==
  ASSUME NEW a \in Nat, NEW b \in Nat \ {0}
  PROVE  a \div b \in Nat
OBVIOUS

LEMMA DivAtLeast ==
  ASSUME NEW a \in Nat, NEW b \in Nat \ {0}, NEW q \in Nat, q * b <= a
  PROVE  q <= a \div b
<1> DEFINE d == a \div b
           r == a % b
<1>1. d \in Nat /\ r \in Nat /\ a = b * d + r /\ r < b
  OBVIOUS
<1>2. SUFFICES ASSUME d + 1 <= q PROVE FALSE
  BY <1>1
<1> HIDE DEF d, r
<1>3. (d + 1) * b <= q * b
  BY <1>1, <1>2
<1>4. (d + 1) * b = b * d + b
  BY <1>1
<1> QED BY <1>1, <1>3, <1>4

LEMMA DivMonotone ==
  ASSUME NEW a \in Nat, NEW c \in Nat, NEW b \in Nat \ {0}, a <= c
  PROVE  a \div b <= c \div b
<1> DEFINE d == a \div b
<1>1. d \in Nat /\ d * b <= a
  OBVIOUS
<1> HIDE DEF d
<1>2. d <= c \div b
  BY <1>1, DivAtLeast
<1> QED BY <1>2 DEF d

LEMMA OneNat == One \in Nat \ {0} /\ One \div 2 \in Nat
BY MathAssumption DEF MathAssumption

(* The product of two naturals is a natural. *)
LEMMA MulNat ==
  ASSUME NEW x \in Nat, NEW y \in Nat
  PROVE  Mul(x, y) \in Nat
<1>1. x * y + One \div 2 \in Nat
  BY OneNat
<1> QED BY <1>1, OneNat, DivNat DEF Mul

(* The quotient too, of a positive divisor. *)
LEMMA DivFixedNat ==
  ASSUME NEW x \in Nat, NEW y \in Nat \ {0}
  PROVE  Div(x, y) \in Nat
<1>1. x * One + y \div 2 \in Nat
  BY OneNat
<1> QED BY <1>1, DivNat DEF Div

(* A factor of at least one does not shrink what it multiplies. *)
LEMMA MulGrows ==
  ASSUME NEW f \in Nat, NEW x \in Nat, f >= One
  PROVE  Mul(f, x) >= x /\ Mul(x, f) >= x
<1>1. x * One <= f * x
  BY OneNat
<1>2. f * x \in Nat /\ x * f = f * x
  OBVIOUS
<1>3. x * One <= f * x + One \div 2 /\ f * x + One \div 2 \in Nat
  BY <1>1, <1>2, OneNat
<1>4. x <= (f * x + One \div 2) \div One
  BY <1>3, OneNat, DivAtLeast
<1> QED BY <1>2, <1>4 DEF Mul

LEMMA MulMonotone ==
  ASSUME NEW x \in Nat, NEW y \in Nat, NEW z \in Nat, y <= z
  PROVE  Mul(x, y) <= Mul(x, z)
<1>1. x * y <= x * z
  OBVIOUS
<1>2. x * y + One \div 2 \in Nat /\ x * z + One \div 2 \in Nat
  BY OneNat
<1>3. x * y + One \div 2 <= x * z + One \div 2
  BY <1>1, OneNat
<1> QED BY <1>2, <1>3, OneNat, DivMonotone DEF Mul

(* A ratio of something to no more than itself is at least one. *)
LEMMA DivFixedAtLeastOne ==
  ASSUME NEW x \in Nat, NEW y \in Nat \ {0}, y <= x
  PROVE  Div(x, y) >= One
<1>1. One * y <= x * One
  BY OneNat
<1>2. One * y <= x * One + y \div 2 /\ x * One + y \div 2 \in Nat
  BY <1>1, OneNat
<1> QED BY <1>2, OneNat, DivAtLeast DEF Div

(* A ratio of something to no less than itself is at most one. *)
LEMMA DivFixedAtMostOne ==
  ASSUME NEW x \in Nat, NEW y \in Nat \ {0}, x <= y
  PROVE  Div(x, y) <= One
<1> DEFINE n == x * One + y \div 2
           d == n \div y
<1>1. n \in Nat /\ n < One * y + y
  <2>1. x * One <= One * y
    BY OneNat
  <2>2. y \div 2 \in Nat /\ y \div 2 < y
    OBVIOUS
  <2>3. x * One \in Nat /\ One * y \in Nat
    BY OneNat
  <2> QED BY <2>1, <2>2, <2>3
<1> HIDE DEF n
<1>2. d \in Nat /\ d * y <= n
  BY <1>1
<1> HIDE DEF d
<1>3. SUFFICES ASSUME One + 1 <= d PROVE FALSE
  BY <1>2, OneNat DEF Div, n, d
<1>4. (One + 1) * y <= d * y
  BY <1>2, <1>3, OneNat
<1>5. (One + 1) * y = One * y + y
  BY OneNat
<1>6. One * y \in Nat /\ d * y \in Nat
  BY <1>2, OneNat
<1> QED BY <1>1, <1>2, <1>4, <1>5, <1>6

(* Time does not run backwards, and the part of a rate earned in a period  *)
(* is a natural.                                                           *)
LEMMA ElapsedNat ==
  ASSUME NEW now \in 0 .. MaxHeight, NEW since \in 0 .. now, now # since
  PROVE  Time[now - 1] + 5 - Time[since] \in Nat
<1>1. /\ MaxHeight \in Nat /\ Time \in [0 .. MaxHeight -> Nat]
      /\ \A h, i \in 0 .. MaxHeight : h <= i => Time[h] <= Time[i]
  BY MathAssumption DEF MathAssumption
<1>2. now - 1 \in 0 .. MaxHeight /\ since \in 0 .. MaxHeight /\ since <= now - 1
  BY <1>1
<1>3. Time[now - 1] \in Nat /\ Time[since] \in Nat /\ Time[since] <= Time[now - 1]
  BY <1>1, <1>2
<1> QED BY <1>3

LEMMA RtNat ==
  ASSUME NEW rate \in Nat, NEW now \in 0 .. MaxHeight, NEW since \in 0 .. now
  PROVE  GetRtByBlock(rate, since, now) \in Nat
<1>1. CASE now = since
  BY <1>1 DEF GetRtByBlock
<1>2. CASE now # since
  <2> DEFINE f == Time[now - 1] + 5 - Time[since]
  <2>1. f \in Nat /\ SecondsInYear \in Nat \ {0}
    BY <1>2, ElapsedNat, MathAssumption DEF MathAssumption
  <2> HIDE DEF f
  <2>2. rate * f \in Nat
    BY <2>1
  <2> QED BY <1>2, <2>1, <2>2, DivNat DEF GetRtByBlock, f
<1> QED BY <1>1, <1>2

(* The interest factors of a period are at least one, whatever its length. *)
LEMMA InterestAtLeastOne ==
  ASSUME NEW rate \in Nat, NEW now \in 0 .. MaxHeight, NEW since \in 0 .. now
  PROVE  /\ CalculateLinearInterest(rate, since, now) \in Nat
         /\ CalculateLinearInterest(rate, since, now) >= One
         /\ CalculateCompoundedInterest(rate, since, now) \in Nat
         /\ CalculateCompoundedInterest(rate, since, now) >= One
<1> DEFINE x == GetRtByBlock(rate, since, now)
<1>1. x \in Nat
  BY RtNat
<1> HIDE DEF x
<1> DEFINE d2 == 2 * One
           d3 == 6 * One
           d4 == 24 * One
           d5 == 120 * One
           d6 == 720 * One
           x2 == Mul(x, x)
           x3 == Mul(x, x2)
           x4 == Mul(x, x3)
           x5 == Mul(x, x4)
           x6 == Mul(x, x5)
<1>2. /\ d2 \in Nat \ {0} /\ d3 \in Nat \ {0} /\ d4 \in Nat \ {0}
      /\ d5 \in Nat \ {0} /\ d6 \in Nat \ {0}
  BY OneNat
<1>3. x2 \in Nat BY <1>1, MulNat
<1>4. x3 \in Nat BY <1>1, <1>3, MulNat
<1>5. x4 \in Nat BY <1>1, <1>4, MulNat
<1>6. x5 \in Nat BY <1>1, <1>5, MulNat
<1>7. x6 \in Nat BY <1>1, <1>6, MulNat
<1>8. Taylor6(x) = One + x + Div(x2, d2) + Div(x3, d3) + Div(x4, d4)
                     + Div(x5, d5) + Div(x6, d6)
  BY DEF Taylor6
<1> HIDE DEF x2, x3, x4, x5, x6, d2, d3, d4, d5, d6
<1>9. Div(x2, d2) \in Nat BY <1>2, <1>3, DivFixedNat
<1>10. Div(x3, d3) \in Nat BY <1>2, <1>4, DivFixedNat
<1>11. Div(x4, d4) \in Nat BY <1>2, <1>5, DivFixedNat
<1>12. Div(x5, d5) \in Nat BY <1>2, <1>6, DivFixedNat
<1>13. Div(x6, d6) \in Nat BY <1>2, <1>7, DivFixedNat
<1>14. Taylor6(x) \in Nat /\ Taylor6(x) >= One
  BY <1>1, <1>8, <1>9, <1>10, <1>11, <1>12, <1>13, OneNat
<1>15. One + x \in Nat /\ One + x >= One
  BY <1>1, OneNat
<1> QED BY <1>14, <1>15 DEF CalculateLinearInterest, CalculateCompoundedInterest, x

-----------------------------------------------------------------------------
(* What the operators give at the ends of their ranges. *)

(* The quotient is q when q divisors fit and q + 1 do not. *)
LEMMA DivIs ==
  ASSUME NEW a \in Nat, NEW b \in Nat \ {0}, NEW q \in Nat,
         q * b <= a, a < q * b + b
  PROVE  a \div b = q
<1> DEFINE d == a \div b
<1>1. d \in Nat /\ q <= d /\ d * b <= a
  BY DivAtLeast
<1> HIDE DEF d
<1>2. SUFFICES ASSUME q + 1 <= d PROVE FALSE
  BY <1>1 DEF d
<1>3. (q + 1) * b <= d * b
  BY <1>1, <1>2
<1>4. (q + 1) * b = q * b + b /\ q * b \in Nat /\ d * b \in Nat
  BY <1>1
<1> QED BY <1>1, <1>3, <1>4

LEMMA HalfNat ==
  ASSUME NEW b \in Nat \ {0}
  PROVE  b \div 2 \in Nat /\ b \div 2 < b
OBVIOUS

(* Multiplying by one changes nothing, and by zero leaves nothing. *)
LEMMA MulOne ==
  ASSUME NEW x \in Nat
  PROVE  Mul(x, One) = x /\ Mul(One, x) = x
<1>1. One \div 2 \in Nat /\ One \div 2 < One
  BY OneNat, HalfNat
<1>2. x * One \in Nat /\ One * x = x * One
  BY OneNat
<1>3. x * One <= x * One + One \div 2 /\ x * One + One \div 2 < x * One + One
  BY <1>1, <1>2, OneNat
<1>4. (x * One + One \div 2) \div One = x
  BY <1>1, <1>2, <1>3, OneNat, DivIs
<1> QED BY <1>2, <1>4 DEF Mul

LEMMA MulZero ==
  ASSUME NEW x \in Nat
  PROVE  Mul(x, 0) = 0 /\ Mul(0, x) = 0
<1>1. One \div 2 \in Nat /\ One \div 2 < One
  BY OneNat, HalfNat
<1>2. (0 + One \div 2) \div One = 0
  BY <1>1, OneNat, DivIs
<1>3. x * 0 = 0 /\ 0 * x = 0
  OBVIOUS
<1> QED BY <1>2, <1>3 DEF Mul

(* A ratio of something to itself is one, and of nothing to it nothing. *)
LEMMA DivFixedSame ==
  ASSUME NEW x \in Nat \ {0}
  PROVE  Div(x, x) = One /\ Div(0, x) = 0
<1>1. x \div 2 \in Nat /\ x \div 2 < x
  BY HalfNat
<1>2. One * x \in Nat /\ x * One = One * x /\ 0 * One = 0
  BY OneNat
<1>3. (One * x + x \div 2) \div x = One
  BY <1>1, <1>2, OneNat, DivIs
<1>4. (0 + x \div 2) \div x = 0
  BY <1>1, DivIs
<1> QED BY <1>2, <1>3, <1>4 DEF Div

LEMMA DivFixedMonotone ==
  ASSUME NEW x \in Nat, NEW z \in Nat, NEW y \in Nat \ {0}, x <= z
  PROVE  Div(x, y) <= Div(z, y)
<1>1. y \div 2 \in Nat
  BY HalfNat
<1>2. x * One \in Nat /\ z * One \in Nat /\ x * One <= z * One
  BY OneNat
<1>3. /\ x * One + y \div 2 \in Nat /\ z * One + y \div 2 \in Nat
      /\ x * One + y \div 2 <= z * One + y \div 2
  BY <1>1, <1>2
<1> QED BY <1>3, DivMonotone DEF Div

(* A product does not fall when neither factor does. *)
LEMMA MulMonotoneBoth ==
  ASSUME NEW x \in Nat, NEW y \in Nat, NEW w \in Nat, NEW z \in Nat, x <= w, y <= z
  PROVE  Mul(x, y) <= Mul(w, z)
<1>1. x * y <= w * z
  <2>1. x * y <= x * z
    OBVIOUS
  <2>2. x * z <= w * z
    OBVIOUS
  <2>3. x * y \in Nat /\ x * z \in Nat /\ w * z \in Nat
    OBVIOUS
  <2> QED BY <2>1, <2>2, <2>3
<1>2. x * y + One \div 2 \in Nat /\ w * z + One \div 2 \in Nat
  BY OneNat
<1>3. x * y + One \div 2 <= w * z + One \div 2
  BY <1>1, OneNat
<1> QED BY <1>2, <1>3, OneNat, DivMonotone DEF Mul

-----------------------------------------------------------------------------
(* Interest over a period: none over no time or at no rate, and never less *)
(* over a longer one.                                                      *)

LEMMA RtMonotone ==
  ASSUME NEW rate \in Nat, NEW e \in 0 .. MaxHeight, NEW d \in 0 .. e,
         NEW since \in 0 .. d
  PROVE  GetRtByBlock(rate, since, d) <= GetRtByBlock(rate, since, e)
<1>0. /\ MaxHeight \in Nat /\ Time \in [0 .. MaxHeight -> Nat]
      /\ \A h, i \in 0 .. MaxHeight : h <= i => Time[h] <= Time[i]
      /\ SecondsInYear \in Nat \ {0}
  BY MathAssumption DEF MathAssumption
<1>1. CASE d = since
  <2>1. GetRtByBlock(rate, since, d) = 0
    BY <1>1 DEF GetRtByBlock
  <2>2. since \in 0 .. e
    BY <1>0
  <2>3. GetRtByBlock(rate, since, e) \in Nat
    BY <2>2, RtNat
  <2> QED BY <2>1, <2>3
<1>2. CASE d # since
  <2> DEFINE f == Time[d - 1] + 5 - Time[since]
             g == Time[e - 1] + 5 - Time[since]
  <2>1. d \in 0 .. MaxHeight /\ since \in 0 .. e /\ e # since
    BY <1>0, <1>2
  <2>2. f \in Nat /\ g \in Nat
    BY <1>2, <2>1, ElapsedNat
  <2>3. f <= g
    <3>1. d - 1 \in 0 .. MaxHeight /\ e - 1 \in 0 .. MaxHeight /\ d - 1 <= e - 1
          /\ since \in 0 .. MaxHeight
      BY <1>0, <1>2, <2>1
    <3>2. Time[d - 1] <= Time[e - 1] /\ Time[d - 1] \in Nat /\ Time[e - 1] \in Nat
          /\ Time[since] \in Nat
      BY <1>0, <3>1
    <3> QED BY <3>2
  <2> HIDE DEF f, g
  <2>4. rate * f \in Nat /\ rate * g \in Nat /\ rate * f <= rate * g
    BY <2>2, <2>3
  <2>5. (rate * f) \div SecondsInYear <= (rate * g) \div SecondsInYear
    BY <1>0, <2>4, DivMonotone
  <2> QED BY <1>2, <2>1, <2>5 DEF GetRtByBlock, f, g
<1> QED BY <1>1, <1>2

(* The polynomial is one at zero, and does not fall. *)
LEMMA Taylor6Zero == Taylor6(0) = One
<1>1. /\ 2 * One \in Nat \ {0} /\ 6 * One \in Nat \ {0} /\ 24 * One \in Nat \ {0}
      /\ 120 * One \in Nat \ {0} /\ 720 * One \in Nat \ {0}
  BY OneNat
<1>2. Mul(0, 0) = 0
  BY MulZero
<1>3. /\ Div(0, 2 * One) = 0 /\ Div(0, 6 * One) = 0 /\ Div(0, 24 * One) = 0
      /\ Div(0, 120 * One) = 0 /\ Div(0, 720 * One) = 0
  BY <1>1, DivFixedSame
<1>4. Taylor6(0) = One + 0 + 0 + 0 + 0 + 0 + 0
  BY <1>2, <1>3 DEF Taylor6
<1> QED BY <1>4, OneNat

LEMMA Taylor6Monotone ==
  ASSUME NEW x \in Nat, NEW y \in Nat, x <= y
  PROVE  Taylor6(x) <= Taylor6(y)
<1> DEFINE x2 == Mul(x, x)   y2 == Mul(y, y)
           x3 == Mul(x, x2)  y3 == Mul(y, y2)
           x4 == Mul(x, x3)  y4 == Mul(y, y3)
           x5 == Mul(x, x4)  y5 == Mul(y, y4)
           x6 == Mul(x, x5)  y6 == Mul(y, y5)
           d2 == 2 * One
           d3 == 6 * One
           d4 == 24 * One
           d5 == 120 * One
           d6 == 720 * One
<1>1. /\ d2 \in Nat \ {0} /\ d3 \in Nat \ {0} /\ d4 \in Nat \ {0}
      /\ d5 \in Nat \ {0} /\ d6 \in Nat \ {0}
  BY OneNat
<1>2. x2 \in Nat /\ y2 \in Nat /\ x2 <= y2
  BY MulNat, MulMonotoneBoth
<1>3. /\ Taylor6(x) = One + x + Div(x2, d2) + Div(x3, d3) + Div(x4, d4)
                         + Div(x5, d5) + Div(x6, d6)
      /\ Taylor6(y) = One + y + Div(y2, d2) + Div(y3, d3) + Div(y4, d4)
                         + Div(y5, d5) + Div(y6, d6)
  BY DEF Taylor6
<1> HIDE DEF x2, y2, d2, d3, d4, d5, d6
<1>4. x3 \in Nat /\ y3 \in Nat /\ x3 <= y3
  BY <1>2, MulNat, MulMonotoneBoth
<1> HIDE DEF x3, y3
<1>5. x4 \in Nat /\ y4 \in Nat /\ x4 <= y4
  BY <1>4, MulNat, MulMonotoneBoth
<1> HIDE DEF x4, y4
<1>6. x5 \in Nat /\ y5 \in Nat /\ x5 <= y5
  BY <1>5, MulNat, MulMonotoneBoth
<1> HIDE DEF x5, y5
<1>7. x6 \in Nat /\ y6 \in Nat /\ x6 <= y6
  BY <1>6, MulNat, MulMonotoneBoth
<1> HIDE DEF x6, y6
<1>8. /\ Div(x2, d2) \in Nat /\ Div(y2, d2) \in Nat /\ Div(x2, d2) <= Div(y2, d2)
      /\ Div(x3, d3) \in Nat /\ Div(y3, d3) \in Nat /\ Div(x3, d3) <= Div(y3, d3)
  BY <1>1, <1>2, <1>4, DivFixedNat, DivFixedMonotone
<1>9. /\ Div(x4, d4) \in Nat /\ Div(y4, d4) \in Nat /\ Div(x4, d4) <= Div(y4, d4)
      /\ Div(x5, d5) \in Nat /\ Div(y5, d5) \in Nat /\ Div(x5, d5) <= Div(y5, d5)
      /\ Div(x6, d6) \in Nat /\ Div(y6, d6) \in Nat /\ Div(x6, d6) <= Div(y6, d6)
  BY <1>1, <1>5, <1>6, <1>7, DivFixedNat, DivFixedMonotone
<1> QED BY <1>3, <1>8, <1>9, OneNat

LEMMA NoInterest ==
  /\ \A rate \in Nat, now \in Nat :
       /\ CalculateLinearInterest(rate, now, now) = One
       /\ CalculateCompoundedInterest(rate, now, now) = One
  /\ \A now \in 0 .. MaxHeight : \A since \in 0 .. now :
       /\ CalculateLinearInterest(0, since, now) = One
       /\ CalculateCompoundedInterest(0, since, now) = One
<1>1. \A rate \in Nat, now \in Nat : GetRtByBlock(rate, now, now) = 0
  BY DEF GetRtByBlock
<1>2. ASSUME NEW now \in 0 .. MaxHeight, NEW since \in 0 .. now
      PROVE  GetRtByBlock(0, since, now) = 0
  <2>1. CASE now = since
    BY <2>1 DEF GetRtByBlock
  <2>2. CASE now # since
    <3> DEFINE f == Time[now - 1] + 5 - Time[since]
    <3>1. f \in Nat /\ SecondsInYear \in Nat \ {0}
      BY <2>2, ElapsedNat, MathAssumption DEF MathAssumption
    <3> HIDE DEF f
    <3>2. 0 * f = 0
      BY <3>1
    <3>3. 0 \div SecondsInYear = 0
      BY <3>1, DivIs
    <3> QED BY <2>2, <3>2, <3>3 DEF GetRtByBlock, f
  <2> QED BY <2>1, <2>2
<1>3. One + 0 = One
  BY OneNat
<1> QED BY <1>1, <1>2, <1>3, Taylor6Zero DEF CalculateLinearInterest, CalculateCompoundedInterest

LEMMA InterestMonotone ==
  ASSUME NEW rate \in Nat, NEW e \in 0 .. MaxHeight, NEW d \in 0 .. e,
         NEW since \in 0 .. d
  PROVE  /\ CalculateLinearInterest(rate, since, d)
               <= CalculateLinearInterest(rate, since, e)
         /\ CalculateCompoundedInterest(rate, since, d)
               <= CalculateCompoundedInterest(rate, since, e)
<1>1. d \in 0 .. MaxHeight /\ since \in 0 .. e
  BY MathAssumption DEF MathAssumption
<1>2. /\ GetRtByBlock(rate, since, d) \in Nat /\ GetRtByBlock(rate, since, e) \in Nat
      /\ GetRtByBlock(rate, since, d) <= GetRtByBlock(rate, since, e)
  BY <1>1, RtNat, RtMonotone
<1> QED BY <1>2, OneNat, Taylor6Monotone
        DEF CalculateLinearInterest, CalculateCompoundedInterest

-----------------------------------------------------------------------------
(* The operators on amounts, whose scale is a power of ten.  The provers   *)
(* know nothing of exponentiation and cannot do the induction that defines *)
(* it, so what is used of it is a hypothesis of these lemmas.              *)

PowersOfTen ==
  \A m, n \in Nat : 10^m \in Nat \ {0} /\ 10^(m + n) = 10^m * 10^n

(* The rounded product on any scale s. *)
LEMMA RoundedNat ==
  ASSUME NEW x \in Nat, NEW f \in Nat, NEW s \in Nat \ {0}
  PROVE  (x * f + s \div 2) \div s \in Nat
<1>1. x * f \in Nat /\ s \div 2 \in Nat
  BY HalfNat
<1>2. x * f + s \div 2 \in Nat
  BY <1>1
<1> QED BY <1>2, DivNat

LEMMA RoundedSame ==
  ASSUME NEW x \in Nat, NEW s \in Nat \ {0}
  PROVE  (x * s + s \div 2) \div s = x
<1>1. x * s \in Nat /\ s \div 2 \in Nat /\ s \div 2 < s
  BY HalfNat
<1>2. x * s <= x * s + s \div 2 /\ x * s + s \div 2 < x * s + s
  BY <1>1
<1> QED BY <1>1, <1>2, DivIs

LEMMA RoundedMonotone ==
  ASSUME NEW x \in Nat, NEW w \in Nat, NEW f \in Nat, NEW s \in Nat \ {0}, x <= w
  PROVE  (x * f + s \div 2) \div s <= (w * f + s \div 2) \div s
<1>1. x * f \in Nat /\ w * f \in Nat /\ s \div 2 \in Nat
  BY HalfNat
<1>2. x * f <= w * f
  OBVIOUS
<1> QED BY <1>1, <1>2, DivMonotone

(* What a factor of at least one adds to an amount grows with the amount   *)
(* and with the factor, the rounding included.                             *)
LEMMA RoundedExcess ==
  ASSUME NEW x \in Nat, NEW w \in Nat, x <= w,
         NEW f \in Nat, NEW g \in Nat, NEW s \in Nat \ {0}, s <= f, f <= g
  PROVE  (x * f + s \div 2) \div s + (w - x) <= (w * g + s \div 2) \div s
<1> DEFINE h == s \div 2
           k == w - x
           n == x * f + h
           d == n \div s
<1>1. h \in Nat /\ k \in Nat /\ w = x + k
  BY HalfNat
<1>2. n \in Nat
  BY <1>1
<1> HIDE DEF n
<1>3. d \in Nat /\ d * s <= n
  BY <1>2
<1> HIDE DEF d, h, k
<1>4. w * g >= x * f + k * s
  <2>1. w * g >= w * f
    OBVIOUS
  <2>2. w * f = x * f + k * f
    BY <1>1
  <2>3. k * f >= k * s
    BY <1>1
  <2>4. w * g \in Nat /\ w * f \in Nat /\ x * f \in Nat /\ k * f \in Nat /\ k * s \in Nat
    BY <1>1
  <2> QED BY <2>1, <2>2, <2>3, <2>4
<1>5. (d + k) * s = d * s + k * s
  BY <1>1, <1>3
<1>6. /\ w * g \in Nat /\ k * s \in Nat /\ x * f \in Nat /\ d * s \in Nat
  BY <1>1, <1>3
<1>7. (d + k) * s <= w * g + h
  BY <1>1, <1>3, <1>4, <1>5, <1>6 DEF n
<1>8. d + k <= (w * g + h) \div s
  BY <1>1, <1>3, <1>6, <1>7, DivAtLeast
<1> QED BY <1>8 DEF d, n, h, k

(* The powers of ten the conversions scale by. *)
LEMMA Scales ==
  ASSUME PowersOfTen, NEW d \in Nat
  PROVE  /\ 10^d \in Nat \ {0} /\ 10^FixedPrecision = One
         /\ d > FixedPrecision =>
              /\ 10^(d - FixedPrecision) \in Nat \ {0}
              /\ 10^d = One * 10^(d - FixedPrecision)
         /\ ~(d > FixedPrecision) => 10^(FixedPrecision - d) \in Nat \ {0}
<1>1. FixedPrecision \in Nat /\ 10^FixedPrecision = One
  BY MathAssumption DEF MathAssumption
<1>2. 10^d \in Nat \ {0}
  BY DEF PowersOfTen
<1>3. ASSUME d > FixedPrecision
      PROVE  10^(d - FixedPrecision) \in Nat \ {0} /\ 10^d = One * 10^(d - FixedPrecision)
  <2> DEFINE k == d - FixedPrecision
  <2>1. k \in Nat /\ FixedPrecision + k = d
    BY <1>1, <1>3
  <2> HIDE DEF k
  <2>2. 10^k \in Nat \ {0} /\ 10^(FixedPrecision + k) = 10^FixedPrecision * 10^k
    BY <1>1, <2>1 DEF PowersOfTen
  <2> QED BY <1>1, <2>1, <2>2 DEF k
<1>4. ASSUME ~(d > FixedPrecision) PROVE 10^(FixedPrecision - d) \in Nat \ {0}
  <2>1. FixedPrecision - d \in Nat
    BY <1>1, <1>4
  <2> QED BY <2>1 DEF PowersOfTen
<1> QED BY <1>1, <1>2, <1>3, <1>4

LEMMA MulWithFactorNat ==
  ASSUME PowersOfTen, NEW d \in Nat, NEW x \in Nat, NEW f \in Nat
  PROVE  MulWithFactor(x, d, f) \in Nat
<1>1. CASE d > FixedPrecision
  <2> DEFINE k == 10^(d - FixedPrecision)
             s == 10^d
  <2>1. k \in Nat \ {0} /\ s \in Nat \ {0}
    BY <1>1, Scales
  <2>2. MulWithFactor(x, d, f) = (x * (f * k) + s \div 2) \div s
    BY <1>1 DEF MulWithFactor, MulArbitrary
  <2> HIDE DEF k, s
  <2>3. f * k \in Nat
    BY <2>1
  <2> QED BY <2>1, <2>2, <2>3, RoundedNat
<1>2. CASE ~(d > FixedPrecision)
  <2> DEFINE k == 10^(FixedPrecision - d)
  <2>1. k \in Nat \ {0} /\ 10^FixedPrecision = One
    BY <1>2, Scales
  <2>2. MulWithFactor(x, d, f) = ((x * k * f + One \div 2) \div One) \div k
    BY <1>2, <2>1 DEF MulWithFactor, MulArbitrary
  <2> HIDE DEF k
  <2>3. x * k \in Nat
    BY <2>1
  <2>4. (x * k * f + One \div 2) \div One \in Nat
    BY <2>3, OneNat, RoundedNat
  <2> QED BY <2>1, <2>2, <2>4, DivNat
<1> QED BY <1>1, <1>2

(* A factor of one leaves an amount as it is. *)
LEMMA MulWithFactorOne ==
  ASSUME PowersOfTen, NEW d \in Nat, NEW x \in Nat
  PROVE  MulWithFactor(x, d, One) = x
<1>1. CASE d > FixedPrecision
  <2> DEFINE s == 10^d
  <2>1. s \in Nat \ {0} /\ One * 10^(d - FixedPrecision) = s
    BY <1>1, Scales
  <2>2. MulWithFactor(x, d, One) = (x * s + s \div 2) \div s
    BY <1>1, <2>1 DEF MulWithFactor, MulArbitrary
  <2> HIDE DEF s
  <2> QED BY <2>1, <2>2, RoundedSame
<1>2. CASE ~(d > FixedPrecision)
  <2> DEFINE k == 10^(FixedPrecision - d)
  <2>1. k \in Nat \ {0} /\ 10^FixedPrecision = One
    BY <1>2, Scales
  <2>2. MulWithFactor(x, d, One) = ((x * k * One + One \div 2) \div One) \div k
    BY <1>2, <2>1 DEF MulWithFactor, MulArbitrary
  <2> HIDE DEF k
  <2>3. x * k \in Nat
    BY <2>1
  <2>4. (x * k * One + One \div 2) \div One = x * k
    BY <2>3, OneNat, RoundedSame
  <2>5. (x * k) \div k = x
    BY <2>1, <2>3, DivIs
  <2> QED BY <2>2, <2>4, <2>5
<1> QED BY <1>1, <1>2

LEMMA MulWithFactorMonotone ==
  ASSUME PowersOfTen, NEW d \in Nat, NEW x \in Nat, NEW w \in Nat, NEW f \in Nat, x <= w
  PROVE  MulWithFactor(x, d, f) <= MulWithFactor(w, d, f)
<1>1. CASE d > FixedPrecision
  <2> DEFINE k == 10^(d - FixedPrecision)
             s == 10^d
  <2>1. k \in Nat \ {0} /\ s \in Nat \ {0}
    BY <1>1, Scales
  <2>2. /\ MulWithFactor(x, d, f) = (x * (f * k) + s \div 2) \div s
        /\ MulWithFactor(w, d, f) = (w * (f * k) + s \div 2) \div s
    BY <1>1 DEF MulWithFactor, MulArbitrary
  <2> HIDE DEF k, s
  <2>3. f * k \in Nat
    BY <2>1
  <2> QED BY <2>1, <2>2, <2>3, RoundedMonotone
<1>2. CASE ~(d > FixedPrecision)
  <2> DEFINE k == 10^(FixedPrecision - d)
             m == (x * k * f + One \div 2) \div One
             n == (w * k * f + One \div 2) \div One
  <2>1. k \in Nat \ {0} /\ 10^FixedPrecision = One
    BY <1>2, Scales
  <2>2. MulWithFactor(x, d, f) = m \div k /\ MulWithFactor(w, d, f) = n \div k
    BY <1>2, <2>1 DEF MulWithFactor, MulArbitrary
  <2> HIDE DEF k
  <2>3. x * k \in Nat /\ w * k \in Nat /\ x * k <= w * k
    BY <2>1
  <2>4. m \in Nat /\ n \in Nat /\ m <= n
    BY <2>3, OneNat, RoundedNat, RoundedMonotone
  <2> HIDE DEF m, n
  <2> QED BY <2>1, <2>2, <2>4, DivMonotone
<1> QED BY <1>1, <1>2

(* What a factor of at least one adds to an amount grows with both. *)
LEMMA MulWithFactorExcess ==
  ASSUME PowersOfTen, NEW d \in Nat, NEW x \in Nat, NEW w \in Nat, x <= w,
         NEW f \in Nat, NEW g \in Nat, One <= f, f <= g
  PROVE  MulWithFactor(x, d, f) - x <= MulWithFactor(w, d, g) - w
<1> DEFINE X == MulWithFactor(x, d, f)
           W == MulWithFactor(w, d, g)
<1>1. X \in Nat /\ W \in Nat
  BY MulWithFactorNat
<1>2. CASE d > FixedPrecision
  <2> DEFINE k == 10^(d - FixedPrecision)
             s == 10^d
  <2>1. k \in Nat \ {0} /\ s \in Nat \ {0} /\ s = One * k
    BY <1>2, Scales
  <2>2. X = (x * (f * k) + s \div 2) \div s /\ W = (w * (g * k) + s \div 2) \div s
    BY <1>2 DEF MulWithFactor, MulArbitrary
  <2> HIDE DEF k, s, X, W
  <2>3. f * k \in Nat /\ g * k \in Nat /\ One * k <= f * k /\ f * k <= g * k
    BY <2>1, OneNat
  <2>4. X + (w - x) <= W
    BY <2>1, <2>2, <2>3, RoundedExcess
  <2>5. X - x <= W - w
    BY <1>1, <2>4
  <2> QED BY <2>5 DEF X, W
<1>3. CASE ~(d > FixedPrecision)
  <2> DEFINE k == 10^(FixedPrecision - d)
             m == (x * k * f + One \div 2) \div One
             n == (w * k * g + One \div 2) \div One
  <2>1. k \in Nat \ {0} /\ 10^FixedPrecision = One
    BY <1>3, Scales
  <2>2. X = m \div k /\ W = n \div k
    BY <1>3, <2>1 DEF MulWithFactor, MulArbitrary
  <2> HIDE DEF k, X, W
  <2>3. x * k \in Nat /\ w * k \in Nat /\ x * k <= w * k
    BY <2>1
  <2>4. m \in Nat /\ n \in Nat /\ m + (w * k - x * k) <= n
    BY <2>3, OneNat, RoundedNat, RoundedExcess
  <2> HIDE DEF m, n
  <2>5. X * k <= m
    BY <2>1, <2>2, <2>4
  <2>6. (X + (w - x)) * k = X * k + (w * k - x * k)
    BY <1>1, <2>1
  <2>7. (X + (w - x)) * k <= n
    <3>1. X * k \in Nat
      BY <1>1, <2>1
    <3> QED BY <2>3, <2>4, <2>5, <2>6, <3>1
  <2>8. w - x \in Nat /\ X + (w - x) \in Nat
    BY <1>1
  <2>9. X + (w - x) <= n \div k
    BY <2>1, <2>4, <2>7, <2>8, DivAtLeast
  <2>10. X - x <= W - w
    BY <1>1, <2>2, <2>9
  <2> QED BY <2>10 DEF X, W
<1> QED BY <1>2, <1>3

LEMMA DivWithFactorNat ==
  ASSUME PowersOfTen, NEW d \in Nat, NEW x \in Nat, NEW f \in Nat \ {0}
  PROVE  DivWithFactor(x, d, f) \in Nat
<1>1. f \div 2 \in Nat
  BY HalfNat
<1>2. CASE d > FixedPrecision
  <2> DEFINE k == 10^(d - FixedPrecision)
             s == 10^d
             h == (f * k) \div 2
  <2>1. k \in Nat \ {0} /\ s \in Nat \ {0}
    BY <1>2, Scales
  <2>2. DivWithFactor(x, d, f) = (x * s + h) \div (f * k)
    BY <1>2 DEF DivWithFactor, DivArbitrary
  <2> HIDE DEF k, s
  <2>3. f * k \in Nat \ {0}
    BY <2>1
  <2>4. h \in Nat
    BY <2>3, HalfNat
  <2>5. x * s + h \in Nat
    BY <2>1, <2>4
  <2> QED BY <2>2, <2>3, <2>5, DivNat
<1>3. CASE ~(d > FixedPrecision)
  <2> DEFINE k == 10^(FixedPrecision - d)
             m == x * k * One + f \div 2
  <2>1. k \in Nat \ {0} /\ 10^FixedPrecision = One
    BY <1>3, Scales
  <2>2. DivWithFactor(x, d, f) = (m \div f) \div k
    BY <1>3, <2>1 DEF DivWithFactor, DivArbitrary
  <2> HIDE DEF k
  <2>3. m \in Nat
    BY <1>1, <2>1, OneNat
  <2> HIDE DEF m
  <2>4. m \div f \in Nat
    BY <2>3, DivNat
  <2> QED BY <2>1, <2>2, <2>4, DivNat
<1> QED BY <1>2, <1>3

LEMMA DivWithFactorMonotone ==
  ASSUME PowersOfTen, NEW d \in Nat, NEW x \in Nat, NEW w \in Nat, x <= w,
         NEW f \in Nat \ {0}
  PROVE  DivWithFactor(x, d, f) <= DivWithFactor(w, d, f)
<1>1. f \div 2 \in Nat
  BY HalfNat
<1>2. CASE d > FixedPrecision
  <2> DEFINE k == 10^(d - FixedPrecision)
             s == 10^d
             h == (f * k) \div 2
  <2>1. k \in Nat \ {0} /\ s \in Nat \ {0}
    BY <1>2, Scales
  <2>2. /\ DivWithFactor(x, d, f) = (x * s + h) \div (f * k)
        /\ DivWithFactor(w, d, f) = (w * s + h) \div (f * k)
    BY <1>2 DEF DivWithFactor, DivArbitrary
  <2> HIDE DEF k, s
  <2>3. f * k \in Nat \ {0}
    BY <2>1
  <2>4. h \in Nat
    BY <2>3, HalfNat
  <2>5. x * s \in Nat /\ w * s \in Nat /\ x * s <= w * s
    BY <2>1
  <2>6. x * s + h \in Nat /\ w * s + h \in Nat /\ x * s + h <= w * s + h
    BY <2>4, <2>5
  <2> QED BY <2>2, <2>3, <2>6, DivMonotone
<1>3. CASE ~(d > FixedPrecision)
  <2> DEFINE k == 10^(FixedPrecision - d)
             m == x * k * One + f \div 2
             n == w * k * One + f \div 2
  <2>1. k \in Nat \ {0} /\ 10^FixedPrecision = One
    BY <1>3, Scales
  <2>2. /\ DivWithFactor(x, d, f) = (m \div f) \div k
        /\ DivWithFactor(w, d, f) = (n \div f) \div k
    BY <1>3, <2>1 DEF DivWithFactor, DivArbitrary
  <2> HIDE DEF k
  <2>3. x * k \in Nat /\ w * k \in Nat /\ x * k <= w * k
    BY <2>1
  <2>4. x * k * One \in Nat /\ w * k * One \in Nat /\ x * k * One <= w * k * One
    BY <2>3, OneNat
  <2>5. m \in Nat /\ n \in Nat /\ m <= n
    BY <1>1, <2>4
  <2> HIDE DEF m, n
  <2>6. m \div f \in Nat /\ n \div f \in Nat /\ m \div f <= n \div f
    BY <2>5, DivNat, DivMonotone
  <2> QED BY <2>1, <2>2, <2>6, DivMonotone
<1> QED BY <1>2, <1>3

(* The exchange gives an amount, and never less for more. *)
LEMMA GetYFromXMonotone ==
  ASSUME PowersOfTen, NEW x \in Nat, NEW w \in Nat, x <= w,
         NEW d \in Nat, NEW e \in Nat, NEW p \in Nat \ {0}, NEW q \in Nat \ {0}
  PROVE  /\ GetYFromX(x, d, e, p, q) \in Nat /\ GetYFromX(w, d, e, p, q) \in Nat
         /\ GetYFromX(x, d, e, p, q) <= GetYFromX(w, d, e, p, q)
<1>1. CASE d > e
  <2> DEFINE k == 10^(d - e)
             a == MulWithFactor(x, d, p)
             b == MulWithFactor(w, d, p)
             m == DivWithFactor(a, d, q)
             n == DivWithFactor(b, d, q)
  <2>1. k \in Nat \ {0}
    <3>1. d - e \in Nat
      BY <1>1
    <3> QED BY <3>1 DEF PowersOfTen
  <2>2. GetYFromX(x, d, e, p, q) = m \div k /\ GetYFromX(w, d, e, p, q) = n \div k
    BY <1>1 DEF GetYFromX
  <2>3. a \in Nat /\ b \in Nat /\ a <= b
    BY MulWithFactorNat, MulWithFactorMonotone
  <2> HIDE DEF a, b, k
  <2>4. m \in Nat /\ n \in Nat /\ m <= n
    BY <2>3, DivWithFactorNat, DivWithFactorMonotone
  <2> HIDE DEF m, n
  <2> QED BY <2>1, <2>2, <2>4, DivNat, DivMonotone
<1>2. CASE ~(d > e)
  <2> DEFINE k == 10^(e - d)
             a == MulWithFactor(x * k, e, p)
             b == MulWithFactor(w * k, e, p)
  <2>1. k \in Nat \ {0}
    <3>1. e - d \in Nat
      BY <1>2
    <3> QED BY <3>1 DEF PowersOfTen
  <2>2. /\ GetYFromX(x, d, e, p, q) = DivWithFactor(a, e, q)
        /\ GetYFromX(w, d, e, p, q) = DivWithFactor(b, e, q)
    BY <1>2 DEF GetYFromX
  <2> HIDE DEF k
  <2>3. x * k \in Nat /\ w * k \in Nat /\ x * k <= w * k
    BY <2>1
  <2>4. a \in Nat /\ b \in Nat /\ a <= b
    BY <2>3, MulWithFactorNat, MulWithFactorMonotone
  <2> HIDE DEF a, b
  <2> QED BY <2>2, <2>4, DivWithFactorNat, DivWithFactorMonotone
<1> QED BY <1>1, <1>2

-----------------------------------------------------------------------------
(* How far a result is from the exact one.  Bounds on quotients are stated *)
(* on products, twice over where a half is meant.                          *)

LEMMA Regroup ==
  ASSUME NEW a \in Int, NEW b \in Int, NEW c \in Int
  PROVE  a * (b * c) = (a * b) * c
OBVIOUS

LEMMA Cancel ==
  ASSUME NEW a \in Int, NEW b \in Int, NEW k \in Nat \ {0}
  PROVE  (a * k <= b * k => a <= b) /\ (a * k < b * k => a < b)
<1>1. ASSUME b + 1 <= a PROVE b * k + k <= a * k
  BY <1>1
<1>2. ASSUME b <= a PROVE b * k <= a * k
  BY <1>2
<1>3. a * k \in Int /\ b * k \in Int
  OBVIOUS
<1> QED BY <1>1, <1>2, <1>3

(* Rounding to the nearest is off by no more than half. *)
LEMMA RoundedBounds ==
  ASSUME NEW n \in Nat, NEW s \in Nat \ {0}, NEW q, q = (n + s \div 2) \div s
  PROVE  q \in Nat /\ 2 * (q * s) <= 2 * n + s /\ 2 * n <= 2 * (q * s) + s
<1> DEFINE h == s \div 2
           r == (n + h) % s
<1>1. h \in Nat /\ 2 * h <= s /\ s <= 2 * h + 1
  OBVIOUS
<1>2. q = (n + h) \div s
  OBVIOUS
<1> HIDE DEF h
<1>3. n + h \in Nat
  BY <1>1
<1>4. q \in Nat /\ r \in Nat /\ n + h = q * s + r /\ r < s
  BY <1>2, <1>3
<1> HIDE DEF r
<1>5. q * s \in Nat
  BY <1>4
<1> QED BY <1>1, <1>4, <1>5

LEMMA MulBounds ==
  ASSUME NEW x \in Nat, NEW y \in Nat
  PROVE  /\ Mul(x, y) \in Nat
         /\ 2 * (Mul(x, y) * One) <= 2 * (x * y) + One
         /\ 2 * (x * y) <= 2 * (Mul(x, y) * One) + One
<1>1. x * y \in Nat /\ Mul(x, y) = (x * y + One \div 2) \div One
  BY DEF Mul
<1> QED BY <1>1, OneNat, RoundedBounds

LEMMA DivBounds ==
  ASSUME NEW x \in Nat, NEW y \in Nat \ {0}
  PROVE  /\ Div(x, y) \in Nat
         /\ 2 * (Div(x, y) * y) <= 2 * (x * One) + y
         /\ 2 * (x * One) <= 2 * (Div(x, y) * y) + y
<1>1. x * One \in Nat /\ Div(x, y) = (x * One + y \div 2) \div y
  BY OneNat DEF Div
<1> QED BY <1>1, RoundedBounds

(* The two ways in which MulWithFactor and DivWithFactor compute x * f \div *)
(* s: with both scaled up by k, or with x scaled up and the result down.   *)
LEMMA ScaledUpBounds ==
  ASSUME NEW x \in Nat, NEW f \in Nat, NEW s \in Nat \ {0}, NEW k \in Nat \ {0},
         NEW q, q = (x * (f * k) + (s * k) \div 2) \div (s * k)
  PROVE  q \in Nat /\ 2 * (q * s) <= 2 * (x * f) + s /\ x * f < q * s + s
<1> DEFINE a == x * f
<1>1. s * k \in Nat \ {0} /\ x * (f * k) \in Nat /\ x * (f * k) = a * k /\ a \in Nat
  OBVIOUS
<1>2. /\ q \in Nat /\ 2 * (q * (s * k)) <= 2 * (a * k) + s * k
      /\ 2 * (a * k) <= 2 * (q * (s * k)) + s * k
  BY <1>1, RoundedBounds
<1> HIDE DEF a
<1>3. ASSUME NEW r \in Nat, r = q
      PROVE  2 * (r * s) <= 2 * a + s /\ a < r * s + s
  <2> DEFINE b == r * s
  <2>1. b \in Nat /\ r * (s * k) = b * k
    BY Regroup
  <2> HIDE DEF b
  <2>2. (2 * b) * k <= (2 * a + s) * k /\ (2 * a) * k <= (2 * b + s) * k
    BY <1>1, <1>2, <1>3, <2>1
  <2>3. 2 * b <= 2 * a + s /\ 2 * a <= 2 * b + s
    BY <1>1, <2>1, <2>2, Cancel
  <2> QED BY <1>1, <2>1, <2>3 DEF b
<1> QED BY <1>2, <1>3 DEF a

LEMMA ScaledBackBounds ==
  ASSUME NEW x \in Nat, NEW f \in Nat, NEW s \in Nat \ {0}, NEW k \in Nat \ {0},
         NEW q, q = ((x * k * f + s \div 2) \div s) \div k
  PROVE  q \in Nat /\ 2 * (q * s) <= 2 * (x * f) + s /\ x * f < q * s + s
<1> DEFINE m == (x * k * f + s \div 2) \div s
           a == x * f
           b == q * s
<1>1. x * k * f \in Nat /\ x * k * f = a * k
  OBVIOUS
<1>2. m \in Nat /\ 2 * (m * s) <= 2 * (a * k) + s /\ 2 * (a * k) <= 2 * (m * s) + s
  BY <1>1, RoundedBounds
<1>3. q = m \div k
  OBVIOUS
<1> HIDE DEF m
<1>4. q \in Nat /\ q * k <= m /\ m + 1 <= q * k + k
  BY <1>2, <1>3
<1>5. a \in Nat /\ b \in Nat /\ (q * k) * s = b * k
  BY <1>4
<1>6. (q * k) * s <= m * s /\ (m + 1) * s <= (q * k + k) * s
  BY <1>2, <1>4
<1>7. /\ (m + 1) * s = m * s + s /\ (q * k + k) * s = b * k + s * k
      /\ m * s \in Nat /\ a * k \in Nat /\ b * k \in Nat /\ s <= s * k /\ s * k \in Nat
  BY <1>2, <1>4, <1>5
<1> HIDE DEF a, b
<1>8. 2 * (b * k) <= 2 * (a * k) + s * k /\ a * k < b * k + s * k
  BY <1>2, <1>5, <1>6, <1>7
<1>9. (2 * b) * k <= (2 * a + s) * k /\ a * k < (b + s) * k
  BY <1>5, <1>8
<1>10. 2 * b <= 2 * a + s /\ a < b + s
  BY <1>5, <1>9, Cancel
<1> QED BY <1>4, <1>10 DEF a, b

(* Scaling an amount by a fixed-point factor gains at most half a unit and *)
(* loses less than a whole one.                                            *)
LEMMA MulWithFactorBounds ==
  ASSUME PowersOfTen, NEW d \in Nat, NEW x \in Nat, NEW f \in Nat
  PROVE  /\ 2 * (MulWithFactor(x, d, f) * One) <= 2 * (x * f) + One
         /\ x * f < MulWithFactor(x, d, f) * One + One
<1> DEFINE q == MulWithFactor(x, d, f)
<1>1. CASE d > FixedPrecision
  <2> DEFINE k == 10^(d - FixedPrecision)
  <2>1. k \in Nat \ {0} /\ 10^d = One * k
    BY <1>1, Scales
  <2>2. q = (x * (f * k) + (One * k) \div 2) \div (One * k)
    BY <1>1, <2>1 DEF MulWithFactor, MulArbitrary
  <2> HIDE DEF k, q
  <2>3. 2 * (q * One) <= 2 * (x * f) + One /\ x * f < q * One + One
    BY <2>1, <2>2, OneNat, ScaledUpBounds
  <2> QED BY <2>3 DEF q
<1>2. CASE ~(d > FixedPrecision)
  <2> DEFINE k == 10^(FixedPrecision - d)
  <2>1. k \in Nat \ {0} /\ 10^FixedPrecision = One
    BY <1>2, Scales
  <2>2. q = ((x * k * f + One \div 2) \div One) \div k
    BY <1>2, <2>1 DEF MulWithFactor, MulArbitrary
  <2> HIDE DEF k, q
  <2>3. 2 * (q * One) <= 2 * (x * f) + One /\ x * f < q * One + One
    BY <2>1, <2>2, OneNat, ScaledBackBounds
  <2> QED BY <2>3 DEF q
<1> QED BY <1>1, <1>2

LEMMA DivWithFactorBounds ==
  ASSUME PowersOfTen, NEW d \in Nat, NEW x \in Nat, NEW f \in Nat \ {0}
  PROVE  /\ 2 * (DivWithFactor(x, d, f) * f) <= 2 * (x * One) + f
         /\ x * One < DivWithFactor(x, d, f) * f + f
<1> DEFINE q == DivWithFactor(x, d, f)
<1>1. CASE d > FixedPrecision
  <2> DEFINE k == 10^(d - FixedPrecision)
  <2>1. k \in Nat \ {0} /\ 10^d = One * k
    BY <1>1, Scales
  <2>2. q = (x * (One * k) + (f * k) \div 2) \div (f * k)
    BY <1>1, <2>1 DEF DivWithFactor, DivArbitrary
  <2> HIDE DEF k, q
  <2>3. 2 * (q * f) <= 2 * (x * One) + f /\ x * One < q * f + f
    BY <2>1, <2>2, OneNat, ScaledUpBounds
  <2> QED BY <2>3 DEF q
<1>2. CASE ~(d > FixedPrecision)
  <2> DEFINE k == 10^(FixedPrecision - d)
  <2>1. k \in Nat \ {0} /\ 10^FixedPrecision = One
    BY <1>2, Scales
  <2>2. q = ((x * k * One + f \div 2) \div f) \div k
    BY <1>2, <2>1 DEF DivWithFactor, DivArbitrary
  <2> HIDE DEF k, q
  <2>3. 2 * (q * f) <= 2 * (x * One) + f /\ x * One < q * f + f
    BY <2>1, <2>2, OneNat, ScaledBackBounds
  <2> QED BY <2>3 DEF q
<1> QED BY <1>1, <1>2

-----------------------------------------------------------------------------
(* Trading at two prices.  An amount of a debt is converted to collateral  *)
(* and raised by a rate r, or an amount of collateral converted to debt    *)
(* and reduced by it; each of the five roundings on the way is off by half *)
(* of what it divides by, and the lemmas add them up.  V is the worth of   *)
(* the collateral, P that of the debt, p and q are the two prices.         *)

Slack(r, p, q, w) == r * (One + w) + (p + q) * (One + r)

LEMMA SlackNat ==
  ASSUME NEW r \in Nat, NEW p \in Nat, NEW q \in Nat, NEW w \in Nat, NEW v \in Nat, w <= v
  PROVE  Slack(r, p, q, w) \in Nat /\ Slack(r, p, q, w) <= Slack(r, p, q, v)
<1>1. r * (One + w) \in Nat /\ r * (One + v) \in Nat /\ (p + q) * (One + r) \in Nat
  BY OneNat
<1>2. r * (One + w) <= r * (One + v)
  BY OneNat
<1> QED BY <1>1, <1>2 DEF Slack

(* An inequality scaled up is the inequality rounded down. *)
LEMMA RoundedDown ==
  ASSUME NEW v \in Nat, NEW m \in Nat, NEW s \in Nat, NEW k \in Nat \ {0},
         v * k <= m * k + k + s
  PROVE  v <= m + (1 + s \div k)
<1> DEFINE d == s \div k
<1>1. d \in Nat /\ s < d * k + k
  OBVIOUS
<1> HIDE DEF d
<1>2. (m + d + 2) * k = m * k + k + (d * k + k)
  BY <1>1
<1>3. v * k < (m + d + 2) * k
  <2>1. v * k \in Nat /\ m * k \in Nat /\ d * k \in Nat
    BY <1>1
  <2> QED BY <1>1, <1>2, <2>1
<1>4. v < m + d + 2
  BY <1>1, <1>3, Cancel
<1> QED BY <1>1, <1>4 DEF d

(* What a debt of worth P buys. *)
LEMMA BoughtWorth ==
  ASSUME NEW P \in Nat, NEW p \in Nat \ {0}, NEW r \in Nat
  PROVE  2 * (Mul(Mul(Div(P, p), r), p) * (One * One))
           <= 2 * (Mul(P, r) * (One * One)) + 2 * (One * One) + p * (One + r)
<1> DEFINE w == Div(P, p)
           t == Mul(w, r)
           V == Mul(t, p)
           M == Mul(P, r)
<1>1. w \in Nat /\ 2 * (w * p) <= 2 * (P * One) + p
  BY DivBounds
<1> HIDE DEF w
<1>2. t \in Nat /\ 2 * (t * One) <= 2 * (w * r) + One
  BY <1>1, MulBounds
<1> HIDE DEF t
<1>3. V \in Nat /\ 2 * (V * One) <= 2 * (t * p) + One
  BY <1>2, MulBounds
<1>4. M \in Nat /\ 2 * (P * r) <= 2 * (M * One) + One
  BY MulBounds
<1> HIDE DEF V, M
<1> DEFINE O == One * One
           a == (t * p) * One
           b == (w * p) * r
           c == (P * r) * One
<1>5. 2 * (V * O) <= 2 * a + O
  <2>1. (2 * (V * One)) * One <= (2 * (t * p) + One) * One
    BY <1>2, <1>3, OneNat
  <2>2. (2 * (V * One)) * One = 2 * (V * O) /\ (2 * (t * p) + One) * One = 2 * a + O
    BY <1>2, <1>3, OneNat
  <2> QED BY <2>1, <2>2
<1>6. 2 * a <= 2 * b + One * p
  <2>1. (2 * (t * One)) * p <= (2 * (w * r) + One) * p
    BY <1>1, <1>2, OneNat
  <2>2. (2 * (t * One)) * p = 2 * a /\ (2 * (w * r) + One) * p = 2 * b + One * p
    BY <1>1, <1>2, OneNat
  <2> QED BY <2>1, <2>2
<1>7. 2 * b <= 2 * c + p * r
  <2>1. (2 * (w * p)) * r <= (2 * (P * One) + p) * r
    BY <1>1, OneNat
  <2>2. (2 * (w * p)) * r = 2 * b /\ (2 * (P * One) + p) * r = 2 * c + p * r
    BY <1>1, OneNat
  <2> QED BY <2>1, <2>2
<1>8. 2 * c <= 2 * (M * O) + O
  <2>1. (2 * (P * r)) * One <= (2 * (M * One) + One) * One
    BY <1>4, OneNat
  <2>2. (2 * (P * r)) * One = 2 * c /\ (2 * (M * One) + One) * One = 2 * (M * O) + O
    BY <1>4, OneNat
  <2> QED BY <2>1, <2>2
<1>9. p * (One + r) = One * p + p * r
  BY OneNat
<1>10. /\ V * O \in Nat /\ a \in Nat /\ b \in Nat /\ c \in Nat /\ M * O \in Nat
       /\ O \in Nat /\ One * p \in Nat /\ p * r \in Nat
  BY <1>1, <1>2, <1>3, <1>4, OneNat
<1> HIDE DEF a, b, c, O
<1> QED BY <1>5, <1>6, <1>7, <1>8, <1>9, <1>10 DEF O, V, M, t, w

(* What collateral of worth V sells for: M is what that debt would buy.    *)
LEMMA SoldWorth ==
  ASSUME NEW V \in Nat, NEW q \in Nat \ {0}, NEW r \in Nat \ {0}
  PROVE  LET P == Mul(Mul(Div(V, q), Div(One, r)), q)
         IN 2 * (V * (One * One))
              <= 2 * (Mul(P, r) * (One * One)) + 2 * (One * One) + r * (One + V) + q * (One + r)
<1> DEFINE y == Div(V, q)
           s == Div(One, r)
           n == Mul(y, s)
           P == Mul(n, q)
           M == Mul(P, r)
           O == One * One
<1>1. y \in Nat /\ 2 * (V * One) <= 2 * (y * q) + q
  BY DivBounds
<1>2. s \in Nat /\ 2 * O <= 2 * (s * r) + r
  BY OneNat, DivBounds
<1> HIDE DEF y, s
<1>3. n \in Nat /\ 2 * (y * s) <= 2 * (n * One) + One
  BY <1>1, <1>2, MulBounds
<1> HIDE DEF n
<1>4. P \in Nat /\ 2 * (n * q) <= 2 * (P * One) + One
  BY <1>3, MulBounds
<1> HIDE DEF P
<1>5. M \in Nat /\ 2 * (P * r) <= 2 * (M * One) + One
  BY <1>4, MulBounds
<1> HIDE DEF M
<1>6. O \in Nat \ {0}
  BY OneNat
<1> HIDE DEF O
<1>7. /\ V * O \in Nat /\ M * O \in Nat /\ V * r \in Nat /\ One * r \in Nat
      /\ q * One \in Nat /\ q * r \in Nat
      /\ r * (One + V) = One * r + V * r /\ q * (One + r) = q * One + q * r
  BY <1>4, <1>5, <1>6, OneNat
<1>8. 2 * (V * O) <= 2 * (M * O) + 2 * O + r * (One + V) + q * (One + r)
  (* a rate that swallows the worth leaves nothing to show *)
  <2>1. CASE 2 * O <= r
    <3>1. V * (2 * O) <= V * r
      BY <1>6, <2>1
    <3>2. V * (2 * O) = 2 * (V * O)
      BY <1>6
    <3> QED BY <1>6, <1>7, <3>1, <3>2
  <2>2. CASE r < 2 * O
    <3> DEFINE k == 2 * O - r
               z == (y * s) * (q * r)
               x == (n * q) * (One * r)
               g == (P * r) * O
    <3>1. k \in Nat /\ 2 * O = k + r /\ k <= 2 * (s * r)
      BY <1>2, <1>6, <2>2
    <3> HIDE DEF k
    <3>2. 2 * ((V * One) * k) <= 4 * z + q * k
      <4>1. (2 * (V * One)) * k <= (2 * (y * q) + q) * k
        BY <1>1, <3>1, OneNat
      <4>2. (2 * (V * One)) * k = 2 * ((V * One) * k) /\ (2 * (y * q) + q) * k = 2 * ((y * q) * k) + q * k
        BY <1>1, <3>1, OneNat
      <4>3. (y * q) * k <= (y * q) * (2 * (s * r))
        BY <1>1, <1>2, <3>1
      <4>4. (y * q) * (2 * (s * r)) = 2 * z
        BY <1>1, <1>2
      <4>5. (V * One) * k \in Nat /\ (y * q) * k \in Nat /\ z \in Nat /\ q * k \in Nat
        BY <1>1, <1>2, <3>1, OneNat
      <4> QED BY <4>1, <4>2, <4>3, <4>4, <4>5
    <3>3. 2 * z <= 2 * x + One * (q * r)
      <4>1. (2 * (y * s)) * (q * r) <= (2 * (n * One) + One) * (q * r)
        BY <1>1, <1>2, <1>3, OneNat
      <4>2. (2 * (y * s)) * (q * r) = 2 * z /\ (2 * (n * One) + One) * (q * r) = 2 * x + One * (q * r)
        BY <1>1, <1>2, <1>3, OneNat
      <4> QED BY <4>1, <4>2
    <3>4. 2 * x <= 2 * g + One * (One * r)
      <4>1. (2 * (n * q)) * (One * r) <= (2 * (P * One) + One) * (One * r)
        BY <1>3, <1>4, OneNat
      <4>2. (2 * (n * q)) * (One * r) = 2 * x
        BY <1>3, OneNat
      <4>3. (2 * (P * One) + One) * (One * r) = 2 * g + One * (One * r)
        BY <1>4, OneNat DEF O
      <4> QED BY <4>1, <4>2, <4>3
    <3>5. 2 * g <= 2 * ((M * O) * One) + One * O
      <4>1. (2 * (P * r)) * O <= (2 * (M * One) + One) * O
        BY <1>4, <1>5, <1>6, OneNat
      <4>2. (2 * (P * r)) * O = 2 * g /\ (2 * (M * One) + One) * O = 2 * ((M * O) * One) + One * O
        BY <1>4, <1>5, <1>6, OneNat
      <4> QED BY <4>1, <4>2
    <3>6. /\ z \in Nat /\ x \in Nat /\ g \in Nat /\ (V * One) * k \in Nat /\ q * k \in Nat
          /\ (M * O) * One \in Nat /\ One * O \in Nat /\ One * (One * r) \in Nat
          /\ One * (q * r) \in Nat
      BY <1>1, <1>2, <1>3, <1>4, <1>5, <1>6, <3>1, OneNat
    <3> HIDE DEF z, x, g
    <3>7. 2 * ((V * One) * k) <= 4 * ((M * O) * One) + 2 * (One * O) + 2 * (One * (One * r))
                                   + 2 * (One * (q * r)) + q * k
      BY <3>2, <3>3, <3>4, <3>5, <3>6
    <3>8. 2 * ((V * One) * k) + 2 * ((V * r) * One) = 4 * ((V * O) * One)
      <4>1. (V * One) * (2 * O) = (V * One) * k + (V * One) * r
        BY <3>1, OneNat
      <4>2. (V * One) * (2 * O) = 2 * ((V * O) * One) /\ (V * One) * r = (V * r) * One
        BY <1>6, OneNat
      <4>3. (V * r) * One \in Nat /\ (V * O) * One \in Nat
        BY <1>6, OneNat
      <4> QED BY <3>6, <4>1, <4>2, <4>3
    <3>9. q * k <= 2 * ((q * One) * One)
      <4>1. q * k <= q * (2 * O)
        BY <1>6, <3>1
      <4>2. q * (2 * O) = 2 * ((q * One) * One)
        BY OneNat DEF O
      <4> QED BY <4>1, <4>2
    <3>10. /\ One * O = O * One /\ One * (One * r) = (One * r) * One /\ One * (q * r) = (q * r) * One
           /\ (q * One) * One \in Nat /\ (V * O) * One \in Nat /\ (V * r) * One \in Nat
      BY <1>6, OneNat
    <3>11. 2 * ((V * O) * One) <= 2 * ((M * O) * One) + O * One + (One * r) * One + (q * r) * One
                                    + (q * One) * One + (V * r) * One
      BY <3>6, <3>7, <3>8, <3>9, <3>10
    <3>12. (2 * (V * O)) * One
             <= (2 * (M * O) + O + One * r + q * r + q * One + V * r) * One
      <4>1. (2 * (V * O)) * One = 2 * ((V * O) * One)
        BY <1>7, OneNat
      <4>2. (2 * (M * O) + O + One * r + q * r + q * One + V * r) * One
              = 2 * ((M * O) * One) + O * One + (One * r) * One + (q * r) * One
                  + (q * One) * One + (V * r) * One
        <5> DEFINE mo == M * O
                   a == One * r
                   b == q * r
                   c == q * One
                   d == V * r
        <5>1. mo \in Nat /\ a \in Nat /\ b \in Nat /\ c \in Nat /\ d \in Nat
          BY <1>7
        <5> HIDE DEF mo, a, b, c, d
        <5>2. (2 * mo + O + a + b + c + d) * One
                = 2 * (mo * One) + O * One + a * One + b * One + c * One + d * One
          BY <1>6, <5>1, OneNat
        <5> QED BY <5>2 DEF mo, a, b, c, d
      <4> QED BY <3>11, <4>1, <4>2
    <3>13. 2 * (V * O) <= 2 * (M * O) + O + One * r + q * r + q * One + V * r
      BY <1>6, <1>7, <3>12, OneNat, Cancel
    <3> QED BY <1>6, <1>7, <3>13
  <2> QED BY <1>6, <2>1, <2>2
<1> QED BY <1>8 DEF O, M, P, n, y, s
(* A part of what was bought is no dearer than all of it. *)
LEMMA PartWorth ==
  ASSUME NEW V \in Nat, NEW M \in Nat, NEW p \in Nat, NEW q \in Nat, NEW r \in Nat,
         NEW W \in Nat, W <= V,
         2 * (V * (One * One)) <= 2 * (M * (One * One)) + 2 * (One * One) + Slack(r, p, q, V)
  PROVE  2 * (W * (One * One)) <= 2 * (M * (One * One)) + 2 * (One * One) + Slack(r, p, q, W)
<1> DEFINE k == 2 * (One * One)
           m == M * k + k + r * One + (p + q) * (One + r)
<1>1. k \in Nat /\ m \in Nat
  BY OneNat
<1>2. ASSUME NEW w \in Nat
      PROVE  2 * (w * (One * One)) <= 2 * (M * (One * One)) + 2 * (One * One) + Slack(r, p, q, w)
               <=> w * k <= m + w * r
  <2> DEFINE a == M * k
             b == r * One
             c == (p + q) * (One + r)
             d == w * r
             e == w * k
  <2>1. Slack(r, p, q, w) = b + d + c
    BY OneNat DEF Slack
  <2>2. 2 * (w * (One * One)) = e /\ 2 * (M * (One * One)) = a
    BY OneNat
  <2>3. a \in Nat /\ b \in Nat /\ c \in Nat /\ d \in Nat /\ e \in Nat
    BY <1>1, OneNat
  <2>4. m = a + k + b + c
    OBVIOUS
  <2>5. k = 2 * (One * One)
    OBVIOUS
  <2> HIDE DEF a, b, c, d, e, k, m
  <2>6. e <= a + k + (b + d + c) <=> e <= m + d
    BY <1>1, <2>3, <2>4
  <2> QED BY <2>1, <2>2, <2>5, <2>6 DEF e, d
<1>3. V * k <= m + V * r
  BY <1>2
<1>4. ASSUME W * k <= m + W * r
      PROVE  2 * (W * (One * One)) <= 2 * (M * (One * One)) + 2 * (One * One) + Slack(r, p, q, W)
  BY <1>2, <1>4
<1> HIDE DEF k, m
<1>5. CASE k <= r
  <2>1. W * k <= W * r
    BY <1>1, <1>5
  <2> QED BY <1>1, <1>4, <2>1
<1>6. CASE r < k
  <2>1. W * (k - r) <= V * (k - r)
    BY <1>1, <1>6
  <2>2. W * (k - r) = W * k - W * r /\ V * (k - r) = V * k - V * r
    BY <1>1
  <2>3. W * k \in Nat /\ W * r \in Nat /\ V * k \in Nat /\ V * r \in Nat
    BY <1>1
  <2> QED BY <1>1, <1>3, <1>4, <2>1, <2>2, <2>3
<1> QED BY <1>1, <1>5, <1>6

(* What is sold for collateral that falls short of what A would have      *)
(* bought: at most A.                                                      *)
LEMMA AllowedWorth ==
  ASSUME NEW A \in Nat, NEW p \in Nat \ {0}, NEW q \in Nat \ {0}, NEW r \in Nat, One <= r,
         NEW h \in Nat, h < Mul(Div(A, p), r)
  PROVE  LET P == Mul(Mul(Div(Mul(h, p), q), Div(One, r)), q)
         IN 2 * (P * (One * One)) <= 2 * (A * (One * One)) + 2 * (One * One) + Slack(r, p, q, A)
<1> DEFINE w == Div(A, p)
           t == Mul(w, r)
           V == Mul(h, p)
           y == Div(V, q)
           s == Div(One, r)
           n == Mul(y, s)
           P == Mul(n, q)
           O == One * One
<1>1. w \in Nat /\ 2 * (w * p) <= 2 * (A * One) + p
  BY DivBounds
<1> HIDE DEF w
<1>2. t \in Nat /\ 2 * (t * One) <= 2 * (w * r) + One
  BY <1>1, MulBounds
<1>3. h + 1 <= t
  BY <1>2 DEF w
<1>4. V \in Nat /\ 2 * (V * One) <= 2 * (h * p) + One
  BY MulBounds
<1> HIDE DEF V
<1>5. y \in Nat /\ 2 * (y * q) <= 2 * (V * One) + q
  BY <1>4, DivBounds
<1>6. s \in Nat /\ 2 * (s * r) <= 2 * O + r
  <2>1. r \in Nat \ {0} /\ One \in Nat
    BY OneNat
  <2> HIDE DEF O
  <2> QED BY <2>1, DivBounds DEF O
<1>7. n \in Nat /\ 2 * (n * One) <= 2 * (y * s) + One
  BY <1>5, <1>6, MulBounds
<1>8. P \in Nat /\ 2 * (P * One) <= 2 * (n * q) + One
  BY <1>7, MulBounds
<1>9. O \in Nat \ {0}
  BY OneNat
<1>10. CASE r = One
  <2>1. t = w /\ n = y
    BY <1>1, <1>5, <1>10, OneNat, DivFixedSame, MulOne
  <2> HIDE DEF t, y, s, n, P, O
  <2>2. h * p + p <= w * p
    <3>1. (h + 1) * p <= w * p
      BY <1>1, <1>3, <2>1
    <3> QED BY <3>1
  <2>3. 2 * (P * One) <= 2 * (A * One) + 2 * One + q
    <3>1. /\ h * p \in Nat /\ w * p \in Nat /\ V * One \in Nat /\ y * q \in Nat
          /\ A * One \in Nat /\ P * One \in Nat
      BY <1>1, <1>4, <1>5, <1>8, OneNat
    <3>2. 2 * (P * One) <= 2 * (y * q) + One
      BY <1>8, <2>1
    <3> QED BY <1>1, <1>4, <1>5, <2>2, <3>1, <3>2, OneNat
  <2>4. 2 * (P * O) <= 2 * (A * O) + 2 * O + q * One
    <3>1. (2 * (P * One)) * One <= (2 * (A * One) + 2 * One + q) * One
      BY <1>8, <2>3, OneNat
    <3>2. (2 * (P * One)) * One = 2 * (P * O)
      BY <1>8, OneNat DEF O
    <3>3. (2 * (A * One) + 2 * One + q) * One = 2 * (A * O) + 2 * O + q * One
      BY OneNat DEF O
    <3> QED BY <3>1, <3>2, <3>3
  <2>5. q * One <= Slack(r, p, q, A)
    <3>1. r * (One + A) \in Nat /\ (p + q) * (One + r) = p * (One + r) + q * One + q * r
      BY OneNat
    <3>2. p * (One + r) \in Nat /\ q * r \in Nat /\ q * One \in Nat
      BY OneNat
    <3> QED BY <3>1, <3>2 DEF Slack
  <2>6. P * O \in Nat /\ A * O \in Nat /\ q * One \in Nat /\ Slack(r, p, q, A) \in Nat
    BY <1>8, <1>9, OneNat, SlackNat
  <2> QED BY <1>9, <2>4, <2>5, <2>6 DEF P, O, n, s, y, V
<1>11. CASE r >= One + 1
  <2> HIDE DEF t, y, s, n, P, O
  (* the worth of the collateral, and what it is in debt *)
  <2> DEFINE B == 2 * (A * (One * r)) + p * (r - One) + O + q * One
  <2>1. p * (r - One) \in Nat /\ B \in Nat
    BY <1>9, <1>11, OneNat
  <2>2. 2 * (V * O) <= 2 * (A * (One * r)) + p * (r - One) + O
    <3>1. 2 * (V * O) <= 2 * ((h * p) * One) + O
      <4>1. (2 * (V * One)) * One <= (2 * (h * p) + One) * One
        BY <1>4, OneNat
      <4>2. (2 * (V * One)) * One = 2 * (V * O) /\ (2 * (h * p) + One) * One = 2 * ((h * p) * One) + O
        BY <1>4, OneNat DEF O
      <4> QED BY <4>1, <4>2
    <3>2. (h * p) * One + p * One <= (t * One) * p
      <4>1. (h + 1) * (p * One) <= t * (p * One)
        BY <1>2, <1>3, OneNat
      <4>2. (h + 1) * (p * One) = (h * p) * One + p * One /\ t * (p * One) = (t * One) * p
        BY <1>2, OneNat
      <4> QED BY <4>1, <4>2
    <3>3. 2 * ((t * One) * p) <= 2 * ((w * p) * r) + p * One
      <4>1. (2 * (t * One)) * p <= (2 * (w * r) + One) * p
        BY <1>1, <1>2, OneNat
      <4>2. (2 * (t * One)) * p = 2 * ((t * One) * p) /\ (2 * (w * r) + One) * p = 2 * ((w * p) * r) + p * One
        BY <1>1, <1>2, OneNat
      <4> QED BY <4>1, <4>2
    <3>4. 2 * ((w * p) * r) <= 2 * (A * (One * r)) + p * r
      <4>1. (2 * (w * p)) * r <= (2 * (A * One) + p) * r
        BY <1>1, OneNat
      <4>2. (2 * (w * p)) * r = 2 * ((w * p) * r) /\ (2 * (A * One) + p) * r = 2 * (A * (One * r)) + p * r
        BY <1>1, OneNat
      <4> QED BY <4>1, <4>2
    <3>5. p * (r - One) = p * r - p * One
      BY <1>11, OneNat
    <3>6. /\ V * O \in Nat /\ (h * p) * One \in Nat /\ p * One \in Nat /\ (t * One) * p \in Nat
          /\ (w * p) * r \in Nat /\ A * (One * r) \in Nat /\ p * r \in Nat
      BY <1>1, <1>2, <1>4, <1>9, OneNat
    <3> QED BY <1>9, <3>1, <3>2, <3>3, <3>4, <3>5, <3>6
  <2>3. 2 * ((y * q) * One) <= B
    <3>1. (2 * (y * q)) * One <= (2 * (V * One) + q) * One
      BY <1>4, <1>5, OneNat
    <3>2. (2 * (y * q)) * One = 2 * ((y * q) * One) /\ (2 * (V * One) + q) * One = 2 * (V * O) + q * One
      BY <1>4, <1>5, OneNat DEF O
    <3>3. /\ (y * q) * One \in Nat /\ V * O \in Nat /\ q * One \in Nat /\ A * (One * r) \in Nat
      BY <1>4, <1>5, <1>9, OneNat
    <3> QED BY <1>9, <2>1, <2>2, <3>1, <3>2, <3>3
  <2> DEFINE C == B * (2 * O + r)
  <2>4. C \in Nat
    BY <1>9, <2>1
  <2> HIDE DEF B
  (* reduced by the rate *)
  <2>5. 4 * (((y * s) * (q * r)) * One) <= C
    <3>1. (2 * ((y * q) * One)) * (2 * (s * r)) <= B * (2 * (s * r))
      BY <1>5, <1>6, <2>1, <2>3, OneNat
    <3>2. B * (2 * (s * r)) <= B * (2 * O + r)
      BY <1>6, <1>9, <2>1
    <3>3. (2 * ((y * q) * One)) * (2 * (s * r)) = 4 * (((y * s) * (q * r)) * One)
      BY <1>5, <1>6, OneNat
    <3>4. B * (2 * (s * r)) \in Nat /\ ((y * s) * (q * r)) * One \in Nat
      BY <1>5, <1>6, <2>1, OneNat
    <3> QED BY <2>4, <3>1, <3>2, <3>3, <3>4
  <2> HIDE DEF C
  <2>6. 4 * ((n * q) * (r * O)) <= C + 2 * (q * (r * O))
    <3>1. (2 * (n * One)) * (2 * ((q * r) * One)) <= (2 * (y * s) + One) * (2 * ((q * r) * One))
      BY <1>5, <1>6, <1>7, OneNat
    <3>2. (2 * (n * One)) * (2 * ((q * r) * One)) = 4 * ((n * q) * (r * O))
      BY <1>7, OneNat DEF O
    <3>3. (2 * (y * s) + One) * (2 * ((q * r) * One))
            = 4 * (((y * s) * (q * r)) * One) + 2 * (q * (r * O))
      BY <1>5, <1>6, OneNat DEF O
    <3>4. ((y * s) * (q * r)) * One \in Nat /\ q * (r * O) \in Nat /\ (n * q) * (r * O) \in Nat
      BY <1>5, <1>6, <1>7, <1>9, OneNat
    <3> QED BY <2>4, <2>5, <3>1, <3>2, <3>3, <3>4
  <2>7. (2 * (P * O)) * (2 * (r * One)) <= C + 2 * (q * (r * O)) + 2 * ((r * One) * O)
    <3>1. (2 * (P * One)) * (2 * (r * O)) <= (2 * (n * q) + One) * (2 * (r * O))
      BY <1>7, <1>8, <1>9, OneNat
    <3>2. (2 * (P * One)) * (2 * (r * O)) = (2 * (P * O)) * (2 * (r * One))
      BY <1>8, <1>9, OneNat
    <3>3. (2 * (n * q) + One) * (2 * (r * O)) = 4 * ((n * q) * (r * O)) + 2 * ((r * One) * O)
      BY <1>7, <1>9, OneNat
    <3>4. /\ (n * q) * (r * O) \in Nat /\ q * (r * O) \in Nat /\ (r * One) * O \in Nat
          /\ (2 * (P * O)) * (2 * (r * One)) \in Nat
      BY <1>7, <1>8, <1>9, OneNat
    <3> QED BY <2>4, <2>6, <3>1, <3>2, <3>3, <3>4
  <2> DEFINE G == 2 * (A * O) + 2 * O + (r * One + r * A) + (p + q) * (One + r)
  <2>8. C + 2 * (q * (r * O)) + 2 * ((r * One) * O) <= G * (2 * (r * One))
    <3> DEFINE f == 2 * O + r
               g == 2 * (r * One)
    <3>1. O = One * One /\ f = 2 * O + r /\ g = 2 * (r * One) /\ f \in Nat /\ g \in Nat
      BY <1>9, OneNat DEF O
    <3> HIDE DEF f, g
    <3>2. r * r >= O + 2 * One + 1 /\ O <= r * One /\ r <= r * One /\ r * r \in Nat /\ r * One \in Nat
      <4>1. (One + 1) * (One + 1) <= r * r /\ One * One <= r * One /\ r * 1 <= r * One
        BY <1>11, OneNat
      <4>2. (One + 1) * (One + 1) = O + 2 * One + 1
        BY <3>1, OneNat
      <4> QED BY <3>1, <4>1, <4>2, OneNat
    <3>3. /\ r * O \in Nat /\ One * O \in Nat /\ O * O \in Nat /\ (r * r) * One \in Nat
          /\ (r * r) * O \in Nat /\ (r * One) * O \in Nat /\ r * r <= (r * r) * One
          /\ O * O <= (r * One) * O /\ r * O <= (r * r) * O
      <4>1. (r * r) * 1 <= (r * r) * One /\ O * O <= (r * One) * O
        BY <1>9, <3>2, OneNat
      <4>2. r * O <= (r * r) * O
        BY <1>9, <1>11, OneNat
      <4> QED BY <1>9, <3>2, <4>1, <4>2, OneNat
    <3>4. (One + r) * g = 2 * (r * O) + 2 * ((r * r) * One)
      BY <3>1, OneNat
    <3>5. (r - One) * f <= (One + r) * g
      <4>1. (r - One) * f = 2 * (r * O) + r * r - 2 * (One * O) - r * One
        BY <1>9, <1>11, <3>1, OneNat
      <4> QED BY <3>2, <3>3, <3>4, <4>1
    <3>6. One * f + 2 * (r * O) <= (One + r) * g
      <4>1. One * f = 2 * (One * O) + r * One
        BY <1>9, <3>1, OneNat
      <4>2. (O + 2 * One + 1) * One <= (r * r) * One
        BY <1>9, <3>2, OneNat
      <4>3. (O + 2 * One + 1) * One = One * O + 2 * O + One
        BY <3>1, OneNat
      <4>4. (r * r) * One >= r * O + r * One
        <5>1. (r * One) * (One + 1) <= (r * One) * r
          BY <1>11, <3>2, OneNat
        <5>2. (r * One) * (One + 1) = r * O + r * One /\ (r * One) * r = (r * r) * One
          BY <3>1, OneNat
        <5> QED BY <5>1, <5>2
      <4> HIDE DEF G
      <4>5. O \in Nat /\ One \in Nat
        BY <1>9, OneNat
      <4> QED BY <3>2, <3>3, <3>4, <4>1, <4>2, <4>3, <4>4, <4>5
    <3>7. O * f + 2 * ((r * One) * O) <= (2 * O + r * One) * g
      <4>1. O * f = 2 * (O * O) + r * O
        BY <1>9, <3>1
      <4>2. (2 * O + r * One) * g = 4 * ((r * One) * O) + 2 * ((r * r) * O)
        BY <1>9, <3>1, OneNat
      <4> QED BY <3>3, <4>1, <4>2
    <3>8. (2 * (A * (One * r))) * f = (2 * (A * O) + r * A) * g
      <4>1. (2 * (A * (One * r))) * f = 4 * (A * ((r * One) * O)) + 2 * (A * ((r * r) * One))
        BY <1>9, <3>1, OneNat
      <4>2. (2 * (A * O) + r * A) * g = 4 * (A * ((r * One) * O)) + 2 * (A * ((r * r) * One))
        BY <1>9, <3>1, OneNat
      <4> QED BY <4>1, <4>2
    <3>9. C = (2 * (A * (One * r))) * f + p * ((r - One) * f) + O * f + q * (One * f)
      <4> DEFINE a == 2 * (A * (One * r))
                 b == r - One
      <4>1. a \in Nat /\ b \in Nat
        BY <1>11, OneNat
      <4>2. C = (a + p * b + O + q * One) * f
        BY <3>1 DEF B, C
      <4> HIDE DEF a, b
      <4>3. (a + p * b + O + q * One) * f = a * f + p * (b * f) + O * f + q * (One * f)
        BY <1>9, <3>1, <4>1, OneNat
      <4> QED BY <4>2, <4>3 DEF a, b
    <3>10. G * g = (2 * (A * O) + r * A) * g + (2 * O + r * One) * g
                     + p * ((One + r) * g) + q * ((One + r) * g)
      <4> DEFINE a == 2 * (A * O)
                 b == r * A
                 c == r * One
                 d == One + r
      <4>1. a \in Nat /\ b \in Nat /\ c \in Nat /\ d \in Nat
        BY <1>9, OneNat
      <4>2. G = a + 2 * O + (c + b) + (p + q) * d
        OBVIOUS
      <4> HIDE DEF a, b, c, d, G
      <4>3. (a + 2 * O + (c + b) + (p + q) * d) * g
              = (a + b) * g + (2 * O + c) * g + p * (d * g) + q * (d * g)
        BY <1>9, <3>1, <4>1
      <4> QED BY <4>2, <4>3 DEF a, b, c, d
    <3>11. p * ((r - One) * f) <= p * ((One + r) * g)
      <4> DEFINE a == (r - One) * f
                 b == (One + r) * g
      <4>1. a \in Nat /\ b \in Nat /\ a <= b
        BY <1>11, <3>1, <3>5, OneNat
      <4> HIDE DEF a, b
      <4>2. p * a <= p * b
        BY <4>1
      <4> QED BY <4>2 DEF a, b
    <3>12. q * (One * f) + 2 * (q * (r * O)) <= q * ((One + r) * g)
      <4> DEFINE a == One * f
                 b == r * O
                 c == (One + r) * g
      <4>1. a \in Nat /\ b \in Nat /\ c \in Nat /\ a + 2 * b <= c
        BY <1>9, <3>1, <3>6, OneNat
      <4> HIDE DEF a, b, c
      <4>2. q * a + 2 * (q * b) <= q * c
        <5>1. q * (a + 2 * b) <= q * c
          BY <4>1
        <5>2. q * (a + 2 * b) = q * a + 2 * (q * b)
          BY <4>1
        <5> QED BY <5>1, <5>2
      <4> QED BY <4>2 DEF a, b, c
    <3> DEFINE k1 == (2 * (A * (One * r))) * f
               k2 == p * ((r - One) * f)
               k3 == O * f
               k4 == q * (One * f)
               k5 == q * (r * O)
               k6 == (r * One) * O
               k7 == (2 * O + r * One) * g
               k8 == p * ((One + r) * g)
               k9 == q * ((One + r) * g)
    <3>13. /\ k1 \in Nat /\ k2 \in Nat /\ k3 \in Nat /\ k4 \in Nat /\ k5 \in Nat
           /\ k6 \in Nat /\ k7 \in Nat /\ k8 \in Nat /\ k9 \in Nat
      BY <1>9, <1>11, <3>1, OneNat
    <3>14. C = k1 + k2 + k3 + k4 /\ G * g = k1 + k7 + k8 + k9
      BY <3>8, <3>9, <3>10
    <3>15. k2 <= k8 /\ k4 + 2 * k5 <= k9 /\ k3 + 2 * k6 <= k7
      BY <3>7, <3>11, <3>12
    <3> HIDE DEF k1, k2, k3, k4, k7, k8, k9, G
    <3>16. C + 2 * k5 + 2 * k6 <= G * g
      <4> HIDE DEF k5, k6
      <4> QED BY <3>13, <3>14, <3>15
    <3> QED BY <3>16 DEF g
  <2>9. G \in Nat
    BY <1>9, OneNat
  <2>10. 2 * (P * O) <= G
    <3>1. 2 * (P * O) \in Nat /\ 2 * (r * One) \in Nat \ {0}
      BY <1>8, <1>9, <1>11, OneNat
    <3>2. (2 * (P * O)) * (2 * (r * One)) <= G * (2 * (r * One))
      <4>1. q * (r * O) \in Nat /\ (r * One) * O \in Nat /\ G * (2 * (r * One)) \in Nat
        BY <1>9, <2>9, OneNat
      <4> HIDE DEF G
      <4> QED BY <2>4, <2>7, <2>8, <3>1, <4>1
    <3> HIDE DEF G
    <3> QED BY <2>9, <3>1, <3>2, Cancel
  <2>11. G = 2 * (A * O) + 2 * O + Slack(r, p, q, A)
    <3>1. Slack(r, p, q, A) = r * One + r * A + (p + q) * (One + r)
      BY OneNat DEF Slack
    <3> DEFINE a == (p + q) * (One + r)
               b == r * One
               c == r * A
    <3>2. a \in Nat /\ b \in Nat /\ c \in Nat /\ A * O \in Nat
      BY <1>9, OneNat
    <3> HIDE DEF a, b, c
    <3>3. 2 * (A * O) + 2 * O + (b + c) + a = 2 * (A * O) + 2 * O + (b + c + a)
      BY <1>9, <3>2
    <3> QED BY <3>1, <3>3 DEF a, b, c
  <2> HIDE DEF G
  <2> QED BY <2>10, <2>11 DEF P, O, n, s, y, V
<1> QED BY <1>10, <1>11, OneNat
=============================================================================
