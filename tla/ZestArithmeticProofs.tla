------------------------- MODULE ZestArithmeticProofs -------------------------
(***************************************************************************)
(* The properties of the arithmetic that MCZestMath checks on a small      *)
(* scale, for every scale, every number of decimals and every operand.     *)
(* Each is a lemma about the operators; the theorem is the lemma for the   *)
(* operands of a state.  Lengths of operands in the proofs are those of    *)
(* RoundedBounds: a rounding is off by half its divisor.                   *)
(***************************************************************************)
EXTENDS MCZestMath, ZestMathProofs

LEMMA DistanceBound ==
  ASSUME NEW x \in Int, NEW y \in Int, NEW n \in Int, x <= y + n, y <= x + n
  PROVE  Distance(x, y) <= n
BY DEF Distance

OperandsOK ==
  /\ amount \in Nat /\ decimals \in Nat /\ otherDec \in Nat
  /\ factor \in Nat \ {0} /\ price \in Nat \ {0}

(* The operands of a state are those the lemmas below are about. *)
LEMMA Operands == Spec => []OperandsOK
<1>1. Init => OperandsOK
  BY DEF Init, OperandsOK
<1>2. OperandsOK /\ [Next]_vars => OperandsOK'
  BY RangeAssumption DEF OperandsOK, Next, DrawAmount, DrawDecimals, DrawFactor, DrawPrice, vars,
     RangeAssumption
<1> QED BY <1>1, <1>2, PTL DEF Spec

-----------------------------------------------------------------------------
(* Scaling an amount by a factor and back loses at most a unit and what a  *)
(* factor below one magnifies of it: `mul` and `div` with the same factor  *)
(* undo each other but for that.                                           *)
LEMMA RoundTrip ==
  ASSUME PowersOfTen, NEW x \in Nat, NEW d \in Nat, NEW f \in Nat \ {0}
  PROVE  Distance(DivWithFactor(MulWithFactor(x, d, f), d, f), x) <= 1 + One \div f
<1> DEFINE m == MulWithFactor(x, d, f)
           b == DivWithFactor(m, d, f)
           q == One \div f
<1>1. m \in Nat /\ 2 * (m * One) <= 2 * (x * f) + One /\ x * f < m * One + One
  BY MulWithFactorNat, MulWithFactorBounds
<1>2. b \in Nat /\ 2 * (b * f) <= 2 * (m * One) + f /\ m * One < b * f + f
  BY <1>1, DivWithFactorNat, DivWithFactorBounds
<1>3. q \in Nat /\ One < q * f + f
  BY OneNat
<1> HIDE DEF m, b, q
<1>4. /\ x * f \in Nat /\ b * f \in Nat /\ q * f \in Nat /\ m * One \in Nat
      /\ (b - x) * f = b * f - x * f /\ (x - b) * f = x * f - b * f
      /\ (q + 2) * f = q * f + 2 * f /\ (q + 2) \in Int
  BY <1>1, <1>2, <1>3, OneNat
<1>5. (b - x) * f < (q + 2) * f /\ (x - b) * f < (q + 2) * f
  BY <1>1, <1>2, <1>3, <1>4, OneNat
<1>6. b - x < q + 2 /\ x - b < q + 2
  BY <1>2, <1>3, <1>5, Cancel
<1>7. Distance(b, x) <= 1 + q
  BY <1>2, <1>3, <1>6, DistanceBound
<1> QED BY <1>7 DEF b, m, q

(* mul-precision-with-factor and div-precision-with-factor of math.clar    *)
(* undo each other but for their roundings, for every amount, factor and   *)
(* number of decimals.                                                     *)
THEOREM ScalingUndone == ASSUME PowersOfTen PROVE Spec => []FactorRoundTrip
<1>1. OperandsOK => FactorRoundTrip
  BY RoundTrip DEF OperandsOK, FactorRoundTrip
<1> QED BY <1>1, Operands, PTL

(* No balance scaled by the ratio of a later index to an earlier one       *)
(* shrinks, for any decimals: neither cumulate-balance nor the increase of *)
(* a debt can underflow.                                                   *)
THEOREM AccrualKeeps == ASSUME PowersOfTen PROVE Spec => []AccrualNeverShrinks
<1>1. ASSUME NEW x \in Nat, NEW d \in Nat, NEW f \in Nat \ {0}, NEW p \in Nat \ {0}, f >= p
      PROVE  MulWithFactor(x, d, Div(f, p)) >= x
  <2> DEFINE r == Div(f, p)
             m == MulWithFactor(x, d, r)
  <2>1. r \in Nat /\ One <= r
    BY <1>1, OneNat, DivFixedNat, DivFixedAtLeastOne
  <2> HIDE DEF r
  <2>2. m \in Nat
    BY <2>1, MulWithFactorNat
  <2>3. MulWithFactor(x, d, One) - x <= m - x
    BY <2>1, OneNat, MulWithFactorExcess
  <2>4. MulWithFactor(x, d, One) = x
    BY MulWithFactorOne
  <2> HIDE DEF m
  <2>5. m >= x
    BY <2>2, <2>3, <2>4
  <2> QED BY <2>5 DEF m, r
<1>2. OperandsOK => AccrualNeverShrinks
  BY <1>1 DEF OperandsOK, AccrualNeverShrinks
<1> QED BY <1>2, Operands, PTL

-----------------------------------------------------------------------------
(* What an exchange gives is worth what it is given for, but for a unit of *)
(* the token it gives and a unit of value: the value is scaled down once   *)
(* and the amount up to twice.                                             *)

(* With m the value of the amount and w what it buys, k units of which     *)
(* make one of y.                                                          *)
LEMMA ExchangeBounds ==
  ASSUME NEW x \in Nat, NEW p \in Nat \ {0}, NEW q \in Nat \ {0},
         NEW m \in Nat, 2 * (m * One) <= 2 * (x * p) + One, x * p < m * One + One,
         NEW w \in Nat, 2 * (w * q) <= 2 * (m * One) + q, m * One < w * q + q,
         NEW k \in Nat \ {0}, NEW y \in Nat, y * k <= w, w + 1 <= y * k + k
  PROVE  x * p <= (y * k) * q + (k * q + One) /\ (y * k) * q <= x * p + (k * q + One)
<1> DEFINE n == y * k
<1>1. n \in Nat /\ n <= w /\ w + 1 <= n + k
  OBVIOUS
<1> HIDE DEF n
<1>2. n * q <= w * q /\ (w + 1) * q <= (n + k) * q
  BY <1>1
<1>3. /\ (w + 1) * q = w * q + q /\ (n + k) * q = n * q + k * q
      /\ n * q \in Nat /\ w * q \in Nat /\ k * q \in Nat /\ q <= k * q
      /\ x * p \in Nat /\ m * One \in Nat
  BY <1>1, OneNat
<1> QED BY <1>2, <1>3, OneNat DEF n

LEMMA Exchanged ==
  ASSUME PowersOfTen, NEW x \in Nat, NEW d \in Nat, NEW e \in Nat,
         NEW p \in Nat \ {0}, NEW q \in Nat \ {0}
  PROVE  Distance((x * p) * 10^e, (GetYFromX(x, d, e, p, q) * q) * 10^d) <= q * 10^d + One * 10^e
<1> DEFINE y == GetYFromX(x, d, e, p, q)
<1>1. CASE d > e
  <2> DEFINE k == 10^(d - e)
             t == 10^e
             m == MulWithFactor(x, d, p)
             w == DivWithFactor(m, d, q)
  <2>1. k \in Nat \ {0} /\ t \in Nat \ {0} /\ 10^d = t * k
    <3>1. d - e \in Nat /\ e + (d - e) = d
      BY <1>1
    <3> QED BY <3>1 DEF PowersOfTen
  <2>2. m \in Nat /\ 2 * (m * One) <= 2 * (x * p) + One /\ x * p < m * One + One
    BY MulWithFactorNat, MulWithFactorBounds
  <2>3. w \in Nat /\ 2 * (w * q) <= 2 * (m * One) + q /\ m * One < w * q + q
    BY <2>2, DivWithFactorNat, DivWithFactorBounds
  <2>4. y = w \div k
    BY <1>1 DEF GetYFromX
  <2> HIDE DEF k, t, m, w, y
  <2>5. y \in Nat /\ y * k <= w /\ w + 1 <= y * k + k
    BY <2>1, <2>3, <2>4
  <2> DEFINE a == x * p
             b == (y * k) * q
             c == k * q + One
  <2>6. a <= b + c /\ b <= a + c
    BY <2>1, <2>2, <2>3, <2>5, ExchangeBounds
  <2>7. a \in Nat /\ b \in Nat /\ c \in Nat /\ y * q \in Nat
    BY <2>1, <2>5, OneNat
  <2>8. (y * q) * (t * k) = b * t /\ q * (t * k) + One * t = c * t
    <3>1. (y * q) * (t * k) = ((y * k) * q) * t
      <4>1. (y * q) * (t * k) = ((y * q) * k) * t
        BY <2>1, <2>7, Regroup
      <4>2. (y * q) * k = (y * k) * q
        BY <2>1, <2>5
      <4> QED BY <4>1, <4>2
    <3>2. q * (t * k) = (k * q) * t
      BY <2>1
    <3> QED BY <2>1, <3>1, <3>2, OneNat
  <2> HIDE DEF a, b, c
  <2>9. a * t <= b * t + c * t /\ b * t <= a * t + c * t
    <3>1. a * t <= (b + c) * t /\ b * t <= (a + c) * t
      BY <2>1, <2>6, <2>7
    <3> QED BY <2>1, <2>7, <3>1
  <2>10. a * t \in Int /\ b * t \in Int /\ c * t \in Int
    BY <2>1, <2>7
  <2>11. Distance(a * t, b * t) <= c * t
    BY <2>9, <2>10, DistanceBound
  <2> QED BY <2>1, <2>8, <2>11 DEF a, t, y
<1>2. CASE ~(d > e)
  <2> DEFINE k == 10^(e - d)
             t == 10^d
             m == MulWithFactor(x * k, e, p)
  <2>1. k \in Nat \ {0} /\ t \in Nat \ {0} /\ 10^e = t * k
    <3>1. e - d \in Nat /\ d + (e - d) = e
      BY <1>2
    <3> QED BY <3>1 DEF PowersOfTen
  <2>2. y = DivWithFactor(m, e, q)
    BY <1>2 DEF GetYFromX
  <2> DEFINE z == x * k
  <2>3. z \in Nat
    BY <2>1
  <2>4. m \in Nat /\ 2 * (m * One) <= 2 * (z * p) + One /\ z * p < m * One + One
    BY <2>3, MulWithFactorNat, MulWithFactorBounds
  <2> HIDE DEF z, k, t, m, y
  <2>5. y \in Nat /\ 2 * (y * q) <= 2 * (m * One) + q /\ m * One < y * q + q
    BY <2>2, <2>4, DivWithFactorNat, DivWithFactorBounds
  <2> DEFINE a == z * p
             b == y * q
             c == q + One
  <2>6. a <= b + c /\ b <= a + c
    <3>1. m * One \in Nat /\ z * p \in Nat /\ y * q \in Nat
      BY <2>3, <2>4, <2>5, OneNat
    <3> QED BY <2>4, <2>5, <3>1, OneNat
  <2>7. a \in Nat /\ b \in Nat /\ c \in Nat /\ q * t \in Nat /\ One * t \in Nat
    BY <2>1, <2>3, <2>5, OneNat
  <2>8. (x * p) * (t * k) = a * t /\ c * t = q * t + One * t /\ One * t <= One * (t * k)
    <3>1. (x * p) * (t * k) = a * t
      <4>1. (x * p) * (t * k) = ((x * p) * k) * t
        BY <2>1, Regroup
      <4>2. (x * p) * k = (x * k) * p
        BY <2>1
      <4> QED BY <4>1, <4>2 DEF a, z
    <3>2. One * (t * k) = (One * t) * k
      BY <2>1, OneNat, Regroup
    <3> QED BY <2>1, <2>7, <3>1, <3>2, OneNat
  <2> HIDE DEF a, b, c
  <2>9. a * t <= b * t + c * t /\ b * t <= a * t + c * t
    <3>1. a * t <= (b + c) * t /\ b * t <= (a + c) * t
      BY <2>1, <2>6, <2>7
    <3> QED BY <2>1, <2>7, <3>1
  <2>10. a * t \in Int /\ b * t \in Int /\ c * t \in Int /\ One * (t * k) \in Int
    BY <2>1, <2>7, OneNat
  <2>11. Distance(a * t, b * t) <= q * t + One * (t * k)
    BY <2>7, <2>8, <2>9, <2>10, DistanceBound
  <2> QED BY <2>1, <2>8, <2>11 DEF b, t, y
<1> QED BY <1>1, <1>2

(* What get-y-from-x of math.clar quotes as collateral for a debt is worth *)
(* the debt up to a unit of the collateral and a unit of value, for all    *)
(* prices and all decimals of the two tokens.                              *)
THEOREM ExchangesAreFair == ASSUME PowersOfTen PROVE Spec => []ExchangeIsFair
<1>1. OperandsOK => ExchangeIsFair
  BY Exchanged DEF OperandsOK, ExchangeIsFair
<1> QED BY <1>1, Operands, PTL

-----------------------------------------------------------------------------
(* The compounded interest.  Rounding a power once more adds half a unit   *)
(* to its error, as the factor is at most one; a term has the error of its *)
(* power, divided, and half a unit of its own.  Together that is 4319      *)
(* parts of 720, halved.                                                   *)

(* y stands for p \div o, and is off by no more than c halves.             *)
Near(o, y, p, c) ==
  /\ y \in Nat /\ p \in Nat
  /\ 2 * (o * y) <= 2 * p + c * o /\ 2 * p <= 2 * (o * y) + c * o

LEMMA NextPower ==
  ASSUME NEW o \in Nat \ {0}, NEW c \in Nat, NEW y, NEW p, Near(o, y, p, c),
         NEW x \in Nat, x <= One
  PROVE  Near(o * One, Mul(x, y), x * p, c + 1)
<1> DEFINE z == Mul(x, y)
           s == x * y
           a == o * y
<1>1. /\ y \in Nat /\ p \in Nat /\ a \in Nat /\ s \in Nat /\ c * o \in Nat
      /\ 2 * a <= 2 * p + c * o /\ 2 * p <= 2 * a + c * o
  BY DEF Near
<1>2. z \in Nat /\ 2 * (z * One) <= 2 * s + One /\ 2 * s <= 2 * (z * One) + One
  BY <1>1, MulBounds
<1>3. o * s = x * a
  BY <1>1
<1> HIDE DEF z, s, a
<1>4. /\ 2 * (x * a) <= 2 * (x * p) + c * (o * One)
      /\ 2 * (x * p) <= 2 * (x * a) + c * (o * One)
  <2>1. x * (2 * a) <= x * (2 * p + c * o) /\ x * (2 * p) <= x * (2 * a + c * o)
    BY <1>1
  <2>2. /\ x * (2 * a) = 2 * (x * a) /\ x * (2 * p) = 2 * (x * p)
        /\ x * (2 * p + c * o) = 2 * (x * p) + x * (c * o)
        /\ x * (2 * a + c * o) = 2 * (x * a) + x * (c * o)
    BY <1>1
  <2>3. x * (c * o) <= One * (c * o) /\ One * (c * o) = c * (o * One)
    BY <1>1, OneNat
  <2>4. x * (c * o) \in Nat /\ x * a \in Nat /\ x * p \in Nat /\ c * (o * One) \in Nat
    BY <1>1, OneNat
  <2> QED BY <2>1, <2>2, <2>3, <2>4
<1>5. 2 * ((o * One) * z) <= 2 * (x * a) + o * One /\ 2 * (x * a) <= 2 * ((o * One) * z) + o * One
  <2> DEFINE b == z * One
  <2>1. b \in Nat /\ o * b = (o * One) * z
    BY <1>2, OneNat
  <2> HIDE DEF b
  <2>2. o * (2 * b) <= o * (2 * s + One) /\ o * (2 * s) <= o * (2 * b + One)
    BY <1>1, <1>2, <2>1, OneNat DEF b
  <2>3. /\ o * (2 * b) = 2 * (o * b) /\ o * (2 * s + One) = 2 * (o * s) + o * One
        /\ o * (2 * s) = 2 * (o * s) /\ o * (2 * b + One) = 2 * (o * b) + o * One
    BY <1>1, <2>1, OneNat
  <2> QED BY <1>3, <2>1, <2>2, <2>3
<1>6. (c + 1) * (o * One) = c * (o * One) + o * One
  BY OneNat
<1>7. /\ (o * One) * z \in Nat /\ x * a \in Nat /\ x * p \in Nat
      /\ c * (o * One) \in Nat /\ o * One \in Nat
  BY <1>1, <1>2, OneNat
<1> QED BY <1>2, <1>4, <1>5, <1>6, <1>7 DEF Near, z

(* A term of the polynomial, brought to the common denominator q = r * o,  *)
(* with w its weight and m its factorial.                                  *)
TermNear(o, c, y, p, m, w, r, q) ==
  /\ Div(y, m * One) \in Nat
  /\ 2 * ((w * m) * (q * Div(y, m * One))) <= 2 * (w * (r * p)) + (w * m + w * c) * q
  /\ 2 * (w * (r * p)) <= 2 * ((w * m) * (q * Div(y, m * One))) + (w * m + w * c) * q

LEMMA TermBounds ==
  ASSUME NEW o \in Nat \ {0}, NEW c \in Nat, NEW y, NEW p, Near(o, y, p, c),
         NEW m \in Nat \ {0}, NEW w \in Nat, NEW r \in Nat, NEW q \in Nat, q = r * o
  PROVE  TermNear(o, c, y, p, m, w, r, q)
<1> DEFINE t == Div(y, m * One)
           u == t * m
           a == o * y
           g == w * r
<1>1. /\ y \in Nat /\ p \in Nat /\ a \in Nat /\ g \in Nat /\ c * o \in Nat
      /\ 2 * a <= 2 * p + c * o /\ 2 * p <= 2 * a + c * o
  BY DEF Near
<1>2. m * One \in Nat \ {0}
  BY OneNat
<1>3. /\ t \in Nat /\ 2 * (t * (m * One)) <= 2 * (y * One) + m * One
      /\ 2 * (y * One) <= 2 * (t * (m * One)) + m * One
  BY <1>1, <1>2, DivBounds
<1> HIDE DEF t
<1>4. u \in Nat /\ t * (m * One) = u * One
  BY <1>3, OneNat, Regroup
<1> HIDE DEF u, a, g
<1>5. 2 * u <= 2 * y + m /\ 2 * y <= 2 * u + m
  <2>1. (2 * u) * One <= (2 * y + m) * One /\ (2 * y) * One <= (2 * u + m) * One
    BY <1>1, <1>3, <1>4, OneNat
  <2> QED BY <1>1, <1>4, <2>1, OneNat, Cancel
<1>6. 2 * (o * u) <= 2 * p + (m + c) * o /\ 2 * p <= 2 * (o * u) + (m + c) * o
  <2>1. o * (2 * u) <= o * (2 * y + m) /\ o * (2 * y) <= o * (2 * u + m)
    BY <1>1, <1>4, <1>5
  <2>2. /\ o * (2 * u) = 2 * (o * u) /\ o * (2 * y + m) = 2 * a + m * o
        /\ o * (2 * y) = 2 * a /\ o * (2 * u + m) = 2 * (o * u) + m * o
        /\ (m + c) * o = m * o + c * o /\ m * o \in Nat /\ o * u \in Nat
    BY <1>1, <1>4 DEF a
  <2> QED BY <1>1, <2>1, <2>2
<1>7. /\ 2 * (g * (o * u)) <= 2 * (g * p) + (m + c) * (g * o)
      /\ 2 * (g * p) <= 2 * (g * (o * u)) + (m + c) * (g * o)
  <2> DEFINE b == o * u
             e == (m + c) * o
  <2>1. b \in Nat /\ e \in Nat /\ g * e = (m + c) * (g * o)
    BY <1>1, <1>4
  <2> HIDE DEF b, e
  <2>2. g * (2 * b) <= g * (2 * p + e) /\ g * (2 * p) <= g * (2 * b + e)
    BY <1>1, <1>6, <2>1 DEF b, e
  <2>3. /\ g * (2 * b) = 2 * (g * b) /\ g * (2 * p + e) = 2 * (g * p) + g * e
        /\ g * (2 * p) = 2 * (g * p) /\ g * (2 * b + e) = 2 * (g * b) + g * e
    BY <1>1, <2>1
  <2> QED BY <2>1, <2>2, <2>3 DEF b
<1>8. /\ g * (o * u) = (w * m) * (q * t) /\ g * p = w * (r * p)
      /\ (m + c) * (g * o) = (w * m + w * c) * q
  <2>1. g * o = w * q
    BY DEF g
  <2>2. g * (o * u) = (g * o) * u
    BY <1>1, <1>4
  <2>3. (w * q) * (t * m) = (w * m) * (q * t)
    BY <1>3
  <2>4. (m + c) * (w * q) = (w * m + w * c) * q
    OBVIOUS
  <2>5. g * p = w * (r * p)
    BY <1>1 DEF g
  <2> QED BY <2>1, <2>2, <2>3, <2>4, <2>5 DEF u
<1> QED BY <1>3, <1>7, <1>8 DEF TermNear, t

(* The polynomial is at least linear: its other terms are naturals. *)
LEMMA TaylorAtLeastLinear ==
  ASSUME NEW x \in Nat
  PROVE  Taylor6(x) \in Nat /\ Taylor6(x) >= One + x
<1> DEFINE x2 == Mul(x, x)
           x3 == Mul(x, x2)
           x4 == Mul(x, x3)
           x5 == Mul(x, x4)
<1>1. x2 \in Nat
  BY MulNat
<1>2. x3 \in Nat
  BY <1>1, MulNat
<1>3. x4 \in Nat
  BY <1>2, MulNat
<1>4. x5 \in Nat
  BY <1>3, MulNat
<1>5. Mul(x, x5) \in Nat
  BY <1>4, MulNat
<1>6. ASSUME NEW y \in Nat, NEW k \in {2, 6, 24, 120, 720} PROVE Div(y, k * One) \in Nat
  <2>1. k * One \in Nat \ {0}
    BY OneNat
  <2> QED BY <2>1, DivFixedNat
<1>7. /\ Div(x2, 2 * One) \in Nat /\ Div(x3, 6 * One) \in Nat /\ Div(x4, 24 * One) \in Nat
      /\ Div(x5, 120 * One) \in Nat /\ Div(Mul(x, x5), 720 * One) \in Nat
  BY <1>1, <1>2, <1>3, <1>4, <1>5, <1>6
<1>8. Taylor6(x) = One + x + Div(x2, 2 * One) + Div(x3, 6 * One) + Div(x4, 24 * One)
                     + Div(x5, 120 * One) + Div(Mul(x, x5), 720 * One)
  BY DEF Taylor6
<1> QED BY <1>7, <1>8, OneNat

LEMMA TaylorIsNear ==
  ASSUME NEW x \in Nat, x <= One
  PROVE  Distance(720 * (OneToThe5 * Taylor6(x)), ExactTaylor(x)) <= 3 * (720 * OneToThe5)
<1> DEFINE x2 == Mul(x, x)     e2 == x * x
           x3 == Mul(x, x2)    e3 == x * e2
           x4 == Mul(x, x3)    e4 == x * e3
           x5 == Mul(x, x4)    e5 == x * e4
           x6 == Mul(x, x5)    e6 == x * e5
           o2 == One * One
           o3 == o2 * One
           o4 == o3 * One
           q  == o4 * One
           t2 == Div(x2, 2 * One)
           t3 == Div(x3, 6 * One)
           t4 == Div(x4, 24 * One)
           t5 == Div(x5, 120 * One)
           t6 == Div(x6, 720 * One)
<1>1. /\ Taylor6(x) = One + x + t2 + t3 + t4 + t5 + t6
      /\ OneToThe5 = q
      /\ ExactTaylor(x) = 720 * (q * One) + 720 * (q * x) + 360 * (o4 * e2)
                            + 120 * (o3 * e3) + 30 * (o2 * e4) + 6 * (One * e5) + e6
  BY DEF Taylor6, OneToThe5, ExactTaylor
<1>2. Near(One, x2, e2, 1)
  <2>1. x2 \in Nat /\ 2 * (x2 * One) <= 2 * e2 + One /\ 2 * e2 <= 2 * (x2 * One) + One
    BY MulBounds
  <2>2. e2 \in Nat /\ One * x2 = x2 * One /\ 1 * One = One
    BY <2>1, OneNat
  <2> QED BY <2>1, <2>2 DEF Near
<1>3. o2 \in Nat \ {0} /\ Near(o2, x3, e3, 2)
  <2>1. Near(One * One, x3, e3, 1 + 1)
    BY <1>2, OneNat, NextPower
  <2> QED BY <2>1, OneNat
<1> HIDE DEF o2, x2, x3
<1>4. o3 \in Nat \ {0} /\ Near(o3, x4, e4, 3)
  <2>1. Near(o2 * One, x4, e4, 2 + 1)
    BY <1>3, OneNat, NextPower
  <2> QED BY <1>3, <2>1, OneNat
<1> HIDE DEF o3, x4
<1>5. o4 \in Nat \ {0} /\ Near(o4, x5, e5, 4)
  <2>1. Near(o3 * One, x5, e5, 3 + 1)
    BY <1>4, OneNat, NextPower
  <2> QED BY <1>4, <2>1, OneNat
<1> HIDE DEF o4, x5
<1>6. q \in Nat \ {0} /\ Near(q, x6, e6, 5)
  <2>1. Near(o4 * One, x6, e6, 4 + 1)
    BY <1>5, OneNat, NextPower
  <2> QED BY <1>5, <2>1, OneNat
<1> HIDE DEF x6
<1>7. q = o4 * One /\ q = o3 * o2 /\ q = o2 * o3 /\ q = One * o4 /\ q = 1 * q
  <2>1. o3 * (One * One) = (o3 * One) * One
    BY <1>4, OneNat, Regroup
  <2>2. o3 * o2 = o2 * o3 /\ One * o4 = o4 * One
    BY <1>3, <1>4, <1>5, OneNat
  <2> QED BY <1>6, <2>1, <2>2 DEF o2, o4
<1> HIDE DEF q, e2, e3, e4, e5, e6
<1>8. /\ t2 \in Nat
      /\ 2 * (720 * (q * t2)) <= 2 * (360 * (o4 * e2)) + 1080 * q
      /\ 2 * (360 * (o4 * e2)) <= 2 * (720 * (q * t2)) + 1080 * q
  <2>1. TermNear(One, 1, x2, e2, 2, 360, o4, q)
    <3>1. One \in Nat \ {0} /\ o4 \in Nat /\ q \in Nat /\ 1 \in Nat /\ 2 \in Nat \ {0} /\ 360 \in Nat
      BY <1>2, <1>5, <1>6, OneNat
    <3>2. q = o4 * One
      BY <1>7
    <3>3. Near(One, x2, e2, 1)
      BY <1>2, <1>5
    <3> QED BY <3>1, <3>2, <3>3, TermBounds
  <2>2. /\ t2 \in Nat
        /\ 2 * ((360 * 2) * (q * t2)) <= 2 * (360 * (o4 * e2)) + (360 * 2 + 360 * 1) * q
        /\ 2 * (360 * (o4 * e2)) <= 2 * ((360 * 2) * (q * t2)) + (360 * 2 + 360 * 1) * q
    BY <2>1 DEF TermNear
  <2> QED BY <2>2
<1>9. /\ t3 \in Nat
      /\ 2 * (720 * (q * t3)) <= 2 * (120 * (o3 * e3)) + 960 * q
      /\ 2 * (120 * (o3 * e3)) <= 2 * (720 * (q * t3)) + 960 * q
  <2>1. TermNear(o2, 2, x3, e3, 6, 120, o3, q)
    <3>1. o2 \in Nat \ {0} /\ o3 \in Nat /\ q \in Nat /\ 2 \in Nat /\ 6 \in Nat \ {0} /\ 120 \in Nat
      BY <1>3, <1>4, <1>6, OneNat
    <3>2. q = o3 * o2
      BY <1>7
    <3>3. Near(o2, x3, e3, 2)
      BY <1>3, <1>4
    <3> QED BY <3>1, <3>2, <3>3, TermBounds
  <2>2. /\ t3 \in Nat
        /\ 2 * ((120 * 6) * (q * t3)) <= 2 * (120 * (o3 * e3)) + (120 * 6 + 120 * 2) * q
        /\ 2 * (120 * (o3 * e3)) <= 2 * ((120 * 6) * (q * t3)) + (120 * 6 + 120 * 2) * q
    BY <2>1 DEF TermNear
  <2> QED BY <2>2
<1>10. /\ t4 \in Nat
       /\ 2 * (720 * (q * t4)) <= 2 * (30 * (o2 * e4)) + 810 * q
       /\ 2 * (30 * (o2 * e4)) <= 2 * (720 * (q * t4)) + 810 * q
  <2>1. TermNear(o3, 3, x4, e4, 24, 30, o2, q)
    <3>1. o3 \in Nat \ {0} /\ o2 \in Nat /\ q \in Nat /\ 3 \in Nat /\ 24 \in Nat \ {0} /\ 30 \in Nat
      BY <1>3, <1>4, <1>6, OneNat
    <3>2. q = o2 * o3
      BY <1>7
    <3>3. Near(o3, x4, e4, 3)
      BY <1>3, <1>4
    <3> QED BY <3>1, <3>2, <3>3, TermBounds
  <2>2. /\ t4 \in Nat
        /\ 2 * ((30 * 24) * (q * t4)) <= 2 * (30 * (o2 * e4)) + (30 * 24 + 30 * 3) * q
        /\ 2 * (30 * (o2 * e4)) <= 2 * ((30 * 24) * (q * t4)) + (30 * 24 + 30 * 3) * q
    BY <2>1 DEF TermNear
  <2> QED BY <2>2
<1>11. /\ t5 \in Nat
       /\ 2 * (720 * (q * t5)) <= 2 * (6 * (One * e5)) + 744 * q
       /\ 2 * (6 * (One * e5)) <= 2 * (720 * (q * t5)) + 744 * q
  <2>1. TermNear(o4, 4, x5, e5, 120, 6, One, q)
    <3>1. o4 \in Nat \ {0} /\ One \in Nat /\ q \in Nat /\ 4 \in Nat /\ 120 \in Nat \ {0} /\ 6 \in Nat
      BY <1>5, <1>6, OneNat
    <3>2. q = One * o4
      BY <1>7
    <3>3. Near(o4, x5, e5, 4)
      BY <1>5
    <3> QED BY <3>1, <3>2, <3>3, TermBounds
  <2>2. /\ t5 \in Nat
        /\ 2 * ((6 * 120) * (q * t5)) <= 2 * (6 * (One * e5)) + (6 * 120 + 6 * 4) * q
        /\ 2 * (6 * (One * e5)) <= 2 * ((6 * 120) * (q * t5)) + (6 * 120 + 6 * 4) * q
    BY <2>1 DEF TermNear
  <2> QED BY <2>2
<1>12. /\ t6 \in Nat
       /\ 2 * (720 * (q * t6)) <= 2 * e6 + 725 * q
       /\ 2 * e6 <= 2 * (720 * (q * t6)) + 725 * q
  <2>1. TermNear(q, 5, x6, e6, 720, 1, 1, q)
    BY <1>2, <1>3, <1>4, <1>5, <1>6, <1>7, OneNat, TermBounds
  <2>2. /\ t6 \in Nat
        /\ 2 * ((1 * 720) * (q * t6)) <= 2 * (1 * (1 * e6)) + (1 * 720 + 1 * 5) * q
        /\ 2 * (1 * (1 * e6)) <= 2 * ((1 * 720) * (q * t6)) + (1 * 720 + 1 * 5) * q
    BY <2>1 DEF TermNear
  <2>3. 1 * (1 * e6) = e6
    BY <1>6 DEF Near
  <2> QED BY <2>2, <2>3
<1> HIDE DEF t2, t3, t4, t5, t6
<1>13. 720 * (q * Taylor6(x)) = 720 * (q * One) + 720 * (q * x) + 720 * (q * t2) + 720 * (q * t3)
                                 + 720 * (q * t4) + 720 * (q * t5) + 720 * (q * t6)
  <2>1. q * (One + x + t2 + t3 + t4 + t5 + t6)
          = q * One + q * x + q * t2 + q * t3 + q * t4 + q * t5 + q * t6
    BY <1>6, <1>8, <1>9, <1>10, <1>11, <1>12, OneNat
  <2>2. /\ q * One \in Nat /\ q * x \in Nat /\ q * t2 \in Nat /\ q * t3 \in Nat
        /\ q * t4 \in Nat /\ q * t5 \in Nat /\ q * t6 \in Nat
    BY <1>6, <1>8, <1>9, <1>10, <1>11, <1>12, OneNat
  <2> QED BY <1>1, <2>1, <2>2
<1> DEFINE a == 720 * (q * Taylor6(x))
           b == ExactTaylor(x)
<1>14. /\ q * One \in Nat /\ q * x \in Nat /\ q * t2 \in Nat /\ q * t3 \in Nat
       /\ q * t4 \in Nat /\ q * t5 \in Nat /\ q * t6 \in Nat
       /\ o4 * e2 \in Nat /\ o3 * e3 \in Nat /\ o2 * e4 \in Nat /\ One * e5 \in Nat /\ e6 \in Nat
  BY <1>2, <1>3, <1>4, <1>5, <1>6, <1>8, <1>9, <1>10, <1>11, <1>12, OneNat DEF Near
<1>15. /\ a \in Int /\ b \in Int /\ 2 * a <= 2 * b + 4319 * q /\ 2 * b <= 2 * a + 4319 * q
  BY <1>1, <1>6, <1>8, <1>9, <1>10, <1>11, <1>12, <1>13, <1>14
<1> HIDE DEF a, b
<1>16. Distance(a, b) <= 3 * (720 * q)
  <2>1. a <= b + 3 * (720 * q) /\ b <= a + 3 * (720 * q) /\ 3 * (720 * q) \in Int
    BY <1>6, <1>15
  <2> QED BY <1>15, <2>1, DistanceBound
<1> QED BY <1>1, <1>16 DEF a, b

(* The series of taylor-6 of math.clar is at least the linear interest,    *)
(* never falls with the rate and, up to a rate of one, is within three     *)
(* units of the polynomial that it rounds in ten places.                   *)
THEOREM CompoundingIsAccurate == Spec => []TaylorIsAccurate
<1>1. ASSUME NEW x \in Nat PROVE Taylor6(x + 1) >= Taylor6(x)
  BY TaylorAtLeastLinear, Taylor6Monotone
<1>2. OperandsOK => TaylorIsAccurate
  BY <1>1, TaylorAtLeastLinear, TaylorIsNear DEF OperandsOK, TaylorIsAccurate
<1> QED BY <1>2, Operands, PTL
=============================================================================
