--------------------------- MODULE ZestPoolProofs ---------------------------
(***************************************************************************)
(* Theorems about ZestPool, for every set of users and assets, every       *)
(* parameter within PoolAssumption and every amount.                       *)
(*                                                                         *)
(* The first part types the operators the transactions are built from; the *)
(* second proves the type invariant, one lemma per transaction; the third  *)
(* says what sums over finite sets are.  The fourth is about positions:    *)
(* the debts of a reserve add up, the lists of borrowed and supplied       *)
(* assets and the collateral flags agree with them, a position stays       *)
(* within its e-mode, an isolated asset is the only one of its user, and a *)
(* frozen reserve is not moved.                                            *)
(***************************************************************************)
EXTENDS ZestPool, ZestMathProofs, FiniteSetTheorems

(* What the proofs use of the assumptions. *)
LEMMA ParamFacts ==
  ASSUME NEW a \in Asset
  PROVE  /\ Param[a].reserveFactor \in Nat
         /\ One - Param[a].reserveFactor \in Nat
         /\ Param[a].optimal \in Nat \ {0}
         /\ One - Param[a].optimal \in Nat \ {0}
         /\ Param[a].baseBorrow \in Nat /\ Param[a].slope1 \in Nat
         /\ Param[a].slope2 \in Nat /\ Param[a].baseSupply \in Nat
         /\ Param[a].eModeBonus \in Nat
         /\ Param[a].closeFactor \in Nat /\ Param[a].originationFee \in Nat
<1>1. Param[a] \in ParamType
  BY PoolAssumption DEF PoolAssumption
<1> QED BY <1>1, OneNat DEF ParamType

(* The income and debt of a reserve as of now are naturals that are not    *)
(* behind its indices, and neither are the indices after an update.        *)
LEMMA Indices ==
  ASSUME ReserveTypeOK, EnvTypeOK, NEW a \in Asset
  PROVE  /\ NormalizedIncome(a) \in Nat /\ NormalizedIncome(a) >= liqIndex[a]
         /\ NormalizedDebt(a) \in Nat /\ NormalizedDebt(a) >= borIndex[a]
         /\ NextLiqIndex(a) \in Nat /\ NextLiqIndex(a) >= liqIndex[a]
         /\ NextBorIndex(a) \in Nat /\ NextBorIndex(a) >= borIndex[a]
         /\ NextBorIndex(a) <= NormalizedDebt(a)
         /\ NextLiqIndex(a) <= NormalizedIncome(a)
<1>1. height \in 0 .. MaxHeight /\ updated[a] \in 0 .. height
  BY DEF ReserveTypeOK, EnvTypeOK
<1>2. liqRate[a] \in Nat /\ borRate[a] \in Nat /\ liqIndex[a] \in Nat /\ borIndex[a] \in Nat
  BY DEF ReserveTypeOK
<1>3. NormalizedIncome(a) \in Nat /\ NormalizedIncome(a) >= liqIndex[a]
  BY <1>1, <1>2, InterestAtLeastOne, MulNat, MulGrows DEF NormalizedIncome
<1>4. NormalizedDebt(a) \in Nat /\ NormalizedDebt(a) >= borIndex[a]
  BY <1>1, <1>2, InterestAtLeastOne, MulNat, MulGrows DEF NormalizedDebt
<1> QED BY <1>2, <1>3, <1>4 DEF NextLiqIndex, NextBorIndex

LEMMA IndicesPositive ==
  ASSUME ReserveTypeOK, NEW a \in Asset
  PROVE  liqIndex[a] \in Nat \ {0} /\ borIndex[a] \in Nat \ {0}
BY OneNat DEF ReserveTypeOK

(* What the treasury accrues is a natural: the index never falls, so the   *)
(* subtraction does not underflow.                                         *)
LEMMA TreasuryShareNat ==
  ASSUME ReserveTypeOK, EnvTypeOK, NEW a \in Asset, NEW total \in Nat
  PROVE  TreasuryShare(a, total) \in Nat
<1> DEFINE now  == Mul(total, NextBorIndex(a))
           then == Mul(total, borIndex[a])
           part == Div(Param[a].reserveFactor, NextLiqIndex(a))
<1>1. borIndex[a] \in Nat /\ NextBorIndex(a) \in Nat /\ NextLiqIndex(a) \in Nat \ {0}
  BY Indices, IndicesPositive
<1>2. now \in Nat /\ then \in Nat
  BY <1>1, MulNat
<1>3. then <= now
  BY <1>1, Indices, MulMonotone
<1>4. part \in Nat
  BY <1>1, ParamFacts, DivFixedNat
<1> HIDE DEF now, then, part
<1>5. now - then \in Nat
  BY <1>2, <1>3
<1>6. Mul(now - then, part) \in Nat
  BY <1>4, <1>5, MulNat
<1> QED BY <1>6 DEF TreasuryShare, now, then, part

(* The rates are naturals, on both sides of the optimal utilization. *)
LEMMA UtilizationNat ==
  ASSUME NEW total \in Nat, NEW cash \in Nat
  PROVE  Utilization(total, cash) \in Nat
<1>1. CASE total = 0
  BY <1>1 DEF Utilization
<1>2. CASE total # 0
  <2>1. total * One \in Nat /\ total + cash \in Nat \ {0}
    BY <1>2, OneNat
  <2> QED BY <1>2, <2>1, DivNat DEF Utilization
<1> QED BY <1>1, <1>2

LEMMA RatesNat ==
  ASSUME NEW a \in Asset, NEW util \in Nat
  PROVE  BorrowRate(a, util) \in Nat /\ LiquidityRate(a, util) \in Nat
<1> DEFINE p == Param[a]
<1>1. BorrowRate(a, util) \in Nat
  <2>1. CASE util > p.optimal
    <3>1. util - p.optimal \in Nat
      BY <2>1, ParamFacts
    <3>2. Div(util - p.optimal, One - p.optimal) \in Nat
      BY <3>1, ParamFacts, DivFixedNat
    <3>3. Mul(p.slope2, Div(util - p.optimal, One - p.optimal)) \in Nat
      BY <3>2, ParamFacts, MulNat
    <3> QED BY <2>1, <3>3, ParamFacts DEF BorrowRate
  <2>2. CASE ~ util > p.optimal
    <3>1. Div(util, p.optimal) \in Nat
      BY ParamFacts, DivFixedNat
    <3>2. Mul(Div(util, p.optimal), p.slope1) \in Nat
      BY <3>1, ParamFacts, MulNat
    <3> QED BY <2>2, <3>2, ParamFacts DEF BorrowRate
  <2> QED BY <2>1, <2>2
<1>2. LiquidityRate(a, util) \in Nat
  <2> DEFINE paid == Mul(BorrowRate(a, util), util)
  <2>1. paid \in Nat
    BY <1>1, MulNat
  <2> HIDE DEF paid
  <2>2. Mul(paid, One - p.reserveFactor) \in Nat
    BY <2>1, ParamFacts, MulNat
  <2> QED BY <2>1, <2>2, ParamFacts DEF LiquidityRate, paid
<1> QED BY <1>1, <1>2

(* An update of reserves with naturals leaves them well typed. *)
LEMMA UpdateReservesType ==
  ASSUME ReserveTypeOK, EnvTypeOK, height' = height,
         NEW S \in SUBSET Asset, NEW total \in [Asset -> Nat],
         NEW share \in [Asset -> Nat], NEW cash \in [Asset -> Nat],
         UpdateReserves(S, total, share, cash)
  PROVE  ReserveTypeOK'
<1>1. liqIndex' \in [Asset -> Nat] /\ borIndex' \in [Asset -> Nat]
  BY Indices DEF UpdateReserves, ReserveTypeOK
<1>2. \A a \in Asset : liqIndex'[a] >= One /\ borIndex'[a] >= One
  <2> SUFFICES ASSUME NEW a \in Asset
               PROVE  liqIndex'[a] >= One /\ borIndex'[a] >= One
    OBVIOUS
  <2>1. /\ liqIndex'[a] = IF a \in S THEN NextLiqIndex(a) ELSE liqIndex[a]
        /\ borIndex'[a] = IF a \in S THEN NextBorIndex(a) ELSE borIndex[a]
    BY DEF UpdateReserves
  <2>2. /\ liqIndex[a] \in Nat /\ borIndex[a] \in Nat
        /\ liqIndex[a] >= One /\ borIndex[a] >= One
    BY DEF ReserveTypeOK
  <2> QED BY <2>1, <2>2, Indices, OneNat
<1>3. \A a \in Asset : Utilization(total[a], cash[a]) \in Nat
  BY UtilizationNat
<1>4. liqRate' \in [Asset -> Nat] /\ borRate' \in [Asset -> Nat]
  BY <1>3, RatesNat DEF UpdateReserves, ReserveTypeOK
<1>5. totalBorrows' \in [Asset -> Nat] /\ accrued' \in [Asset -> Nat]
  BY DEF UpdateReserves, ReserveTypeOK
<1>6. updated' \in [Asset -> 0 .. height']
  BY DEF UpdateReserves, ReserveTypeOK, EnvTypeOK
<1> QED BY <1>1, <1>2, <1>4, <1>5, <1>6 DEF ReserveTypeOK

LEMMA UpdateReserveType ==
  ASSUME ReserveTypeOK, TokenTypeOK, EnvTypeOK, height' = height,
         NEW a \in Asset, NEW total \in Nat, NEW cash \in Nat,
         UpdateReserve(a, total, cash)
  PROVE  ReserveTypeOK'
<1> DEFINE totals == [totalBorrows EXCEPT ![a] = total]
           share  == [x \in Asset |->
                        IF x = a THEN TreasuryShare(a, totalBorrows[a]) ELSE 0]
           cashes == [vault EXCEPT ![a] = cash]
<1>1. totals \in [Asset -> Nat] /\ cashes \in [Asset -> Nat]
  BY DEF ReserveTypeOK, TokenTypeOK
<1>2. share \in [Asset -> Nat]
  BY TreasuryShareNat DEF ReserveTypeOK
<1>3. UpdateReserves({a}, totals, share, cashes)
  BY DEF UpdateReserve
<1> HIDE DEF totals, share, cashes
<1> QED BY <1>1, <1>2, <1>3, UpdateReservesType

(* Balances and debts, with interest, are naturals. *)
LEMMA BalanceNat ==
  ASSUME ReserveTypeOK, SupplyTypeOK, EnvTypeOK,
         NEW x \in Account, NEW a \in Asset, NEW income \in Nat
  PROVE  BalanceAt(x, a, income) \in Nat /\ Balance(x, a) \in Nat
<1> DEFINE index == IF zIndex[x][a] = 0 THEN liqIndex[a] ELSE zIndex[x][a]
<1>1. zBalance[x][a] \in Nat /\ zIndex[x][a] \in Nat
  BY DEF SupplyTypeOK
<1>2. index \in Nat \ {0}
  BY <1>1, IndicesPositive
<1> HIDE DEF index
<1>3. ASSUME NEW i \in Nat PROVE BalanceAt(x, a, i) \in Nat
  <2>1. Mul(zBalance[x][a], Div(i, index)) \in Nat
    BY <1>1, <1>2, MulNat, DivFixedNat
  <2> QED BY <2>1 DEF BalanceAt, index
<1> QED BY <1>3, Indices DEF Balance

LEMMA CompoundedNat ==
  ASSUME ReserveTypeOK, DebtTypeOK, EnvTypeOK, NEW u \in User, NEW a \in Asset
  PROVE  Compounded(u, a) \in Nat
<1> DEFINE index == IF debtIndex[u][a] = 0 THEN borIndex[a] ELSE debtIndex[u][a]
           due   == Mul(principal[u][a], Div(NormalizedDebt(a), index))
<1>1. principal[u][a] \in Nat /\ debtIndex[u][a] \in Nat
  BY DEF DebtTypeOK
<1>2. index \in Nat \ {0}
  BY <1>1, IndicesPositive
<1> HIDE DEF index
<1>3. due \in Nat
  BY <1>1, <1>2, Indices, MulNat, DivFixedNat
<1> HIDE DEF due
<1> QED BY <1>3 DEF Compounded, index, due

LEMMA BonusNat ==
  ASSUME ConfigTypeOK, NEW u \in User, NEW c \in Asset
  PROVE  Bonus(u, c) \in Nat
<1>1. risk[c] \in RiskType
  BY DEF ConfigTypeOK
<1>2. risk[c].bonus \in Nat
  BY <1>1 DEF RiskType
<1> QED BY <1>2, ParamFacts DEF Bonus

(* So are the parts of a seizure: the bonus is at most the collateral.     *)
LEMMA SeizureNat ==
  ASSUME ReserveTypeOK, SupplyTypeOK, ConfigTypeOK, EnvTypeOK,
         NEW u \in User, NEW c \in Asset, NEW d \in Asset, NEW n \in Nat
  PROVE  /\ Seizure(u, c, d, n).collateral \in Nat
         /\ Seizure(u, c, d, n).debt \in Nat
         /\ Seizure(u, c, d, n).bonus \in Nat
<1> DEFINE have  == Balance(u, c)
           rate  == One + Bonus(u, c)
           power == Div(Mul(n, price[d]), price[c])
           most  == Mul(power, rate)
           share == Div(One, rate)
           owed  == Mul(Div(Mul(have, price[c]), price[d]), share)
<1>1. have \in Nat
  BY BalanceNat, Indices DEF Account
<1>2. rate \in Nat \ {0} /\ One <= rate
  <2>1. Bonus(u, c) \in Nat
    BY BonusNat
  <2> QED BY <2>1, OneNat
<1>3. price[c] \in Nat \ {0} /\ price[d] \in Nat \ {0}
  BY DEF EnvTypeOK
<1> HIDE DEF have, rate
<1>4. power \in Nat
  BY <1>3, MulNat, DivFixedNat
<1> HIDE DEF power
<1>5. most \in Nat /\ power <= most
  BY <1>2, <1>4, MulNat, MulGrows
<1> HIDE DEF most
<1>6. share \in Nat /\ share <= One
  BY <1>2, OneNat, DivFixedNat, DivFixedAtMostOne
<1> HIDE DEF share
<1>7. Mul(have, price[c]) \in Nat
  BY <1>1, <1>3, MulNat
<1>8. Div(Mul(have, price[c]), price[d]) \in Nat
  BY <1>3, <1>7, DivFixedNat
<1>9. owed \in Nat
  BY <1>6, <1>8, MulNat
<1>10. One - share \in Nat
  BY <1>6, OneNat
<1>11. Mul(have, One - share) \in Nat
  BY <1>1, <1>10, MulNat
<1>12. most - power \in Nat
  BY <1>4, <1>5
<1> HIDE DEF owed
<1>13. Seizure(u, c, d, n) =
         IF most > have
         THEN [collateral |-> have, debt |-> owed, bonus |-> Mul(have, One - share)]
         ELSE [collateral |-> most, debt |-> n, bonus |-> most - power]
  BY DEF Seizure, have, rate, power, most, share, owed
<1> QED BY <1>1, <1>5, <1>9, <1>11, <1>12, <1>13

-----------------------------------------------------------------------------
(* The type invariant. *)

(* Parts of the state that a transaction leaves alone stay well typed. *)
LEMMA DebtUnchanged ==
  ASSUME DebtTypeOK, UNCHANGED debtVars
  PROVE  DebtTypeOK'
BY DEF DebtTypeOK, debtVars

LEMMA SupplyUnchanged ==
  ASSUME SupplyTypeOK, UNCHANGED supplyVars
  PROVE  SupplyTypeOK'
BY DEF SupplyTypeOK, supplyVars, zVars

LEMMA ModesUnchanged ==
  ASSUME ModeTypeOK, UNCHANGED <<eMode, isoDebt>>
  PROVE  ModeTypeOK'
BY DEF ModeTypeOK

LEMMA TokensUnchanged ==
  ASSUME TokenTypeOK, UNCHANGED <<tokenVars, registered>>
  PROVE  TokenTypeOK'
BY DEF TokenTypeOK, tokenVars

LEMMA ConfigUnchanged ==
  ASSUME ConfigTypeOK, UNCHANGED configVars
  PROVE  ConfigTypeOK'
BY DEF ConfigTypeOK, configVars

LEMMA EnvUnchanged ==
  ASSUME EnvTypeOK, UNCHANGED envVars
  PROVE  EnvTypeOK'
BY DEF EnvTypeOK, envVars

LEMMA ReservesUnchanged ==
  ASSUME ReserveTypeOK, UNCHANGED <<reserveVars, height>>
  PROVE  ReserveTypeOK'
BY DEF ReserveTypeOK, reserveVars

LEMMA ExceptAt ==
  ASSUME NEW D, NEW E, NEW S, NEW f \in [D -> [E -> S]],
         NEW x \in D, NEW y \in E, NEW v \in S
  PROVE  [f EXCEPT ![x][y] = v] \in [D -> [E -> S]]
OBVIOUS

LEMMA AmountNat ==
  ASSUME NEW n \in Amount
  PROVE  n \in Nat
BY PoolAssumption DEF PoolAssumption

LEMMA SupplyType ==
  ASSUME TypeOK, NEW u \in User, NEW a \in Asset, NEW n \in Amount, Supply(u, a, n)
  PROVE  TypeOK'
<1> USE AmountNat
<1>1. u \in Account
  BY DEF Account
<1>2. Balance(u, a) \in Nat /\ NormalizedIncome(a) \in Nat
  BY <1>1, BalanceNat, Indices DEF TypeOK
<1>3. totalBorrows[a] \in Nat /\ vault[a] \in Nat /\ wallet[u][a] \in Nat
  BY <1>1 DEF TypeOK, ReserveTypeOK, TokenTypeOK
<1>4. ReserveTypeOK'
  <2>1. vault[a] + n \in Nat
    BY <1>3
  <2>2. UpdateReserve(a, totalBorrows[a], vault[a] + n) /\ height' = height
    BY DEF Supply, envVars
  <2> QED BY <1>3, <2>1, <2>2, UpdateReserveType DEF TypeOK
<1>5. SupplyTypeOK'
  <2>1. zBalance' \in [Account -> [Asset -> Nat]]
    <3>1. zBalance' = [zBalance EXCEPT ![u][a] = Balance(u, a) + n]
      BY DEF Supply
    <3> QED BY <1>1, <1>2, <3>1, ExceptAt DEF TypeOK, SupplyTypeOK
  <2>2. zIndex' \in [Account -> [Asset -> Nat]]
    <3>1. zIndex' = [zIndex EXCEPT ![u][a] = NormalizedIncome(a)]
      BY DEF Supply
    <3> QED BY <1>1, <1>2, <3>1, ExceptAt DEF TypeOK, SupplyTypeOK
  <2>3. supplied' \in [Account -> SUBSET Asset]
    <3>1. \/ supplied' = [supplied EXCEPT ![u] = @ \cup {a}]
          \/ supplied' = supplied
      BY DEF Supply
    <3> QED BY <3>1 DEF TypeOK, SupplyTypeOK
  <2>4. collateral' \in [User -> [Asset -> BOOLEAN]]
    <3>1. PICK b \in BOOLEAN : collateral' = [collateral EXCEPT ![u][a] = b]
      BY Zenon DEF Supply
    <3> QED BY <3>1, ExceptAt DEF TypeOK, SupplyTypeOK
  <2> QED BY <2>1, <2>2, <2>3, <2>4 DEF SupplyTypeOK
<1>6. TokenTypeOK'
  <2>1. vault' = [vault EXCEPT ![a] = @ + n] /\ registered' = registered \cup {u}
    BY DEF Supply
  <2>2. vault' \in [Asset -> Nat] /\ registered' \subseteq User
    BY <1>3, <2>1 DEF TypeOK, TokenTypeOK
  <2>3. wallet' \in [Account -> [Asset -> Nat]]
    <3>1. wallet' = [wallet EXCEPT ![u][a] = wallet[u][a] - n] /\ n <= wallet[u][a]
      BY DEF Supply
    <3>2. wallet[u][a] - n \in Nat
      BY <1>3, <3>1
    <3> QED BY <1>1, <3>1, <3>2, ExceptAt DEF TypeOK, TokenTypeOK
  <2> QED BY <2>2, <2>3 DEF TokenTypeOK
<1>7. DebtTypeOK' /\ ModeTypeOK' /\ ConfigTypeOK' /\ EnvTypeOK'
  BY DebtUnchanged, ModesUnchanged, ConfigUnchanged, EnvUnchanged DEF Supply, TypeOK
<1> QED BY <1>4, <1>5, <1>6, <1>7 DEF TypeOK

(* Leaving a deposit or a debt changes lists and flags within their types. *)
LEMMA CollateralAfterType ==
  ASSUME SupplyTypeOK, NEW u \in User, NEW a \in Asset, NEW gone \in BOOLEAN
  PROVE  CollateralAfter(u, a, gone) \in [User -> [Asset -> BOOLEAN]]
<1>1. collateral \in [User -> [Asset -> BOOLEAN]]
  BY DEF SupplyTypeOK
<1>2. (collateral[u][a] /\ ~ gone) \in BOOLEAN
  OBVIOUS
<1>3. CollateralAfter(u, a, gone) =
        [collateral EXCEPT ![u][a] = collateral[u][a] /\ ~ gone]
  BY DEF CollateralAfter
<1> QED BY <1>1, <1>2, <1>3, ExceptAt

LEMMA BorrowedAfterType ==
  ASSUME DebtTypeOK, NEW u \in User, NEW a \in Asset, NEW left
  PROVE  BorrowedAfter(u, a, left) \in [User -> SUBSET Asset]
BY DEF DebtTypeOK, BorrowedAfter

LEMMA ReduceIsolatedDebtType ==
  ASSUME ModeTypeOK, NEW i \in Asset \cup {NoAsset}, NEW a \in Asset, NEW n \in Nat
  PROVE  ReduceIsolatedDebt(i, a, n) \in [Asset -> [Asset -> Nat]]
<1>1. CASE i = NoAsset
  BY <1>1 DEF ReduceIsolatedDebt, ModeTypeOK
<1>2. CASE i # NoAsset
  <2> DEFINE left == IF n > isoDebt[i][a] THEN 0 ELSE isoDebt[i][a] - n
  <2>1. i \in Asset
    BY <1>2
  <2>2. isoDebt \in [Asset -> [Asset -> Nat]] /\ isoDebt[i][a] \in Nat
    BY <2>1 DEF ModeTypeOK
  <2>3. left \in Nat
    BY <2>2
  <2>4. ReduceIsolatedDebt(i, a, n) = [isoDebt EXCEPT ![i][a] = left]
    BY <1>2 DEF ReduceIsolatedDebt
  <2> HIDE DEF left
  <2> QED BY <2>1, <2>2, <2>3, <2>4, ExceptAt
<1> QED BY <1>1, <1>2

LEMMA IsolatedAssetType ==
  ASSUME NEW listed \in SUBSET Asset, NEW flags
  PROVE  IsolatedAsset(listed, flags) \in Asset \cup {NoAsset}
<1> DEFINE on == Enabled(listed, flags)
<1>1. on \subseteq Asset
  BY DEF Enabled
<1>2. CASE Cardinality(on) = 1 /\ on \subseteq isolated
  <2>1. on # {}
    BY <1>2, FS_EmptySet
  <2>2. IsolatedAsset(listed, flags) = CHOOSE a \in on : TRUE
    BY <1>2 DEF IsolatedAsset
  <2> HIDE DEF on
  <2> QED BY <1>1, <2>1, <2>2
<1>3. CASE ~ (Cardinality(on) = 1 /\ on \subseteq isolated)
  BY <1>3 DEF IsolatedAsset
<1> QED BY <1>2, <1>3

LEMMA IsolationOfUserType ==
  ASSUME SupplyTypeOK, NEW u \in User
  PROVE  IsolationOfUser(u) \in Asset \cup {NoAsset}
<1>1. supplied[u] \subseteq Asset
  BY DEF SupplyTypeOK, Account
<1> QED BY <1>1, IsolatedAssetType DEF IsolationOfUser

LEMMA WithdrawType ==
  ASSUME TypeOK, NEW u \in User, NEW a \in Asset, NEW n \in Amount, Withdraw(u, a, n)
  PROVE  TypeOK'
<1> DEFINE have == Balance(u, a)
           out  == IF n = MaxValue THEN have ELSE n
           all  == out = have
<1>1. u \in Account
  BY DEF Account
<1>2. have \in Nat /\ NormalizedIncome(a) \in Nat
  BY <1>1, BalanceNat, Indices DEF TypeOK
<1>3. totalBorrows[a] \in Nat /\ vault[a] \in Nat /\ wallet[u][a] \in Nat
  BY <1>1 DEF TypeOK, ReserveTypeOK, TokenTypeOK
<1>4. out \in Nat /\ out <= have /\ out <= vault[a] /\ all \in BOOLEAN
  BY <1>2, AmountNat DEF Withdraw
<1>5. /\ zBalance' = [zBalance EXCEPT ![u][a] = have - out]
      /\ zIndex' = [zIndex EXCEPT ![u][a] = IF all THEN 0 ELSE NormalizedIncome(a)]
      /\ supplied' = IF all THEN [supplied EXCEPT ![u] = @ \ {a}] ELSE supplied
      /\ collateral' = CollateralAfter(u, a, all)
      /\ UpdateReserve(a, totalBorrows[a], vault[a] - out)
      /\ vault' = [vault EXCEPT ![a] = @ - out]
      /\ wallet' = [wallet EXCEPT ![u][a] = wallet[u][a] + out]
      /\ UNCHANGED <<debtVars, eMode, isoDebt, registered, configVars, envVars>>
  BY DEF Withdraw
<1> HIDE DEF have, out, all
<1>6. ReserveTypeOK'
  <2>1. vault[a] - out \in Nat /\ height' = height
    BY <1>3, <1>4, <1>5 DEF envVars
  <2> QED BY <1>3, <1>5, <2>1, UpdateReserveType DEF TypeOK
<1>7. SupplyTypeOK'
  <2>1. have - out \in Nat /\ (IF all THEN 0 ELSE NormalizedIncome(a)) \in Nat
    BY <1>2, <1>4
  <2>2. zBalance' \in [Account -> [Asset -> Nat]] /\ zIndex' \in [Account -> [Asset -> Nat]]
    BY <1>1, <1>5, <2>1, ExceptAt DEF TypeOK, SupplyTypeOK
  <2>3. supplied' \in [Account -> SUBSET Asset]
    BY <1>5 DEF TypeOK, SupplyTypeOK
  <2>4. collateral' \in [User -> [Asset -> BOOLEAN]]
    BY <1>4, <1>5, CollateralAfterType DEF TypeOK
  <2> QED BY <2>2, <2>3, <2>4 DEF SupplyTypeOK
<1>8. TokenTypeOK'
  <2>1. vault' \in [Asset -> Nat] /\ registered' \subseteq User
    BY <1>3, <1>4, <1>5 DEF TypeOK, TokenTypeOK
  <2>2. wallet[u][a] + out \in Nat
    BY <1>3, <1>4
  <2>3. wallet' \in [Account -> [Asset -> Nat]]
    BY <1>1, <1>5, <2>2, ExceptAt DEF TypeOK, TokenTypeOK
  <2> QED BY <2>1, <2>3 DEF TokenTypeOK
<1>9. DebtTypeOK' /\ ModeTypeOK' /\ ConfigTypeOK' /\ EnvTypeOK'
  BY <1>5, DebtUnchanged, ModesUnchanged, ConfigUnchanged, EnvUnchanged DEF TypeOK
<1> QED BY <1>6, <1>7, <1>8, <1>9 DEF TypeOK

LEMMA BorrowType ==
  ASSUME TypeOK, NEW u \in User, NEW a \in Asset, NEW n \in Amount, Borrow(u, a, n)
  PROVE  TypeOK'
<1> DEFINE due    == Compounded(u, a)
           i      == IsolationOfUser(u)
           total  == totalBorrows[a] + (due - principal[u][a]) + n
           totals == [totalBorrows EXCEPT ![a] = total]
           none   == [x \in Asset |-> 0]
           cashes == [vault EXCEPT ![a] = @ - n]
<1>1. u \in Account /\ n \in Nat
  BY AmountNat DEF Account
<1>2. due \in Nat /\ principal[u][a] \in Nat
  BY CompoundedNat DEF TypeOK, DebtTypeOK
<1>3. totalBorrows[a] \in Nat /\ vault[a] \in Nat /\ wallet[u][a] \in Nat
  BY <1>1 DEF TypeOK, ReserveTypeOK, TokenTypeOK
<1>4. due >= principal[u][a] /\ n <= vault[a]
  BY DEF Borrow
<1>5. /\ principal' = [principal EXCEPT ![u][a] = due + n]
      /\ debtIndex' = [debtIndex EXCEPT ![u][a] = NextBorIndex(a)]
      /\ debtUpdated' = [debtUpdated EXCEPT ![u][a] = height]
      /\ borrowed' = [borrowed EXCEPT ![u] = @ \cup {a}]
      /\ UpdateReserves({a}, totals, none, cashes)
      /\ isoDebt' = IF i = NoAsset THEN isoDebt
                    ELSE [isoDebt EXCEPT ![i][a] = isoDebt[i][a] + n]
      /\ vault' = [vault EXCEPT ![a] = @ - n]
      /\ wallet' = [wallet EXCEPT ![u][a] = wallet[u][a] + n]
      /\ UNCHANGED <<supplyVars, eMode, registered, configVars, envVars>>
  BY DEF Borrow
<1> HIDE DEF due, i
<1>6. ReserveTypeOK'
  <2>1. total \in Nat
    BY <1>1, <1>2, <1>3, <1>4
  <2>2. totals \in [Asset -> Nat] /\ none \in [Asset -> Nat] /\ cashes \in [Asset -> Nat]
    BY <1>1, <1>3, <1>4, <2>1 DEF TypeOK, ReserveTypeOK, TokenTypeOK
  <2>3. height' = height
    BY <1>5 DEF envVars
  <2> HIDE DEF totals, none, cashes
  <2> QED BY <1>5, <2>2, <2>3, UpdateReservesType DEF TypeOK
<1> HIDE DEF total, totals, none, cashes
<1>7. DebtTypeOK'
  <2>1. due + n \in Nat
    BY <1>1, <1>2
  <2>2. NextBorIndex(a) \in Nat /\ height \in Nat
    BY Indices DEF TypeOK, EnvTypeOK
  <2>3. /\ principal' \in [User -> [Asset -> Nat]]
        /\ debtIndex' \in [User -> [Asset -> Nat]]
        /\ debtUpdated' \in [User -> [Asset -> Nat]]
    BY <1>5, <2>1, <2>2, ExceptAt DEF TypeOK, DebtTypeOK
  <2>4. borrowed' \in [User -> SUBSET Asset]
    BY <1>5 DEF TypeOK, DebtTypeOK
  <2> QED BY <2>3, <2>4 DEF DebtTypeOK
<1>8. ModeTypeOK'
  <2>1. CASE i = NoAsset
    BY <1>5, <2>1 DEF TypeOK, ModeTypeOK
  <2>2. CASE i # NoAsset
    <3>1. i \in Asset
      BY <2>2, IsolationOfUserType DEF i, TypeOK
    <3>2. isoDebt \in [Asset -> [Asset -> Nat]] /\ isoDebt[i][a] + n \in Nat
      BY <1>1, <3>1 DEF TypeOK, ModeTypeOK
    <3>3. isoDebt' \in [Asset -> [Asset -> Nat]]
      BY <1>5, <2>2, <3>1, <3>2, ExceptAt
    <3> QED BY <1>5, <3>3 DEF TypeOK, ModeTypeOK
  <2> QED BY <2>1, <2>2
<1>9. TokenTypeOK'
  <2>1. vault' \in [Asset -> Nat] /\ registered' \subseteq User
    BY <1>1, <1>3, <1>4, <1>5 DEF TypeOK, TokenTypeOK
  <2>2. wallet[u][a] + n \in Nat
    BY <1>1, <1>3
  <2>3. wallet' \in [Account -> [Asset -> Nat]]
    BY <1>1, <1>5, <2>2, ExceptAt DEF TypeOK, TokenTypeOK
  <2> QED BY <2>1, <2>3 DEF TokenTypeOK
<1>10. SupplyTypeOK' /\ ConfigTypeOK' /\ EnvTypeOK'
  BY <1>5, SupplyUnchanged, ConfigUnchanged, EnvUnchanged DEF TypeOK
<1> QED BY <1>6, <1>7, <1>8, <1>9, <1>10 DEF TypeOK

LEMMA RepayType ==
  ASSUME TypeOK, NEW p \in User, NEW u \in User, NEW a \in Asset, NEW n \in Amount,
         Repay(p, u, a, n)
  PROVE  TypeOK'
<1> DEFINE due   == Compounded(u, a)
           paid  == IF n = MaxValue \/ n > due THEN due ELSE n
           total == TotalAfter(u, a, due, paid)
           index == IF paid = due THEN 0 ELSE NextBorIndex(a)
<1>1. p \in Account /\ n \in Nat
  BY AmountNat DEF Account
<1>2. due \in Nat /\ principal[u][a] \in Nat
  BY CompoundedNat DEF TypeOK, DebtTypeOK
<1>3. totalBorrows[a] \in Nat /\ vault[a] \in Nat /\ wallet[p][a] \in Nat
  BY <1>1 DEF TypeOK, ReserveTypeOK, TokenTypeOK
<1>4. paid \in Nat /\ paid <= due
  BY <1>1, <1>2
<1>5. /\ due >= principal[u][a] /\ total >= 0 /\ paid <= wallet[p][a]
      /\ isoDebt' = ReduceIsolatedDebt(IsolationOfUser(u), a, paid)
      /\ principal' = [principal EXCEPT ![u][a] = due - paid]
      /\ debtIndex' = [debtIndex EXCEPT ![u][a] = index]
      /\ debtUpdated' = [debtUpdated EXCEPT ![u][a] = height]
      /\ borrowed' = BorrowedAfter(u, a, due - paid)
      /\ UpdateReserve(a, total, vault[a] + paid)
      /\ vault' = [vault EXCEPT ![a] = @ + paid]
      /\ wallet' = [wallet EXCEPT ![p][a] = wallet[p][a] - paid]
      /\ UNCHANGED <<supplyVars, eMode, registered, configVars, envVars>>
  BY DEF Repay
<1>6. index \in Nat
  BY Indices DEF TypeOK
<1>7. total \in Nat
  BY <1>2, <1>3, <1>4, <1>5 DEF TotalAfter
<1> HIDE DEF due, paid, total, index
<1>8. ReserveTypeOK'
  <2>1. vault[a] + paid \in Nat /\ height' = height
    BY <1>3, <1>4, <1>5 DEF envVars
  <2> QED BY <1>5, <1>7, <2>1, UpdateReserveType DEF TypeOK
<1>9. DebtTypeOK'
  <2>1. due - paid \in Nat /\ height \in Nat
    BY <1>2, <1>4 DEF TypeOK, EnvTypeOK
  <2>2. /\ principal' \in [User -> [Asset -> Nat]]
        /\ debtIndex' \in [User -> [Asset -> Nat]]
        /\ debtUpdated' \in [User -> [Asset -> Nat]]
    BY <1>5, <1>6, <2>1, ExceptAt DEF TypeOK, DebtTypeOK
  <2>3. borrowed' \in [User -> SUBSET Asset]
    BY <1>5, BorrowedAfterType DEF TypeOK
  <2> QED BY <2>2, <2>3 DEF DebtTypeOK
<1>10. ModeTypeOK'
  <2>1. isoDebt' \in [Asset -> [Asset -> Nat]]
    BY <1>4, <1>5, IsolationOfUserType, ReduceIsolatedDebtType DEF TypeOK
  <2> QED BY <1>5, <2>1 DEF TypeOK, ModeTypeOK
<1>11. TokenTypeOK'
  <2>1. vault' \in [Asset -> Nat] /\ registered' \subseteq User
    BY <1>3, <1>4, <1>5 DEF TypeOK, TokenTypeOK
  <2>2. wallet[p][a] - paid \in Nat
    BY <1>3, <1>4, <1>5
  <2>3. wallet' \in [Account -> [Asset -> Nat]]
    BY <1>1, <1>5, <2>2, ExceptAt DEF TypeOK, TokenTypeOK
  <2> QED BY <2>1, <2>3 DEF TokenTypeOK
<1>12. SupplyTypeOK' /\ ConfigTypeOK' /\ EnvTypeOK'
  BY <1>5, SupplyUnchanged, ConfigUnchanged, EnvUnchanged DEF TypeOK
<1> QED BY <1>8, <1>9, <1>10, <1>11, <1>12 DEF TypeOK

LEMMA SetEModeType ==
  ASSUME TypeOK, NEW u \in User, NEW m \in EMode \cup {NoMode}, SetEMode(u, m)
  PROVE  TypeOK'
<1>1. /\ eMode' = [eMode EXCEPT ![u] = m]
      /\ UNCHANGED <<reserveVars, debtVars, supplyVars, isoDebt, tokenVars, registered,
                     configVars, envVars>>
  BY DEF SetEMode
<1>2. ModeTypeOK'
  BY <1>1 DEF TypeOK, ModeTypeOK
<1>3. height' = height
  BY <1>1 DEF envVars
<1> QED BY <1>1, <1>2, <1>3, ReservesUnchanged, DebtUnchanged, SupplyUnchanged,
           TokensUnchanged, ConfigUnchanged, EnvUnchanged DEF TypeOK

LEMMA SetUseAsCollateralType ==
  ASSUME TypeOK, NEW u \in User, NEW a \in Asset, NEW on \in BOOLEAN,
         SetUseAsCollateral(u, a, on)
  PROVE  TypeOK'
<1>1. UNCHANGED <<reserveVars, debtVars, zVars, eMode, isoDebt, tokenVars,
                  registered, configVars, envVars>>
  BY DEF SetUseAsCollateral
<1>2. PICK b \in BOOLEAN : collateral' = [collateral EXCEPT ![u][a] = b]
  BY DEF SetUseAsCollateral
<1>3. collateral' \in [User -> [Asset -> BOOLEAN]]
  BY <1>2, ExceptAt DEF TypeOK, SupplyTypeOK
<1>4. SupplyTypeOK'
  BY <1>1, <1>3 DEF TypeOK, SupplyTypeOK, zVars
<1>5. height' = height
  BY <1>1 DEF envVars
<1> QED BY <1>1, <1>4, <1>5, ReservesUnchanged, DebtUnchanged, ModesUnchanged,
           TokensUnchanged, ConfigUnchanged, EnvUnchanged DEF TypeOK

(* A seizure leaves the z-token ledger and its lists well typed. *)
LEMMA SeizedBalancesType ==
  ASSUME ReserveTypeOK, SupplyTypeOK, EnvTypeOK,
         NEW l \in User, NEW u \in User, NEW c \in Asset, NEW gain \in Nat,
         NEW fee \in Nat, NEW income \in Nat, NEW asZToken \in BOOLEAN,
         SeizedBalances(l, u, c, gain, fee, income, asZToken)
  PROVE  SupplyTypeOK'
<1> DEFINE kept == Kept(l, u, c, gain, fee, income, asZToken)
           gone == kept = 0
           got  == asZToken /\ l # u
<1>1. u \in Account /\ l \in Account
  BY DEF Account
<1>2. BalanceAt(u, c, income) \in Nat /\ BalanceAt(l, c, income) \in Nat
  BY <1>1, BalanceNat
<1>3. /\ kept >= 0
      /\ zBalance' = [x \in Account |->
           IF x = u THEN [zBalance[u] EXCEPT ![c] = kept]
           ELSE IF x = l /\ got
                THEN [zBalance[l] EXCEPT ![c] = BalanceAt(l, c, income) + gain]
           ELSE zBalance[x]]
      /\ zIndex' = [x \in Account |->
           IF x = u THEN [zIndex[u] EXCEPT ![c] = IF gone THEN 0 ELSE income]
           ELSE IF x = l /\ got THEN [zIndex[l] EXCEPT ![c] = income]
           ELSE zIndex[x]]
      /\ supplied' = [x \in Account |->
           IF x = u /\ gone THEN supplied[u] \ {c}
           ELSE IF x = l /\ asZToken THEN supplied[l] \cup {c}
           ELSE supplied[x]]
      /\ collateral' = CollateralAfter(u, c, gone)
  BY DEF SeizedBalances
<1>4. kept \in Nat
  <2>1. kept \in Int
    BY <1>2 DEF Kept
  <2> QED BY <1>3, <2>1
<1>5. gone \in BOOLEAN
  OBVIOUS
<1> HIDE DEF kept, gone, got
<1>6. /\ zBalance \in [Account -> [Asset -> Nat]] /\ zIndex \in [Account -> [Asset -> Nat]]
      /\ supplied \in [Account -> SUBSET Asset]
  BY DEF SupplyTypeOK
<1>7. zBalance' \in [Account -> [Asset -> Nat]]
  <2>1. [zBalance[u] EXCEPT ![c] = kept] \in [Asset -> Nat]
    BY <1>1, <1>4, <1>6
  <2>2. [zBalance[l] EXCEPT ![c] = BalanceAt(l, c, income) + gain] \in [Asset -> Nat]
    BY <1>1, <1>2, <1>6
  <2> QED BY <1>3, <1>6, <2>1, <2>2
<1>8. zIndex' \in [Account -> [Asset -> Nat]]
  <2>1. [zIndex[u] EXCEPT ![c] = IF gone THEN 0 ELSE income] \in [Asset -> Nat]
    BY <1>1, <1>6
  <2>2. [zIndex[l] EXCEPT ![c] = income] \in [Asset -> Nat]
    BY <1>1, <1>6
  <2> QED BY <1>3, <1>6, <2>1, <2>2
<1>9. supplied' \in [Account -> SUBSET Asset]
  BY <1>1, <1>3, <1>6
<1>10. collateral' \in [User -> [Asset -> BOOLEAN]]
  BY <1>3, <1>5, CollateralAfterType
<1> QED BY <1>7, <1>8, <1>9, <1>10 DEF SupplyTypeOK

(* So does the update of the reserves a liquidation touches. *)
LEMMA LiquidatedReservesType ==
  ASSUME ReserveTypeOK, TokenTypeOK, EnvTypeOK, height' = height,
         NEW c \in Asset, NEW d \in Asset, NEW total \in Nat, NEW paid \in Nat,
         NEW taken \in Nat, NEW asZToken \in BOOLEAN,
         asZToken \/ taken <= vault[c],
         LiquidatedReserves(c, d, total, paid, taken, asZToken)
  PROVE  ReserveTypeOK'
<1> DEFINE S      == IF asZToken THEN {d} ELSE {c, d}
           totals == [totalBorrows EXCEPT ![d] = total]
           share  == [x \in Asset |->
                        IF x = d THEN TreasuryShare(d, total)
                        ELSE IF x = c /\ ~ asZToken THEN TreasuryShare(c, totalBorrows[c])
                        ELSE 0]
           cashes == [x \in Asset |->
                        IF x = c /\ ~ asZToken THEN vault[c] - taken
                        ELSE IF x = d THEN vault[d] + paid
                        ELSE vault[x]]
<1>1. totalBorrows \in [Asset -> Nat] /\ vault \in [Asset -> Nat]
  BY DEF ReserveTypeOK, TokenTypeOK
<1>2. S \in SUBSET Asset /\ totals \in [Asset -> Nat]
  BY <1>1
<1>3. share \in [Asset -> Nat]
  <2>1. TreasuryShare(d, total) \in Nat /\ TreasuryShare(c, totalBorrows[c]) \in Nat
    BY <1>1, TreasuryShareNat
  <2> QED BY <2>1
<1>4. cashes \in [Asset -> Nat]
  <2>1. ~ asZToken => vault[c] - taken \in Nat
    BY <1>1
  <2>2. vault[d] + paid \in Nat
    BY <1>1
  <2> QED BY <1>1, <2>1, <2>2
<1>5. UpdateReserves(S, totals, share, cashes)
  BY DEF LiquidatedReserves
<1> HIDE DEF S, totals, share, cashes
<1> QED BY <1>2, <1>3, <1>4, <1>5, UpdateReservesType

LEMMA LiquidateType ==
  ASSUME TypeOK, NEW l \in User, NEW u \in User, NEW c \in Asset, NEW d \in Asset,
         NEW n \in Amount, NEW asZToken \in BOOLEAN, Liquidate(l, u, c, d, n, asZToken)
  PROVE  TypeOK'
<1> DEFINE due    == Compounded(u, d)
           most   == Mul(due, Param[d].closeFactor)
           tried  == IF n > most THEN most ELSE n
           seize  == Seizure(u, c, d, tried)
           taken  == seize.collateral
           paid   == seize.debt
           fee    == (Param[c].originationFee * seize.bonus) \div BasisPoints
           gain   == taken - fee
           cash   == IF asZToken THEN 0 ELSE gain
           total  == TotalAfter(u, d, due, paid)
           income == IF asZToken /\ c # d THEN NormalizedIncome(c) ELSE NextLiqIndex(c)
<1>1. /\ due >= principal[u][d] /\ fee <= taken
      /\ asZToken \/ taken <= vault[c]
      /\ paid <= due /\ total >= 0
      /\ paid <= wallet[l][d] + (IF c = d THEN cash ELSE 0)
      /\ cash + fee <= vault[c] + (IF c = d THEN paid ELSE 0)
      /\ principal' = [principal EXCEPT ![u][d] = due - paid]
      /\ debtIndex' = [debtIndex EXCEPT ![u][d] = NextBorIndex(d)]
      /\ debtUpdated' = [debtUpdated EXCEPT ![u][d] = height]
      /\ borrowed' = BorrowedAfter(u, d, due - paid)
      /\ LiquidatedReserves(c, d, total, paid, taken, asZToken)
      /\ SeizedBalances(l, u, c, gain, fee, income, asZToken)
      /\ isoDebt' = ReduceIsolatedDebt(IsolatedAsset(supplied'[u], collateral'[u]), d, paid)
      /\ vault' = [x \in Asset |->
           vault[x] + (IF x = d THEN paid ELSE 0) - (IF x = c THEN cash + fee ELSE 0)]
      /\ wallet' = [x \in Account |-> [a \in Asset |->
           wallet[x][a] + (IF x = l /\ a = c THEN cash ELSE 0)
                        - (IF x = l /\ a = d THEN paid ELSE 0)
                        + (IF x = Treasury /\ a = c THEN fee ELSE 0)]]
      /\ UNCHANGED <<eMode, registered, configVars, envVars>>
  BY DEF Liquidate
<1>2. due \in Nat /\ principal[u][d] \in Nat
  BY CompoundedNat DEF TypeOK, DebtTypeOK
<1>3. tried \in Nat
  <2>1. most \in Nat
    BY <1>2, ParamFacts, MulNat
  <2> QED BY <2>1, AmountNat
<1> HIDE DEF due, tried
<1>4. taken \in Nat /\ paid \in Nat /\ seize.bonus \in Nat
  BY <1>3, SeizureNat DEF TypeOK
<1> HIDE DEF seize
<1>5. fee \in Nat
  <2>1. Param[c].originationFee * seize.bonus \in Nat
    BY <1>4, ParamFacts
  <2> QED BY <2>1, DivNat DEF BasisPoints
<1> HIDE DEF taken, paid, fee
<1>6. gain \in Nat /\ cash \in Nat
  BY <1>1, <1>4, <1>5
<1>7. total \in Nat
  <2>1. totalBorrows[d] \in Nat
    BY DEF TypeOK, ReserveTypeOK
  <2> QED BY <1>1, <1>2, <1>4, <2>1 DEF TotalAfter
<1>8. income \in Nat
  BY Indices DEF TypeOK
<1> HIDE DEF gain, cash, total, income
<1>9. ReserveTypeOK'
  <2>1. height' = height
    BY <1>1 DEF envVars
  <2> QED BY <1>1, <1>4, <1>7, <2>1, LiquidatedReservesType DEF TypeOK
<1>10. DebtTypeOK'
  <2>1. due - paid \in Nat
    BY <1>1, <1>2, <1>4
  <2>2. NextBorIndex(d) \in Nat /\ height \in Nat
    BY Indices DEF TypeOK, EnvTypeOK
  <2>3. /\ principal' \in [User -> [Asset -> Nat]]
        /\ debtIndex' \in [User -> [Asset -> Nat]]
        /\ debtUpdated' \in [User -> [Asset -> Nat]]
    BY <1>1, <2>1, <2>2, ExceptAt DEF TypeOK, DebtTypeOK
  <2>4. borrowed' \in [User -> SUBSET Asset]
    BY <1>1, BorrowedAfterType DEF TypeOK
  <2> QED BY <2>3, <2>4 DEF DebtTypeOK
<1>11. SupplyTypeOK'
  BY <1>1, <1>5, <1>6, <1>8, SeizedBalancesType DEF TypeOK
<1>12. ModeTypeOK'
  <2>1. supplied'[u] \in SUBSET Asset
    BY <1>11 DEF SupplyTypeOK, Account
  <2>2. isoDebt' \in [Asset -> [Asset -> Nat]]
    BY <1>1, <1>4, <2>1, IsolatedAssetType, ReduceIsolatedDebtType DEF TypeOK
  <2> QED BY <1>1, <2>2 DEF TypeOK, ModeTypeOK
<1>13. TokenTypeOK'
  <2>1. vault \in [Asset -> Nat] /\ wallet \in [Account -> [Asset -> Nat]]
    BY DEF TypeOK, TokenTypeOK
  <2>2. vault' \in [Asset -> Nat]
    <3> SUFFICES ASSUME NEW x \in Asset
                 PROVE  vault[x] + (IF x = d THEN paid ELSE 0)
                          - (IF x = c THEN cash + fee ELSE 0) \in Nat
      BY <1>1
    <3>1. vault[x] \in Nat
      BY <2>1
    <3>2. CASE x = c
      BY <1>1, <1>4, <1>5, <1>6, <3>1, <3>2
    <3>3. CASE x # c
      BY <1>4, <3>1, <3>3
    <3> QED BY <3>2, <3>3
  <2>3. wallet' \in [Account -> [Asset -> Nat]]
    <3> SUFFICES ASSUME NEW x \in Account, NEW a \in Asset
                 PROVE  wallet[x][a] + (IF x = l /\ a = c THEN cash ELSE 0)
                          - (IF x = l /\ a = d THEN paid ELSE 0)
                          + (IF x = Treasury /\ a = c THEN fee ELSE 0) \in Nat
      BY <1>1
    <3>1. wallet[x][a] \in Nat
      BY <2>1
    <3>2. l # Treasury
      BY PoolAssumption DEF PoolAssumption
    <3>3. CASE x = l /\ a = d
      BY <1>1, <1>4, <1>5, <1>6, <3>1, <3>2, <3>3
    <3>4. CASE ~ (x = l /\ a = d)
      BY <1>5, <1>6, <3>1, <3>4
    <3> QED BY <3>3, <3>4
  <2>4. registered' \subseteq User
    BY <1>1 DEF TypeOK, TokenTypeOK
  <2> QED BY <2>2, <2>3, <2>4 DEF TokenTypeOK
<1>14. ConfigTypeOK' /\ EnvTypeOK'
  BY <1>1, ConfigUnchanged, EnvUnchanged DEF TypeOK
<1> QED BY <1>9, <1>10, <1>11, <1>12, <1>13, <1>14 DEF TypeOK

LEMMA MintToTreasuryType ==
  ASSUME TypeOK, NEW a \in Asset, MintToTreasury(a)
  PROVE  TypeOK'
<1> DEFINE minted == Mul(accrued[a], NormalizedIncome(a))
           have   == Balance(Treasury, a)
<1>1. /\ zBalance' = [zBalance EXCEPT ![Treasury][a] = have + minted]
      /\ zIndex' = [zIndex EXCEPT ![Treasury][a] = NormalizedIncome(a)]
      /\ accrued' = [accrued EXCEPT ![a] = 0]
      /\ UNCHANGED <<liqIndex, liqRate, borIndex, borRate, totalBorrows, updated,
                     debtVars, supplied, collateral, eMode, isoDebt, tokenVars,
                     registered, configVars, envVars>>
  BY DEF MintToTreasury
<1>2. Treasury \in Account
  BY DEF Account
<1>3. NormalizedIncome(a) \in Nat /\ accrued[a] \in Nat /\ have \in Nat
  BY <1>2, Indices, BalanceNat DEF TypeOK, ReserveTypeOK
<1>4. minted \in Nat
  BY <1>3, MulNat
<1> HIDE DEF minted, have
<1>5. have + minted \in Nat
  BY <1>3, <1>4
<1>6. ReserveTypeOK'
  BY <1>1 DEF TypeOK, ReserveTypeOK, envVars
<1>7. zBalance' \in [Account -> [Asset -> Nat]] /\ zIndex' \in [Account -> [Asset -> Nat]]
  BY <1>1, <1>2, <1>3, <1>5, ExceptAt DEF TypeOK, SupplyTypeOK
<1>8. SupplyTypeOK'
  BY <1>1, <1>7 DEF TypeOK, SupplyTypeOK
<1> QED BY <1>1, <1>6, <1>8, DebtUnchanged, ModesUnchanged, TokensUnchanged,
           ConfigUnchanged, EnvUnchanged DEF TypeOK

(* What the configurator sets is flags, modes and block heights. *)
LEMMA ConfigType ==
  ASSUME TypeOK, UNCHANGED stateButConfig, ConfigTypeOK'
  PROVE  TypeOK'
<1>1. /\ UNCHANGED <<reserveVars, height>> /\ UNCHANGED <<eMode, isoDebt>>
      /\ UNCHANGED <<tokenVars, registered>>
      /\ UNCHANGED debtVars /\ UNCHANGED supplyVars /\ UNCHANGED envVars
  BY DEF stateButConfig, envVars
<1> QED BY <1>1, ReservesUnchanged, DebtUnchanged, SupplyUnchanged, ModesUnchanged,
           TokensUnchanged, EnvUnchanged DEF TypeOK

LEMMA ConfigStepType ==
  ASSUME TypeOK, ConfigStep
  PROVE  TypeOK'
<1> USE DEF TypeOK
<1>1. ASSUME NEW a \in Asset, MintToTreasury(a) PROVE TypeOK'
  BY <1>1, MintToTreasuryType
<1>2. ASSUME NEW a \in StatusOf, NEW on \in BOOLEAN, NEW frz \in BOOLEAN,
             SetStatus(a, on, frz)
      PROVE  TypeOK'
  <2>1. ConfigTypeOK'
    BY <1>2 DEF SetStatus, ConfigTypeOK
  <2> QED BY <1>2, <2>1, ConfigType DEF SetStatus
<1>3. ASSUME NEW a \in UsageOf, NEW on \in BOOLEAN, NEW r \in Risk,
             SetUsageAsCollateralEnabled(a, on, r)
      PROVE  TypeOK'
  <2>1. r \in RiskType
    BY PoolAssumption DEF PoolAssumption
  <2>2. ConfigTypeOK'
    BY <1>3, <2>1 DEF SetUsageAsCollateralEnabled, ConfigTypeOK
  <2> QED BY <1>3, <2>2, ConfigType DEF SetUsageAsCollateralEnabled
<1>4. /\ \A a \in IsolationOf, c \in Ceiling : AddIsolatedAsset(a, c) => TypeOK'
      /\ \A a \in IsolationOf : RemoveIsolatedAsset(a) => TypeOK'
  <2>1. ASSUME NEW a \in IsolationOf, NEW c \in Ceiling, AddIsolatedAsset(a, c)
        PROVE  TypeOK'
    <3>1. a \in Asset /\ c \in Nat
      BY PoolAssumption DEF PoolAssumption
    <3>2. ConfigTypeOK'
      BY <2>1, <3>1 DEF AddIsolatedAsset, ConfigTypeOK
    <3> QED BY <2>1, <3>2, ConfigType DEF AddIsolatedAsset
  <2>2. ASSUME NEW a \in IsolationOf, RemoveIsolatedAsset(a) PROVE TypeOK'
    <3>1. ConfigTypeOK'
      BY <2>2 DEF RemoveIsolatedAsset, ConfigTypeOK
    <3> QED BY <2>2, <3>1, ConfigType DEF RemoveIsolatedAsset
  <2> QED BY <2>1, <2>2
<1>5. ASSUME NEW a \in IsoBorrowOf, NEW on \in BOOLEAN, SetBorrowableIsolated(a, on)
      PROVE  TypeOK'
  <2>1. ConfigTypeOK'
    BY <1>5, PoolAssumption DEF PoolAssumption, SetBorrowableIsolated, ConfigTypeOK
  <2> QED BY <1>5, <2>1, ConfigType DEF SetBorrowableIsolated
<1>6. ASSUME NEW a \in GraceOf, NEW end \in 0 .. MaxBurn, SetFreezeEndBlock(a, end)
      PROVE  TypeOK'
  <2>1. end \in Nat
    OBVIOUS
  <2>2. ConfigTypeOK'
    BY <1>6, <2>1 DEF SetFreezeEndBlock, ConfigTypeOK
  <2> QED BY <1>6, <2>2, ConfigType DEF SetFreezeEndBlock
<1>7. ASSUME NEW m \in Switched, NEW on \in BOOLEAN, SetEModeEnabled(m, on)
      PROVE  TypeOK'
  <2>1. ConfigTypeOK'
    BY <1>7, PoolAssumption DEF PoolAssumption, SetEModeEnabled, ConfigTypeOK
  <2> QED BY <1>7, <2>1, ConfigType DEF SetEModeEnabled
<1>8. ASSUME NEW a \in TypeOf, NEW m \in EMode \cup {NoMode}, SetAssetEMode(a, m)
      PROVE  TypeOK'
  <2>1. ConfigTypeOK'
    BY <1>8 DEF SetAssetEMode, ConfigTypeOK
  <2> QED BY <1>8, <2>1, ConfigType DEF SetAssetEMode
<1>9. ASSUME NEW a \in BorrowingOf, NEW on \in BOOLEAN, SetBorrowingEnabled(a, on)
      PROVE  TypeOK'
  <2>1. ConfigTypeOK'
    BY <1>9 DEF SetBorrowingEnabled, ConfigTypeOK
  <2> QED BY <1>9, <2>1, ConfigType DEF SetBorrowingEnabled
<1>10. ASSUME NEW a \in GraceOf, NEW on \in BOOLEAN, SetGracePeriodEnabled(a, on)
       PROVE  TypeOK'
  <2>1. ConfigTypeOK'
    BY <1>10 DEF SetGracePeriodEnabled, ConfigTypeOK
  <2> QED BY <1>10, <2>1, ConfigType DEF SetGracePeriodEnabled
<1> QED BY <1>1, <1>2, <1>3, <1>4, <1>5, <1>6, <1>7, <1>8, <1>9, <1>10 DEF ConfigStep

LEMMA EnvStepType ==
  ASSUME TypeOK, EnvStep
  PROVE  TypeOK'
<1>1. /\ UNCHANGED debtVars /\ UNCHANGED supplyVars /\ UNCHANGED <<eMode, isoDebt>>
      /\ UNCHANGED <<tokenVars, registered>> /\ UNCHANGED configVars
      /\ UNCHANGED reserveVars
  BY DEF EnvStep, NextBlock, NextBurnBlock, ReportPrice, stateButEnv
<1>2. height' \in 0 .. MaxHeight /\ burnHeight' \in Nat /\ height' >= height
  BY MathAssumption
     DEF EnvStep, NextBlock, NextBurnBlock, ReportPrice, TypeOK, EnvTypeOK, MathAssumption
<1>3. price' \in [Asset -> Nat \ {0}]
  <2>1. price \in [Asset -> Nat \ {0}]
    BY DEF TypeOK, EnvTypeOK
  <2>2. CASE price' = price
    BY <2>1, <2>2
  <2>3. ASSUME NEW a \in Asset, NEW p \in Price[a], price' = [price EXCEPT ![a] = p]
        PROVE  price' \in [Asset -> Nat \ {0}]
    <3>1. p \in Nat \ {0}
      BY PoolAssumption DEF PoolAssumption
    <3> QED BY <2>1, <2>3, <3>1
  <2> QED BY <2>2, <2>3 DEF EnvStep, NextBlock, NextBurnBlock, ReportPrice
<1>4. ReserveTypeOK'
  <2>1. \A a \in Asset : updated[a] \in 0 .. height'
    BY <1>2 DEF TypeOK, ReserveTypeOK, EnvTypeOK
  <2> QED BY <1>1, <1>2, <2>1 DEF TypeOK, ReserveTypeOK, EnvTypeOK, reserveVars
<1> QED BY <1>1, <1>2, <1>3, <1>4, DebtUnchanged, SupplyUnchanged, ModesUnchanged,
           TokensUnchanged, ConfigUnchanged DEF TypeOK, EnvTypeOK

LEMMA UserStepType ==
  ASSUME TypeOK, UserStep
  PROVE  TypeOK'
<1>1. \A u \in Caller.supply \cup Caller.withdraw \cup Caller.borrow \cup Caller.repay
                 \cup Caller.liquidate \cup Caller.mode \cup Caller.use : u \in User
  BY PoolAssumption DEF PoolAssumption
<1> QED BY <1>1, SupplyType, WithdrawType, BorrowType, RepayType, LiquidateType,
           SetEModeType, SetUseAsCollateralType DEF UserStep

LEMMA InitType ==
  ASSUME Init
  PROVE  TypeOK
<1>1. ReserveTypeOK
  BY OneNat DEF Init, ReserveTypeOK
<1>2. DebtTypeOK
  BY DEF Init, DebtTypeOK, UserZero
<1>3. SupplyTypeOK
  BY DEF Init, SupplyTypeOK, Zero
<1>4. ModeTypeOK
  BY DEF Init, ModeTypeOK
<1>5. TokenTypeOK
  BY PoolAssumption DEF PoolAssumption, Init, TokenTypeOK
<1>6. ConfigTypeOK
  <2>1. \A a \in Asset : Param[a] \in ParamType
    BY PoolAssumption DEF PoolAssumption
  <2>2. \A a \in Asset : /\ Param[a].ltv \in Nat /\ Param[a].threshold \in Nat
                         /\ Param[a].bonus \in Nat /\ Param[a].debtCeiling \in Nat
    BY <2>1 DEF ParamType
  <2>3. risk \in [Asset -> RiskType] /\ debtCeiling \in [Asset -> Nat]
    BY <2>2 DEF Init, RiskType
  <2> QED BY <2>3, PoolAssumption DEF PoolAssumption, Init, ConfigTypeOK
<1>7. EnvTypeOK
  <2>1. \A a \in Asset : price[a] \in Nat \ {0}
    BY PoolAssumption DEF PoolAssumption, Init
  <2>2. price \in [Asset -> UNION {Price[a] : a \in Asset}]
    BY DEF Init
  <2> QED BY <2>1, <2>2, MathAssumption DEF Init, EnvTypeOK, MathAssumption
<1> QED BY <1>1, <1>2, <1>3, <1>4, <1>5, <1>6, <1>7 DEF TypeOK

LEMMA TypeKept ==
  ASSUME TypeOK, [Next]_vars
  PROVE  TypeOK'
<1>1. CASE Next
  BY <1>1, UserStepType, ConfigStepType, EnvStepType DEF Next
<1>2. CASE UNCHANGED vars
  <2>1. /\ UNCHANGED <<reserveVars, height>> /\ UNCHANGED <<eMode, isoDebt>>
        /\ UNCHANGED <<tokenVars, registered>> /\ UNCHANGED configVars
        /\ UNCHANGED debtVars /\ UNCHANGED supplyVars /\ UNCHANGED envVars
    BY <1>2 DEF vars, envVars
  <2> QED BY <2>1, ReservesUnchanged, DebtUnchanged, SupplyUnchanged, ModesUnchanged,
             TokensUnchanged, ConfigUnchanged, EnvUnchanged DEF TypeOK
<1> QED BY <1>1, <1>2

(* Every variable stays in its range: no subtraction that the guards of a  *)
(* transaction let through, and none that has no guard, underflows.        *)
THEOREM TypeCorrect == Spec => []TypeOK
<1>1. Init => TypeOK
  BY InitType
<1>2. TypeOK /\ [Next]_vars => TypeOK'
  BY TypeKept
<1> QED BY <1>1, <1>2, PTL DEF Spec

-----------------------------------------------------------------------------
(* Sums over finite sets.  SumFunction is a fold, so what it adds up to is *)
(* an induction over the sizes of subsets; the library's theorem on least  *)
(* elements of well-founded sets stands in for the one on predicates.      *)

(* Natural induction over a set instead of a predicate: a number outside   *)
(* would have a least one.                                                 *)
LEMMA NaturalsByStep ==
  ASSUME NEW T, 0 \in T, \A n \in Nat : n \in T => n + 1 \in T
  PROVE  Nat \subseteq T
<1> SUFFICES ASSUME Nat \ T # {} PROVE FALSE
  OBVIOUS
<1> DEFINE R == OpToRel(<, Nat)
<1>1. IsWellFoundedOn(R, Nat)
  BY NatLessThanWellFounded
<1>2. \A y, x \in Nat : y < x => <<y, x>> \in R
  BY DEF OpToRel
<1> HIDE DEF R
<1>3. PICK x \in Nat \ T : \A y \in Nat \ T : ~ (<<y, x>> \in R)
  BY <1>1, WFMin
<1>4. x \in Nat \ {0} /\ x - 1 \in Nat /\ (x - 1) + 1 = x /\ x - 1 < x
  BY <1>3
<1>5. x - 1 \notin T
  BY <1>3, <1>4
<1> QED BY <1>2, <1>3, <1>4, <1>5

(* The member of s that FoldFunctionOnSet takes next, and the fold over s  *)
(* from that over the rest.                                                *)
First(s) == CHOOSE x \in s : TRUE

SumStep(f, h, s) == IF s = {} THEN 0 ELSE f[First(s)] + h[s \ {First(s)}]

(* The fold is defined on every set: up to any size there is a function    *)
(* that follows the steps.                                                 *)
LEMMA SumExists ==
  ASSUME NEW S, IsFiniteSet(S), NEW f \in [S -> Int]
  PROVE  \E h \in [SUBSET S -> Int] : \A s \in SUBSET S : h[s] = SumStep(f, h, s)
<1> DEFINE T == {n \in Nat : \E h \in [SUBSET S -> Int] :
                   \A s \in SUBSET S : Cardinality(s) <= n => h[s] = SumStep(f, h, s)}
<1>1. \A s \in SUBSET S : IsFiniteSet(s) /\ Cardinality(s) \in Nat
  BY FS_Subset, FS_CardinalityType
<1>2. \A s \in SUBSET S : s # {} => First(s) \in s
  BY DEF First
<1>3. 0 \in T
  <2>1. \A s \in SUBSET S : Cardinality(s) <= 0 => s = {}
    BY <1>1, FS_EmptySet
  <2> DEFINE h == [s \in SUBSET S |-> 0]
  <2>2. h \in [SUBSET S -> Int] /\ \A s \in SUBSET S : Cardinality(s) <= 0 => h[s] = SumStep(f, h, s)
    BY <2>1 DEF SumStep
  <2> QED BY <2>2
<1>4. ASSUME NEW n \in Nat, n \in T PROVE n + 1 \in T
  <2>1. PICK h \in [SUBSET S -> Int] : \A s \in SUBSET S : Cardinality(s) <= n => h[s] = SumStep(f, h, s)
    BY <1>4
  <2> DEFINE g == [s \in SUBSET S |-> IF Cardinality(s) <= n THEN h[s] ELSE SumStep(f, h, s)]
  <2>2. ASSUME NEW s \in SUBSET S, s # {}
        PROVE  /\ s \ {First(s)} \in SUBSET S /\ Cardinality(s \ {First(s)}) = Cardinality(s) - 1
               /\ f[First(s)] \in Int
    BY <1>1, <1>2, <2>2, FS_RemoveElement
  <2>3. \A s \in SUBSET S : SumStep(f, h, s) \in Int
    BY <2>1, <2>2 DEF SumStep
  <2>4. g \in [SUBSET S -> Int]
    BY <2>1, <2>3
  <2>5. ASSUME NEW s \in SUBSET S, Cardinality(s) <= n + 1
        PROVE  g[s] = SumStep(f, g, s)
    <3>1. SumStep(f, g, s) = SumStep(f, h, s)
      <4>1. CASE s = {}
        BY <4>1 DEF SumStep
      <4>2. CASE s # {}
        <5>1. Cardinality(s \ {First(s)}) <= n /\ s \ {First(s)} \in SUBSET S
          BY <1>1, <2>2, <2>5, <4>2
        <5>2. g[s \ {First(s)}] = h[s \ {First(s)}]
          BY <5>1
        <5> QED BY <5>2 DEF SumStep
      <4> QED BY <4>1, <4>2
    <3>2. g[s] = SumStep(f, h, s)
      BY <2>1
    <3> QED BY <3>1, <3>2
  <2> HIDE DEF g
  <2> QED BY <2>4, <2>5
<1>5. Cardinality(S) \in T
  <2> HIDE DEF T
  <2> QED BY <1>1, <1>3, <1>4, NaturalsByStep
<1>6. PICK h \in [SUBSET S -> Int] :
        \A s \in SUBSET S : Cardinality(s) <= Cardinality(S) => h[s] = SumStep(f, h, s)
  BY <1>5
<1>7. \A s \in SUBSET S : Cardinality(s) <= Cardinality(S)
  BY FS_Subset
<1> QED BY <1>6, <1>7

(* The sum of f is what the steps add up to, member by member.             *)
LEMMA SumUnfolds ==
  ASSUME NEW S, IsFiniteSet(S), NEW f \in [S -> Int]
  PROVE  \E h : /\ \A s \in SUBSET S : h[s] = SumStep(f, h, s)
                /\ SumFunction(f) = h[S]
<1> DEFINE h == CHOOSE iter : iter = [s \in SUBSET S |-> IF s = {} THEN 0
                  ELSE f[CHOOSE x \in s : TRUE] + iter[s \ {CHOOSE x \in s : TRUE}]]
<1>1. SumFunction(f) = h[S]
  BY DEF SumFunction, SumFunctionOnSet, FoldFunctionOnSet, MapThenFoldSet
<1>2. \E iter : iter = [s \in SUBSET S |-> IF s = {} THEN 0
                  ELSE f[CHOOSE x \in s : TRUE] + iter[s \ {CHOOSE x \in s : TRUE}]]
  <2>1. PICK g \in [SUBSET S -> Int] : \A s \in SUBSET S : g[s] = SumStep(f, g, s)
    BY SumExists
  <2>2. g = [s \in SUBSET S |-> g[s]]
    BY <2>1
  <2>3. \A s \in SUBSET S : g[s] = IF s = {} THEN 0
                  ELSE f[CHOOSE x \in s : TRUE] + g[s \ {CHOOSE x \in s : TRUE}]
    BY <2>1 DEF SumStep, First
  <2>4. g = [s \in SUBSET S |-> IF s = {} THEN 0
                  ELSE f[CHOOSE x \in s : TRUE] + g[s \ {CHOOSE x \in s : TRUE}]]
    BY <2>2, <2>3, Zenon
  <2> QED BY <2>4
<1>3. h = [s \in SUBSET S |-> IF s = {} THEN 0
                  ELSE f[CHOOSE x \in s : TRUE] + h[s \ {CHOOSE x \in s : TRUE}]]
  BY <1>2, Zenon
<1> HIDE DEF h
<1>4. \A s \in SUBSET S : h[s] = SumStep(f, h, s)
  BY <1>3 DEF SumStep, First
<1> QED BY <1>1, <1>4

(* What holds of the empty set, and of a set whenever it holds of the set  *)
(* without its first member, holds of every subset.                        *)
LEMMA SubsetsByFirst ==
  ASSUME NEW S, IsFiniteSet(S), NEW G, {} \in G,
         \A s \in SUBSET S : s # {} /\ s \ {First(s)} \in G => s \in G
  PROVE  \A s \in SUBSET S : s \in G
<1> DEFINE T == {n \in Nat : \A s \in SUBSET S : Cardinality(s) = n => s \in G}
<1>1. \A s \in SUBSET S : IsFiniteSet(s) /\ Cardinality(s) \in Nat
  BY FS_Subset, FS_CardinalityType
<1>2. 0 \in T
  <2>1. \A s \in SUBSET S : Cardinality(s) = 0 => s = {}
    BY <1>1, FS_EmptySet
  <2> QED BY <2>1
<1>3. ASSUME NEW n \in Nat, n \in T PROVE n + 1 \in T
  <2> SUFFICES ASSUME NEW s \in SUBSET S, Cardinality(s) = n + 1 PROVE s \in G
    OBVIOUS
  <2>1. s # {}
    <3>1. Cardinality({}) = 0
      BY FS_EmptySet
    <3>2. n + 1 # 0
      OBVIOUS
    <3> QED BY <3>1, <3>2
  <2>2. First(s) \in s
    BY <2>1 DEF First
  <2>3. s \ {First(s)} \in SUBSET S /\ Cardinality(s \ {First(s)}) = n
    BY <1>1, <2>2, FS_RemoveElement
  <2>4. s \ {First(s)} \in G
    BY <1>3, <2>3
  <2> QED BY <2>1, <2>4
<1>4. Nat \subseteq T
  <2> HIDE DEF T
  <2> QED BY <1>2, <1>3, NaturalsByStep
<1> QED BY <1>1, <1>4

(* A function that differs in one value has a sum that differs by it. *)
LEMMA SumChange ==
  ASSUME NEW S, IsFiniteSet(S), NEW f \in [S -> Int], NEW g \in [S -> Int], NEW x \in S,
         \A y \in S \ {x} : g[y] = f[y]
  PROVE  /\ SumFunction(f) \in Int /\ SumFunction(g) \in Int
         /\ SumFunction(g) = SumFunction(f) + g[x] - f[x]
<1>1. PICK h : /\ \A s \in SUBSET S : h[s] = SumStep(f, h, s)
               /\ SumFunction(f) = h[S]
  BY SumUnfolds
<1>2. PICK k : /\ \A s \in SUBSET S : k[s] = SumStep(g, k, s)
               /\ SumFunction(g) = k[S]
  BY SumUnfolds
<1> DEFINE G == {s \in SUBSET S : /\ h[s] \in Int /\ k[s] \in Int
                                  /\ k[s] = h[s] + (IF x \in s THEN g[x] - f[x] ELSE 0)}
<1>3. {} \in G
  <2>1. h[{}] = 0 /\ k[{}] = 0
    BY <1>1, <1>2 DEF SumStep
  <2> QED BY <2>1
<1>4. ASSUME NEW s \in SUBSET S, s # {}, s \ {First(s)} \in G
      PROVE  s \in G
  <2> DEFINE y == First(s)
             r == s \ {y}
  <2>1. y \in s /\ y \in S
    BY <1>4 DEF First
  <2>2. h[s] = f[y] + h[r] /\ k[s] = g[y] + k[r]
    BY <1>1, <1>2, <1>4 DEF SumStep
  <2>3. h[r] \in Int /\ k[r] \in Int /\ k[r] = h[r] + (IF x \in r THEN g[x] - f[x] ELSE 0)
    BY <1>4
  <2> HIDE DEF y
  <2>4. f[y] \in Int /\ g[y] \in Int /\ f[x] \in Int /\ g[x] \in Int
    BY <2>1
  <2>5. CASE y = x
    BY <2>1, <2>2, <2>3, <2>4, <2>5
  <2>6. CASE y # x
    <3>1. g[y] = f[y] /\ (x \in s <=> x \in r)
      BY <2>1, <2>6
    <3> QED BY <2>2, <2>3, <2>4, <3>1
  <2> QED BY <2>5, <2>6
<1>5. S \in G
  <2> HIDE DEF G
  <2> QED BY <1>3, <1>4, SubsetsByFirst
<1> QED BY <1>1, <1>2, <1>5

(* A sum of integers is an integer.                                        *)
LEMMA SumInt ==
  ASSUME NEW S, IsFiniteSet(S), NEW f \in [S -> Int]
  PROVE  SumFunction(f) \in Int
<1>1. CASE S = {}
  <2>1. PICK h : /\ \A s \in SUBSET S : h[s] = SumStep(f, h, s)
                 /\ SumFunction(f) = h[S]
    BY SumUnfolds
  <2> QED BY <1>1, <2>1 DEF SumStep
<1>2. CASE S # {}
  <2>1. PICK x \in S : TRUE
    BY <1>2
  <2> QED BY <2>1, SumChange
<1> QED BY <1>1, <1>2

(* A sum of naturals is at least any of them.                              *)
LEMMA SumMember ==
  ASSUME NEW S, IsFiniteSet(S), NEW f \in [S -> Nat]
  PROVE  /\ SumFunction(f) \in Nat
         /\ \A x \in S : f[x] <= SumFunction(f)
<1>1. PICK h : /\ \A s \in SUBSET S : h[s] = SumStep(f, h, s)
               /\ SumFunction(f) = h[S]
  BY SumUnfolds
<1> DEFINE G == {s \in SUBSET S : h[s] \in Nat /\ \A x \in s : f[x] <= h[s]}
<1>2. {} \in G
  BY <1>1 DEF SumStep
<1>3. ASSUME NEW s \in SUBSET S, s # {}, s \ {First(s)} \in G
      PROVE  s \in G
  <2> DEFINE y == First(s)
             r == s \ {y}
  <2>1. y \in s /\ f[y] \in Nat /\ \A x \in s : f[x] \in Nat
    BY <1>3 DEF First
  <2>2. h[s] = f[y] + h[r]
    BY <1>1, <1>3 DEF SumStep
  <2>3. h[r] \in Nat /\ \A x \in r : f[x] <= h[r]
    BY <1>3
  <2> HIDE DEF y
  <2>4. h[s] \in Nat /\ f[y] <= h[s] /\ h[r] <= h[s]
    BY <2>1, <2>2, <2>3
  <2>5. \A x \in s : f[x] <= h[s]
    <3> SUFFICES ASSUME NEW x \in s PROVE f[x] <= h[s]
      OBVIOUS
    <3>1. CASE x = y
      BY <2>4, <3>1
    <3>2. CASE x # y
      <4>1. f[x] \in Nat /\ f[x] <= h[r]
        BY <2>1, <2>3, <3>2
      <4> QED BY <2>3, <2>4, <4>1
    <3> QED BY <3>1, <3>2
  <2> QED BY <2>4, <2>5
<1>4. S \in G
  <2> HIDE DEF G
  <2> QED BY <1>2, <1>3, SubsetsByFirst
<1> QED BY <1>1, <1>4

(* A function that is nowhere above another has no larger sum.             *)
LEMMA SumMonotone ==
  ASSUME NEW S, IsFiniteSet(S), NEW f \in [S -> Int], NEW g \in [S -> Int],
         \A x \in S : f[x] <= g[x]
  PROVE  SumFunction(f) <= SumFunction(g)
<1>1. PICK h : /\ \A s \in SUBSET S : h[s] = SumStep(f, h, s)
               /\ SumFunction(f) = h[S]
  BY SumUnfolds
<1>2. PICK k : /\ \A s \in SUBSET S : k[s] = SumStep(g, k, s)
               /\ SumFunction(g) = k[S]
  BY SumUnfolds
<1> DEFINE G == {s \in SUBSET S : h[s] \in Int /\ k[s] \in Int /\ h[s] <= k[s]}
<1>3. {} \in G
  <2>1. h[{}] = 0 /\ k[{}] = 0
    BY <1>1, <1>2 DEF SumStep
  <2> QED BY <2>1
<1>4. ASSUME NEW s \in SUBSET S, s # {}, s \ {First(s)} \in G
      PROVE  s \in G
  <2> DEFINE y == First(s)
             r == s \ {y}
  <2>1. y \in S
    BY <1>4 DEF First
  <2>2. h[s] = f[y] + h[r] /\ k[s] = g[y] + k[r]
    BY <1>1, <1>2, <1>4 DEF SumStep
  <2>3. h[r] \in Int /\ k[r] \in Int /\ h[r] <= k[r]
    BY <1>4
  <2> HIDE DEF y, r
  <2>4. f[y] \in Int /\ g[y] \in Int /\ f[y] <= g[y]
    BY <2>1
  <2>5. h[s] \in Int /\ k[s] \in Int /\ h[s] <= k[s]
    BY <2>2, <2>3, <2>4
  <2> QED BY <2>5
<1>5. S \in G
  <2> HIDE DEF G
  <2> QED BY <1>3, <1>4, SubsetsByFirst
<1> QED BY <1>1, <1>2, <1>5

LEMMA SumZero ==
  ASSUME NEW S, IsFiniteSet(S)
  PROVE  SumFunction([x \in S |-> 0]) = 0
<1> DEFINE f == [x \in S |-> 0]
<1>1. PICK h : /\ \A s \in SUBSET S : h[s] = SumStep(f, h, s)
               /\ SumFunction(f) = h[S]
  BY SumUnfolds
<1> DEFINE G == {s \in SUBSET S : h[s] = 0}
<1>2. {} \in G
  BY <1>1 DEF SumStep
<1>3. ASSUME NEW s \in SUBSET S, s # {}, s \ {First(s)} \in G
      PROVE  s \in G
  <2>1. First(s) \in s
    BY <1>3 DEF First
  <2>2. f[First(s)] = 0 /\ h[s \ {First(s)}] = 0
    BY <1>3, <2>1
  <2>3. h[s] = f[First(s)] + h[s \ {First(s)}]
    BY <1>1, <1>3 DEF SumStep
  <2>4. h[s] = 0
    BY <2>2, <2>3
  <2> QED BY <2>4
<1>4. S \in G
  <2> HIDE DEF G
  <2> QED BY <1>2, <1>3, SubsetsByFirst
<1> QED BY <1>1, <1>4

-----------------------------------------------------------------------------
(* The debt ledger.  Every transaction either leaves the debts alone or    *)
(* sets one principal, and moves the total by the same difference; the     *)
(* principal of other users stays the same, and so does its sum.           *)

(* The principal of one asset, by user. *)
Owed(a) == [u \in User |-> principal[u][a]]

-----------------------------------------------------------------------------
(* What a transaction does to the debts. *)

(* The debt of u in a is set to q. *)
MovesDebt(u, a, q) ==
  /\ principal' = [principal EXCEPT ![u][a] = q]
  /\ totalBorrows' = [totalBorrows EXCEPT ![a] = totalBorrows[a] + q - principal[u][a]]
  /\ \/ q > 0 /\ borrowed' = [borrowed EXCEPT ![u] = @ \cup {a}]
     \/ principal[u][a] > 0 /\ borrowed' = BorrowedAfter(u, a, q)

KeepsDebt == UNCHANGED <<principal, totalBorrows, borrowed>>

(* Somebody who owes something has principal. *)
LEMMA DueHasPrincipal ==
  ASSUME DebtTypeOK, NEW u \in User, NEW a \in Asset, Compounded(u, a) > 0
  PROVE  principal[u][a] > 0
<1>1. principal[u][a] \in Nat
  BY DEF DebtTypeOK
<1>2. CASE principal[u][a] = 0
  <2>1. Compounded(u, a) = 0
    BY <1>2 DEF Compounded
  <2> QED BY <2>1
<1> QED BY <1>1, <1>2

LEMMA SameTotal ==
  ASSUME TypeOK, NEW a \in Asset, NEW cash, UpdateReserve(a, totalBorrows[a], cash)
  PROVE  totalBorrows' = totalBorrows
BY DEF TypeOK, ReserveTypeOK, UpdateReserve, UpdateReserves

LEMMA BorrowMoves ==
  ASSUME TypeOK, NEW u \in User, NEW a \in Asset, NEW n \in Amount, Borrow(u, a, n)
  PROVE  \E q \in Nat : MovesDebt(u, a, q)
<1> DEFINE due == Compounded(u, a)
<1>1. n \in Nat /\ n > 0
  BY AmountNat DEF Borrow
<1>2. due \in Nat /\ principal[u][a] \in Nat /\ totalBorrows[a] \in Nat
  BY CompoundedNat DEF TypeOK, DebtTypeOK, ReserveTypeOK
<1>3. /\ principal' = [principal EXCEPT ![u][a] = due + n]
      /\ borrowed' = [borrowed EXCEPT ![u] = @ \cup {a}]
      /\ totalBorrows' = [totalBorrows EXCEPT ![a] = totalBorrows[a] + (due - principal[u][a]) + n]
  BY DEF Borrow, UpdateReserves
<1> HIDE DEF due
<1>4. totalBorrows[a] + (due - principal[u][a]) + n = totalBorrows[a] + (due + n) - principal[u][a]
  BY <1>1, <1>2
<1>5. totalBorrows' = [totalBorrows EXCEPT ![a] = totalBorrows[a] + (due + n) - principal[u][a]]
  BY <1>3, <1>4, Zenon
<1>6. due + n \in Nat /\ due + n > 0
  BY <1>1, <1>2
<1>7. MovesDebt(u, a, due + n)
  BY <1>3, <1>5, <1>6, Zenon DEF MovesDebt
<1> QED BY <1>6, <1>7

LEMMA RepayMoves ==
  ASSUME TypeOK, NEW p \in User, NEW u \in User, NEW a \in Asset, NEW n \in Amount,
         Repay(p, u, a, n)
  PROVE  \E q \in Nat : MovesDebt(u, a, q)
<1> DEFINE due  == Compounded(u, a)
           paid == IF n = MaxValue \/ n > due THEN due ELSE n
<1>1. n \in Nat /\ due > 0
  BY AmountNat DEF Repay
<1>2. due \in Nat /\ principal[u][a] \in Nat /\ totalBorrows[a] \in Nat
  BY CompoundedNat DEF TypeOK, DebtTypeOK, ReserveTypeOK
<1>3. /\ principal' = [principal EXCEPT ![u][a] = due - paid]
      /\ borrowed' = BorrowedAfter(u, a, due - paid)
      /\ totalBorrows' = [totalBorrows EXCEPT ![a] = TotalAfter(u, a, due, paid)]
  BY DEF Repay, UpdateReserve, UpdateReserves
<1>4. principal[u][a] > 0
  BY <1>1, DueHasPrincipal DEF TypeOK
<1> HIDE DEF due
<1>5. paid \in Nat /\ paid <= due
  BY <1>1, <1>2
<1> HIDE DEF paid
<1>6. TotalAfter(u, a, due, paid) = totalBorrows[a] + (due - paid) - principal[u][a]
  BY <1>2, <1>5 DEF TotalAfter
<1>7. MovesDebt(u, a, due - paid) /\ due - paid \in Nat
  BY <1>2, <1>3, <1>4, <1>5, <1>6 DEF MovesDebt
<1> QED BY <1>7

LEMMA LiquidateMoves ==
  ASSUME TypeOK, NEW l \in User, NEW u \in User, NEW c \in Asset, NEW d \in Asset,
         NEW n \in Amount, NEW asZToken \in BOOLEAN, Liquidate(l, u, c, d, n, asZToken)
  PROVE  \E q \in Nat : MovesDebt(u, d, q)
<1> DEFINE due   == Compounded(u, d)
           most  == Mul(due, Param[d].closeFactor)
           tried == IF n > most THEN most ELSE n
           paid  == Seizure(u, c, d, tried).debt
<1>1. /\ due > 0 /\ paid <= due
      /\ principal' = [principal EXCEPT ![u][d] = due - paid]
      /\ borrowed' = BorrowedAfter(u, d, due - paid)
      /\ totalBorrows' = [totalBorrows EXCEPT ![d] = TotalAfter(u, d, due, paid)]
  BY DEF Liquidate, LiquidatedReserves, UpdateReserves
<1>2. due \in Nat /\ principal[u][d] \in Nat /\ totalBorrows[d] \in Nat
  BY CompoundedNat DEF TypeOK, DebtTypeOK, ReserveTypeOK
<1>3. paid \in Nat
  <2>1. n \in Nat /\ most \in Nat
    BY <1>2, AmountNat, MulNat, ParamFacts
  <2>2. tried \in Nat
    BY <2>1
  <2> HIDE DEF tried
  <2> QED BY <2>2, SeizureNat DEF TypeOK
<1>4. principal[u][d] > 0
  BY <1>1, DueHasPrincipal DEF TypeOK
<1> HIDE DEF due, paid
<1>5. TotalAfter(u, d, due, paid) = totalBorrows[d] + (due - paid) - principal[u][d]
  BY <1>2, <1>3 DEF TotalAfter
<1>6. MovesDebt(u, d, due - paid) /\ due - paid \in Nat
  BY <1>1, <1>2, <1>3, <1>4, <1>5 DEF MovesDebt
<1> QED BY <1>6

LEMMA StepMoves ==
  ASSUME TypeOK, [Next]_vars
  PROVE  KeepsDebt \/ \E u \in User, a \in Asset, q \in Nat : MovesDebt(u, a, q)
<1>1. \A u \in Caller.supply \cup Caller.withdraw \cup Caller.borrow \cup Caller.repay
                 \cup Caller.liquidate \cup Caller.mode \cup Caller.use : u \in User
  BY PoolAssumption DEF PoolAssumption
<1>2. ASSUME NEW u \in User, NEW a \in Asset, NEW n \in Amount, Supply(u, a, n)
      PROVE  KeepsDebt
  BY <1>2, SameTotal DEF Supply, KeepsDebt, debtVars
<1>3. ASSUME NEW u \in User, NEW a \in Asset, NEW n \in Amount, Withdraw(u, a, n)
      PROVE  KeepsDebt
  BY <1>3, SameTotal DEF Withdraw, KeepsDebt, debtVars
<1>4. ASSUME NEW u \in User, NEW m \in EMode \cup {NoMode}, SetEMode(u, m)
      PROVE  KeepsDebt
  BY <1>4 DEF SetEMode, KeepsDebt, debtVars, reserveVars
<1>5. ASSUME NEW u \in User, NEW a \in Asset, NEW on \in BOOLEAN, SetUseAsCollateral(u, a, on)
      PROVE  KeepsDebt
  BY <1>5 DEF SetUseAsCollateral, KeepsDebt, debtVars, reserveVars
<1>6. CASE UserStep
  BY <1>1, <1>2, <1>3, <1>4, <1>5, <1>6, BorrowMoves, RepayMoves, LiquidateMoves
     DEF UserStep
<1>7. CASE ConfigStep
  BY <1>7 DEF ConfigStep, MintToTreasury, SetStatus, SetBorrowingEnabled,
              SetUsageAsCollateralEnabled, AddIsolatedAsset, RemoveIsolatedAsset,
              SetBorrowableIsolated, SetFreezeEndBlock, SetGracePeriodEnabled, SetEModeEnabled,
              SetAssetEMode, stateButConfig, KeepsDebt, debtVars, reserveVars
<1>8. CASE EnvStep
  BY <1>8 DEF EnvStep, NextBlock, NextBurnBlock, ReportPrice, stateButEnv, KeepsDebt,
              debtVars, reserveVars
<1>9. CASE UNCHANGED vars
  BY <1>9 DEF vars, KeepsDebt, debtVars, reserveVars
<1> QED BY <1>6, <1>7, <1>8, <1>9 DEF Next

-----------------------------------------------------------------------------
LEMMA LedgerMoves ==
  ASSUME TypeOK, DebtLedger, NEW u \in User, NEW a \in Asset, NEW q \in Nat,
         MovesDebt(u, a, q)
  PROVE  DebtLedger'
<1> SUFFICES ASSUME NEW b \in Asset
             PROVE  totalBorrows'[b] = SumFunction(Owed(b)')
  BY DEF DebtLedger, Owed
<1> DEFINE f == Owed(b)
           g == Owed(b)'
<1>1. principal \in [User -> [Asset -> Nat]] /\ principal' \in [User -> [Asset -> Nat]]
  BY DEF TypeOK, DebtTypeOK, MovesDebt
<1>2. f \in [User -> Nat] /\ g \in [User -> Nat]
  BY <1>1 DEF Owed
<1>3. \A v \in User \ {u} : g[v] = f[v]
  BY <1>1 DEF Owed, MovesDebt
<1>4. f[u] = principal[u][b] /\ g[u] = principal'[u][b]
  BY DEF Owed
<1>5. IsFiniteSet(User)
  BY PoolAssumption DEF PoolAssumption
<1>6. totalBorrows[b] = SumFunction(f) /\ totalBorrows[b] \in Nat
  BY DEF DebtLedger, Owed, TypeOK, ReserveTypeOK
<1> HIDE DEF f, g
<1>7. SumFunction(g) = SumFunction(f) + g[u] - f[u]
  <2>1. f \in [User -> Int] /\ g \in [User -> Int]
    BY <1>2
  <2> QED BY <1>3, <1>5, <2>1, SumChange
<1>8. f[u] \in Nat /\ g[u] \in Nat
  BY <1>2
<1>9. CASE b = a
  <2>1. totalBorrows'[b] = totalBorrows[b] + q - principal[u][b]
    BY <1>9 DEF MovesDebt, TypeOK, ReserveTypeOK
  <2>2. principal'[u][b] = q
    BY <1>1, <1>9 DEF MovesDebt
  <2> QED BY <1>4, <1>6, <1>7, <1>8, <2>1, <2>2 DEF g
<1>10. CASE b # a
  <2>1. totalBorrows'[b] = totalBorrows[b]
    BY <1>10 DEF MovesDebt, TypeOK, ReserveTypeOK
  <2>2. principal'[u][b] = principal[u][b]
    BY <1>1, <1>10 DEF MovesDebt
  <2> QED BY <1>4, <1>6, <1>7, <1>8, <2>1, <2>2 DEF g
<1> QED BY <1>9, <1>10

LEMMA LedgerKept ==
  ASSUME DebtLedger, KeepsDebt
  PROVE  DebtLedger'
BY DEF DebtLedger, KeepsDebt

LEMMA LedgerInit ==
  ASSUME Init
  PROVE  DebtLedger
<1> SUFFICES ASSUME NEW a \in Asset
             PROVE  totalBorrows[a] = SumFunction([u \in User |-> principal[u][a]])
  BY DEF DebtLedger
<1>1. [u \in User |-> principal[u][a]] = [u \in User |-> 0]
  BY DEF Init, UserZero
<1>2. SumFunction([u \in User |-> 0]) = 0
  BY SumZero, PoolAssumption DEF PoolAssumption
<1> QED BY <1>1, <1>2 DEF Init

LEMMA LedgerStep ==
  ASSUME TypeOK, DebtLedger, [Next]_vars
  PROVE  DebtLedger'
BY StepMoves, LedgerMoves, LedgerKept

(* The total that a reserve computes its rates and its treasury share from *)
(* is the sum of the principal of its borrowers, for any number of users   *)
(* and any sequence of transactions, although each transaction adjusts the *)
(* two from different functions of the reserve.                            *)
THEOREM DebtLedgerKept == Spec => []DebtLedger
<1>1. Init => DebtLedger
  BY LedgerInit
<1>2. TypeOK /\ DebtLedger /\ [Next]_vars => DebtLedger'
  BY LedgerStep
<1> QED BY <1>1, <1>2, TypeCorrect, PTL DEF Spec

-----------------------------------------------------------------------------
LEMMA ListsMove ==
  ASSUME TypeOK, BorrowListsExact, NEW u \in User, NEW a \in Asset, NEW q \in Nat,
         MovesDebt(u, a, q)
  PROVE  BorrowListsExact'
<1> SUFFICES ASSUME NEW v \in User, NEW b \in Asset
             PROVE  b \in borrowed'[v] <=> principal'[v][b] > 0
  BY DEF BorrowListsExact
<1>1. principal \in [User -> [Asset -> Nat]] /\ borrowed \in [User -> SUBSET Asset]
  BY DEF TypeOK, DebtTypeOK
<1>2. b \in borrowed[v] <=> principal[v][b] > 0
  BY DEF BorrowListsExact
<1>3. a \in borrowed[u] <=> principal[u][a] > 0
  BY DEF BorrowListsExact
<1>4. CASE v = u /\ b = a
  <2>1. principal'[v][b] = q
    BY <1>1, <1>4 DEF MovesDebt
  <2>2. b \in borrowed'[v] <=> q > 0
    BY <1>1, <1>3, <1>4 DEF MovesDebt, BorrowedAfter
  <2> QED BY <2>1, <2>2
<1>5. CASE ~ (v = u /\ b = a)
  <2>1. principal'[v][b] = principal[v][b]
    BY <1>1, <1>5 DEF MovesDebt
  <2>2. b \in borrowed'[v] <=> b \in borrowed[v]
    BY <1>1, <1>5 DEF MovesDebt, BorrowedAfter
  <2> QED BY <1>2, <2>1, <2>2
<1> QED BY <1>4, <1>5

LEMMA BorrowListsStep ==
  ASSUME TypeOK, BorrowListsExact, [Next]_vars
  PROVE  BorrowListsExact'
<1>1. CASE KeepsDebt
  BY <1>1 DEF KeepsDebt, BorrowListsExact
<1>2. ASSUME NEW u \in User, NEW a \in Asset, NEW q \in Nat, MovesDebt(u, a, q)
      PROVE  BorrowListsExact'
  BY <1>2, ListsMove
<1> QED BY <1>1, <1>2, StepMoves

LEMMA BorrowListsInit ==
  ASSUME Init
  PROVE  BorrowListsExact
BY DEF Init, BorrowListsExact, UserZero

(* The list of borrowed assets that can-enable-e-mode goes through misses  *)
(* no debt and holds no paid one.                                          *)
THEOREM BorrowListsKept == Spec => []BorrowListsExact
<1>1. Init => BorrowListsExact
  BY BorrowListsInit
<1>2. TypeOK /\ BorrowListsExact /\ [Next]_vars => BorrowListsExact'
  BY BorrowListsStep
<1> QED BY <1>1, <1>2, TypeCorrect, PTL DEF Spec

-----------------------------------------------------------------------------
(* Deposits: the list of supplied assets and the collateral flags. *)

(* A user who has a balance has z-tokens. *)
LEMMA BalanceHasTokens ==
  ASSUME SupplyTypeOK, NEW x \in Account, NEW a \in Asset, NEW income,
         BalanceAt(x, a, income) # 0
  PROVE  zBalance[x][a] > 0
BY DEF SupplyTypeOK, BalanceAt

(* The collateral flags that are left when a deposit goes. *)
LEMMA CollateralAfterAt ==
  ASSUME SupplyTypeOK, NEW u \in User, NEW a \in Asset, NEW gone \in BOOLEAN,
         NEW v \in User, NEW b \in Asset
  PROVE  CollateralAfter(u, a, gone)[v][b] <=> collateral[v][b] /\ ~ (v = u /\ b = a /\ gone)
<1>1. collateral \in [User -> [Asset -> BOOLEAN]]
  BY DEF SupplyTypeOK
<1>2. CollateralAfter(u, a, gone) = [collateral EXCEPT ![u][a] = collateral[u][a] /\ ~ gone]
  BY DEF CollateralAfter
<1>3. CASE v = u /\ b = a
  BY <1>1, <1>2, <1>3
<1>4. CASE ~ (v = u /\ b = a)
  BY <1>1, <1>2, <1>4
<1> QED BY <1>3, <1>4

ListedRight(v, b) ==
  /\ b \in supplied[v] <=> zBalance[v][b] > 0
  /\ collateral[v][b] => b \in supplied[v]

LEMMA SupplyLists ==
  ASSUME TypeOK, SupplyListsExact, NEW u \in User, NEW a \in Asset, NEW n \in Amount,
         Supply(u, a, n), NEW v \in User, NEW b \in Asset
  PROVE  ListedRight(v, b)'
<1> DEFINE have == Balance(u, a)
<1>1. ListedRight(v, b)
  BY DEF SupplyListsExact, ListedRight
<1>2. u \in Account /\ v \in Account
  BY DEF Account
<1>3. /\ zBalance \in [Account -> [Asset -> Nat]] /\ supplied \in [Account -> SUBSET Asset]
      /\ collateral \in [User -> [Asset -> BOOLEAN]]
  BY DEF TypeOK, SupplyTypeOK
<1>4. have \in Nat /\ n \in Nat
  BY <1>2, AmountNat, BalanceNat, Indices DEF TypeOK
<1>5. have # 0 => zBalance[u][a] > 0
  BY <1>2, BalanceHasTokens DEF Balance, TypeOK
<1>6. PICK use \in BOOLEAN : collateral' = [collateral EXCEPT ![u][a] = use]
  BY Zenon DEF Supply
<1>7. /\ n > 0
      /\ zBalance' = [zBalance EXCEPT ![u][a] = have + n]
      /\ supplied' = IF have = 0 THEN [supplied EXCEPT ![u] = @ \cup {a}] ELSE supplied
  BY DEF Supply
<1> HIDE DEF have
<1>8. CASE v = u /\ b = a
  <2>1. zBalance'[v][b] > 0
    BY <1>2, <1>3, <1>4, <1>7, <1>8
  <2>2. b \in supplied'[v]
    BY <1>1, <1>2, <1>3, <1>5, <1>7, <1>8 DEF ListedRight
  <2> QED BY <2>1, <2>2 DEF ListedRight
<1>9. CASE ~ (v = u /\ b = a)
  BY <1>1, <1>2, <1>3, <1>6, <1>7, <1>9 DEF ListedRight
<1> QED BY <1>8, <1>9

LEMMA WithdrawLists ==
  ASSUME TypeOK, SupplyListsExact, NEW u \in User, NEW a \in Asset, NEW n \in Amount,
         Withdraw(u, a, n), NEW v \in User, NEW b \in Asset
  PROVE  ListedRight(v, b)'
<1> DEFINE have == Balance(u, a)
           out  == IF n = MaxValue THEN have ELSE n
           all  == out = have
<1>1. ListedRight(v, b)
  BY DEF SupplyListsExact, ListedRight
<1>2. u \in Account /\ v \in Account
  BY DEF Account
<1>3. /\ zBalance \in [Account -> [Asset -> Nat]] /\ supplied \in [Account -> SUBSET Asset]
      /\ collateral \in [User -> [Asset -> BOOLEAN]]
  BY DEF TypeOK, SupplyTypeOK
<1>4. have \in Nat /\ n \in Nat
  BY <1>2, AmountNat, BalanceNat, Indices DEF TypeOK
<1>5. have # 0 => zBalance[u][a] > 0
  BY <1>2, BalanceHasTokens DEF Balance, TypeOK
<1>6. /\ out > 0 /\ out <= have
      /\ zBalance' = [zBalance EXCEPT ![u][a] = have - out]
      /\ supplied' = IF all THEN [supplied EXCEPT ![u] = @ \ {a}] ELSE supplied
      /\ collateral' = CollateralAfter(u, a, all)
  BY DEF Withdraw
<1>7. out \in Nat
  BY <1>4
<1> HIDE DEF have, out
<1>8. collateral'[v][b] <=> collateral[v][b] /\ ~ (v = u /\ b = a /\ all)
  <2>1. all \in BOOLEAN
    OBVIOUS
  <2> QED BY <1>6, <2>1, CollateralAfterAt, Zenon DEF TypeOK
<1>9. CASE v = u /\ b = a
  <2>1. zBalance'[v][b] = have - out
    BY <1>2, <1>3, <1>6, <1>9
  <2>2. CASE all
    <3>1. zBalance'[v][b] = 0 /\ b \notin supplied'[v]
      BY <1>2, <1>3, <1>4, <1>6, <1>7, <1>9, <2>1, <2>2
    <3>2. ~ collateral'[v][b]
      BY <1>8, <1>9, <2>2
    <3> QED BY <3>1, <3>2 DEF ListedRight
  <2>3. CASE ~ all
    <3>1. zBalance'[v][b] > 0
      BY <1>4, <1>6, <1>7, <2>1, <2>3
    <3>2. b \in supplied'[v]
      BY <1>1, <1>4, <1>5, <1>6, <1>7, <1>9, <2>3 DEF ListedRight
    <3> QED BY <3>1, <3>2 DEF ListedRight
  <2> QED BY <2>2, <2>3
<1>10. CASE ~ (v = u /\ b = a)
  <2>1. zBalance'[v][b] = zBalance[v][b]
    BY <1>2, <1>3, <1>6, <1>10
  <2>2. b \in supplied'[v] <=> b \in supplied[v]
    BY <1>2, <1>3, <1>6, <1>10
  <2> QED BY <1>1, <1>8, <1>10, <2>1, <2>2 DEF ListedRight
<1> QED BY <1>9, <1>10

(* What a liquidation seizes: the liquidator's gain and the fee. *)
LEMMA SeizureParts ==
  ASSUME TypeOK, NEW l \in User, NEW u \in User, NEW c \in Asset, NEW d \in Asset,
         NEW n \in Amount, NEW asZToken \in BOOLEAN, Liquidate(l, u, c, d, n, asZToken)
  PROVE  \E gain \in Nat, fee \in Nat, income \in Nat :
           /\ gain > 0 \/ (asZToken /\ l = u)
           /\ SeizedBalances(l, u, c, gain, fee, income, asZToken)
<1> DEFINE due    == Compounded(u, d)
           most   == Mul(due, Param[d].closeFactor)
           tried  == IF n > most THEN most ELSE n
           seize  == Seizure(u, c, d, tried)
           fee    == (Param[c].originationFee * seize.bonus) \div BasisPoints
           gain   == seize.collateral - fee
           income == IF asZToken /\ c # d THEN NormalizedIncome(c) ELSE NextLiqIndex(c)
<1>1. /\ fee <= seize.collateral
      /\ gain > 0 \/ (asZToken /\ l = u)
      /\ SeizedBalances(l, u, c, gain, fee, income, asZToken)
  BY DEF Liquidate
<1>2. tried \in Nat
  <2>1. due \in Nat
    BY CompoundedNat DEF TypeOK
  <2>2. most \in Nat
    BY <2>1, ParamFacts, MulNat
  <2> QED BY <2>2, AmountNat
<1> HIDE DEF tried
<1>3. seize.collateral \in Nat /\ seize.bonus \in Nat
  BY <1>2, SeizureNat DEF TypeOK
<1> HIDE DEF seize
<1>4. fee \in Nat
  <2>1. Param[c].originationFee * seize.bonus \in Nat
    BY <1>3, ParamFacts
  <2> QED BY <2>1, DivNat DEF BasisPoints
<1>5. income \in Nat
  BY Indices DEF TypeOK
<1> HIDE DEF fee, income
<1>6. gain \in Nat
  BY <1>1, <1>3, <1>4
<1> QED BY <1>1, <1>4, <1>5, <1>6

(* A seizure, whichever way the collateral goes. *)
LEMMA LiquidateLists ==
  ASSUME TypeOK, SupplyListsExact, NEW l \in User, NEW u \in User, NEW c \in Asset,
         NEW d \in Asset, NEW n \in Amount, NEW asZToken \in BOOLEAN,
         Liquidate(l, u, c, d, n, asZToken), NEW v \in User, NEW b \in Asset
  PROVE  ListedRight(v, b)'
<1>1. ListedRight(v, b)
  BY DEF SupplyListsExact, ListedRight
<1>2. u \in Account /\ v \in Account /\ l \in Account
  BY DEF Account
<1>3. /\ zBalance \in [Account -> [Asset -> Nat]] /\ supplied \in [Account -> SUBSET Asset]
      /\ collateral \in [User -> [Asset -> BOOLEAN]]
  BY DEF TypeOK, SupplyTypeOK
<1>4. PICK gain \in Nat, fee \in Nat, income \in Nat :
        /\ gain > 0 \/ (asZToken /\ l = u)
        /\ SeizedBalances(l, u, c, gain, fee, income, asZToken)
  BY SeizureParts
<1> DEFINE kept == Kept(l, u, c, gain, fee, income, asZToken)
           gone == kept = 0
           got  == asZToken /\ l # u
           held == BalanceAt(l, c, income)
<1>5. /\ kept >= 0
      /\ zBalance' = [x \in Account |->
           IF x = u THEN [zBalance[u] EXCEPT ![c] = kept]
           ELSE IF x = l /\ got THEN [zBalance[l] EXCEPT ![c] = held + gain]
           ELSE zBalance[x]]
      /\ supplied' = [x \in Account |->
           IF x = u /\ gone THEN supplied[u] \ {c}
           ELSE IF x = l /\ asZToken THEN supplied[l] \cup {c}
           ELSE supplied[x]]
      /\ collateral' = CollateralAfter(u, c, gone)
  BY <1>4 DEF SeizedBalances
<1>6. c \in supplied[u]
  <2>1. Balance(u, c) > 0
    BY Zenon DEF Liquidate
  <2>2. zBalance[u][c] > 0
    BY <1>2, <2>1, BalanceHasTokens DEF Balance, TypeOK
  <2> QED BY <2>2 DEF SupplyListsExact
<1>7. held \in Nat /\ kept \in Int
  BY <1>2, <1>4, BalanceNat DEF TypeOK, Kept
<1>8. collateral'[v][b] <=> collateral[v][b] /\ ~ (v = u /\ b = c /\ gone)
  <2>1. gone \in BOOLEAN
    OBVIOUS
  <2> QED BY <1>5, <2>1, CollateralAfterAt, Zenon DEF TypeOK
<1> HIDE DEF kept, held
<1>9. CASE b # c
  <2>1. zBalance'[v][b] = zBalance[v][b]
    BY <1>2, <1>3, <1>5, <1>9
  <2>2. b \in supplied'[v] <=> b \in supplied[v]
    BY <1>2, <1>3, <1>5, <1>9
  <2> QED BY <1>1, <1>8, <1>9, <2>1, <2>2 DEF ListedRight
<1>10. CASE b = c /\ v = u
  <2>1. zBalance'[v][b] = kept
    BY <1>2, <1>3, <1>5, <1>10
  <2>2. CASE gone
    <3>1. b \notin supplied'[v]
      BY <1>2, <1>5, <1>10, <2>2
    <3>2. ~ collateral'[v][b]
      BY <1>8, <1>10, <2>2
    <3> QED BY <2>1, <2>2, <3>1, <3>2 DEF ListedRight
  <2>3. CASE ~ gone
    <3>1. zBalance'[v][b] > 0
      BY <1>5, <1>7, <2>1, <2>3
    <3>2. b \in supplied'[v]
      BY <1>2, <1>5, <1>6, <1>10, <2>3
    <3> QED BY <3>1, <3>2 DEF ListedRight
  <2> QED BY <2>2, <2>3
<1>11. CASE b = c /\ v # u /\ v = l /\ asZToken
  <2>1. zBalance'[v][b] = held + gain
    BY <1>2, <1>3, <1>5, <1>11
  <2>2. held + gain > 0
    BY <1>4, <1>7, <1>11
  <2>3. b \in supplied'[v]
    BY <1>2, <1>5, <1>11
  <2> QED BY <2>1, <2>2, <2>3 DEF ListedRight
<1>12. CASE b = c /\ v # u /\ ~ (v = l /\ asZToken)
  <2>1. zBalance'[v][b] = zBalance[v][b]
    BY <1>2, <1>3, <1>5, <1>12
  <2>2. supplied'[v] = supplied[v]
    BY <1>2, <1>5, <1>12
  <2> QED BY <1>1, <1>8, <1>12, <2>1, <2>2 DEF ListedRight
<1> QED BY <1>9, <1>10, <1>11, <1>12

LEMMA SetUseLists ==
  ASSUME TypeOK, SupplyListsExact, NEW u \in User, NEW a \in Asset, NEW on \in BOOLEAN,
         SetUseAsCollateral(u, a, on), NEW v \in User, NEW b \in Asset
  PROVE  ListedRight(v, b)'
<1>1. ListedRight(v, b)
  BY DEF SupplyListsExact, ListedRight
<1>2. zBalance' = zBalance /\ supplied' = supplied
  BY DEF SetUseAsCollateral, zVars
<1>3. PICK flag \in BOOLEAN : collateral' = [collateral EXCEPT ![u][a] = flag]
  BY DEF SetUseAsCollateral
<1>4. a \in supplied[u]
  <2>1. Balance(u, a) # 0
    BY DEF SetUseAsCollateral
  <2>2. zBalance[u][a] > 0
    BY <2>1, BalanceHasTokens DEF Balance, TypeOK, Account
  <2> QED BY <2>2 DEF SupplyListsExact
<1>5. CASE v = u /\ b = a
  BY <1>1, <1>2, <1>4, <1>5 DEF ListedRight
<1>6. CASE ~ (v = u /\ b = a)
  <2>1. collateral \in [User -> [Asset -> BOOLEAN]]
    BY DEF TypeOK, SupplyTypeOK
  <2>2. collateral'[v][b] = collateral[v][b]
    BY <1>3, <1>6, <2>1
  <2> QED BY <1>1, <1>2, <2>2 DEF ListedRight
<1> QED BY <1>5, <1>6

(* set-e-mode and the repayments leave the supply side alone, and so do    *)
(* the configurator, who mints for the treasury only, and the chain.       *)
SupplyKept ==
  /\ UNCHANGED collateral
  /\ \A u \in User : supplied'[u] = supplied[u] /\ zBalance'[u] = zBalance[u]

LEMMA ConfigKeepsSupply ==
  ASSUME TypeOK, ConfigStep
  PROVE  SupplyKept
<1>1. ASSUME NEW a \in Asset, MintToTreasury(a) PROVE SupplyKept
  <2>1. /\ zBalance' = [zBalance EXCEPT ![Treasury][a] =
                          Balance(Treasury, a) + Mul(accrued[a], NormalizedIncome(a))]
        /\ supplied' = supplied /\ collateral' = collateral
    BY <1>1 DEF MintToTreasury
  <2>2. zBalance \in [Account -> [Asset -> Nat]] /\ Treasury \notin User
    BY PoolAssumption DEF TypeOK, SupplyTypeOK, PoolAssumption
  <2> QED BY <2>1, <2>2 DEF SupplyKept, Account
<1>2. CASE UNCHANGED stateButConfig
  BY <1>2 DEF stateButConfig, supplyVars, zVars, SupplyKept
<1> QED BY <1>1, <1>2 DEF ConfigStep, SetStatus, SetBorrowingEnabled,
        SetUsageAsCollateralEnabled, AddIsolatedAsset, RemoveIsolatedAsset,
        SetBorrowableIsolated, SetFreezeEndBlock, SetGracePeriodEnabled, SetEModeEnabled,
        SetAssetEMode

LEMMA SupplyListsStep ==
  ASSUME TypeOK, SupplyListsExact, [Next]_vars
  PROVE  SupplyListsExact'
<1>1. SUFFICES ASSUME NEW v \in User, NEW b \in Asset
               PROVE  ListedRight(v, b)'
  BY DEF SupplyListsExact, ListedRight
<1>2. CASE SupplyKept
  BY <1>2 DEF SupplyKept, SupplyListsExact, ListedRight
<1>3. CASE UserStep
  <2>1. \A u \in Caller.supply \cup Caller.withdraw \cup Caller.borrow \cup Caller.repay
                   \cup Caller.liquidate \cup Caller.mode \cup Caller.use : u \in User
    BY PoolAssumption DEF PoolAssumption
  <2>2. ASSUME UNCHANGED supplyVars PROVE SupplyKept
    BY <2>2 DEF SupplyKept, supplyVars, zVars
  <2>3. ASSUME NEW u \in User, NEW a \in Asset, NEW n \in Amount, Borrow(u, a, n)
        PROVE  SupplyKept
    BY <2>2, <2>3 DEF Borrow
  <2>4. ASSUME NEW p \in User, NEW u \in User, NEW a \in Asset, NEW n \in Amount,
               Repay(p, u, a, n)
        PROVE  SupplyKept
    BY <2>2, <2>4 DEF Repay
  <2>5. ASSUME NEW u \in User, NEW m \in EMode \cup {NoMode}, SetEMode(u, m)
        PROVE  SupplyKept
    BY <2>2, <2>5 DEF SetEMode
  <2> QED BY <1>2, <1>3, <2>1, <2>3, <2>4, <2>5, SupplyLists, WithdrawLists,
             LiquidateLists, SetUseLists DEF UserStep
<1>4. CASE ConfigStep
  BY <1>2, <1>4, ConfigKeepsSupply
<1>5. CASE EnvStep
  BY <1>2, <1>5 DEF EnvStep, NextBlock, NextBurnBlock, ReportPrice, stateButEnv,
                    supplyVars, zVars, SupplyKept
<1>6. CASE UNCHANGED vars
  BY <1>2, <1>6 DEF vars, supplyVars, zVars, SupplyKept
<1> QED BY <1>3, <1>4, <1>5, <1>6 DEF Next

LEMMA SupplyListsInit ==
  ASSUME Init
  PROVE  SupplyListsExact
BY DEF Init, SupplyListsExact, Zero, Account

(* For every user, the z-tokens, the list of supplied assets and the       *)
(* collateral flags tell the same story, whichever of supply, withdraw,    *)
(* liquidation-call and set-user-use-reserve-as-collateral moved them.     *)
THEOREM SupplyListsKept == Spec => []SupplyListsExact
<1>1. Init => SupplyListsExact
  BY SupplyListsInit
<1>2. TypeOK /\ SupplyListsExact /\ [Next]_vars => SupplyListsExact'
  BY SupplyListsStep
<1> QED BY <1>1, <1>2, TypeCorrect, PTL DEF Spec

-----------------------------------------------------------------------------
(* E-modes. *)

(* A step that changes no mode and no type, and puts to use, for a user in *)
(* a mode, only assets of its type.                                        *)
StaysInMode ==
  /\ UNCHANGED <<eMode, assetEMode>>
  /\ \A u \in User, a \in Asset :
       (a \in borrowed'[u] \/ collateral'[u][a]) =>
         \/ a \in borrowed[u] \/ collateral[u][a]
         \/ eMode[u] = NoMode \/ assetEMode[a] = eMode[u]

LEMMA SupplyInMode ==
  ASSUME TypeOK, NEW u \in User, NEW a \in Asset, NEW n \in Amount, Supply(u, a, n)
  PROVE  StaysInMode
<1>1. UNCHANGED <<eMode, assetEMode, borrowed>>
  BY DEF Supply, configVars, debtVars
<1>2. PICK use \in BOOLEAN :
        /\ use => eMode[u] = NoMode \/ assetEMode[a] = eMode[u]
        /\ collateral' = [collateral EXCEPT ![u][a] = collateral[u][a] \/ use]
  BY Zenon DEF Supply
<1>3. ASSUME NEW v \in User, NEW b \in Asset, collateral'[v][b]
      PROVE  collateral[v][b] \/ (use /\ v = u /\ b = a)
  <2>1. collateral \in [User -> [Asset -> BOOLEAN]]
    BY DEF TypeOK, SupplyTypeOK
  <2>2. CASE v = u /\ b = a
    BY <1>2, <1>3, <2>1, <2>2
  <2>3. CASE ~ (v = u /\ b = a)
    BY <1>2, <1>3, <2>1, <2>3
  <2> QED BY <2>2, <2>3
<1> QED BY <1>1, <1>2, <1>3 DEF StaysInMode

LEMMA BorrowInMode ==
  ASSUME TypeOK, NEW u \in User, NEW a \in Asset, NEW n \in Amount, Borrow(u, a, n)
  PROVE  StaysInMode
<1>1. /\ UNCHANGED <<eMode, assetEMode, collateral>>
      /\ eMode[u] = NoMode \/ assetEMode[a] = eMode[u]
      /\ borrowed' = [borrowed EXCEPT ![u] = @ \cup {a}]
  BY DEF Borrow, configVars, supplyVars
<1>2. borrowed \in [User -> SUBSET Asset]
  BY DEF TypeOK, DebtTypeOK
<1>3. ASSUME NEW v \in User, NEW b \in Asset, b \in borrowed'[v]
      PROVE  b \in borrowed[v] \/ (v = u /\ b = a)
  BY <1>1, <1>2, <1>3
<1> QED BY <1>1, <1>3 DEF StaysInMode

(* Repayments, withdrawals and liquidations only leave assets. *)
LEMMA LeavingInMode ==
  ASSUME TypeOK, UNCHANGED <<eMode, assetEMode>>, NEW u \in User, NEW a \in Asset,
         NEW left, NEW d \in Asset, NEW gone \in BOOLEAN,
         borrowed' = borrowed \/ borrowed' = BorrowedAfter(u, d, left),
         collateral' = collateral \/ collateral' = CollateralAfter(u, a, gone)
  PROVE  StaysInMode
<1>1. ASSUME NEW v \in User, NEW b \in Asset, b \in borrowed'[v]
      PROVE  b \in borrowed[v]
  BY <1>1 DEF TypeOK, DebtTypeOK, BorrowedAfter
<1>2. ASSUME NEW v \in User, NEW b \in Asset, collateral'[v][b]
      PROVE  collateral[v][b]
  <2>1. CASE collateral' = collateral
    BY <1>2, <2>1
  <2>2. CASE collateral' = CollateralAfter(u, a, gone)
    BY <1>2, <2>2, CollateralAfterAt, Zenon DEF TypeOK
  <2> QED BY <2>1, <2>2
<1> QED BY <1>1, <1>2 DEF StaysInMode

LEMMA SetUseInMode ==
  ASSUME TypeOK, NEW u \in User, NEW a \in Asset, NEW on \in BOOLEAN,
         SetUseAsCollateral(u, a, on)
  PROVE  StaysInMode
<1>1. UNCHANGED <<eMode, assetEMode, borrowed>>
  BY DEF SetUseAsCollateral, configVars, debtVars
<1>2. PICK flag \in BOOLEAN :
        /\ flag => eMode[u] = NoMode \/ assetEMode[a] = eMode[u]
        /\ collateral' = [collateral EXCEPT ![u][a] = flag]
  BY DEF SetUseAsCollateral
<1>3. ASSUME NEW v \in User, NEW b \in Asset, collateral'[v][b]
      PROVE  collateral[v][b] \/ (flag /\ v = u /\ b = a)
  <2>1. collateral \in [User -> [Asset -> BOOLEAN]]
    BY DEF TypeOK, SupplyTypeOK
  <2>2. CASE v = u /\ b = a
    BY <1>2, <1>3, <2>1, <2>2
  <2>3. CASE ~ (v = u /\ b = a)
    BY <1>2, <1>3, <2>1, <2>3
  <2> QED BY <2>2, <2>3
<1> QED BY <1>1, <1>2, <1>3 DEF StaysInMode

(* set-e-mode checks what is borrowed and what is used as collateral. *)
LEMMA SetEModeCoherent ==
  ASSUME TypeOK, EModeCoherent, NEW u \in User, NEW m \in EMode \cup {NoMode},
         SetEMode(u, m)
  PROVE  EModeCoherent'
<1>1. /\ UNCHANGED <<borrowed, collateral, assetEMode>>
      /\ eMode' = [eMode EXCEPT ![u] = m]
  BY DEF SetEMode, debtVars, supplyVars, configVars
<1>2. m # NoMode => \A a \in borrowed[u] : assetEMode[a] = m
  BY DEF SetEMode, CanEnableEMode
<1>3. m # NoMode => \A a \in Asset : collateral[u][a] => assetEMode[a] = m
  BY DEF SetEMode
<1>4. eMode \in [User -> EMode \cup {NoMode}]
  BY DEF TypeOK, ModeTypeOK
<1> QED BY <1>1, <1>2, <1>3, <1>4 DEF EModeCoherent

(* The configurator gives another type only to an asset that no user in a  *)
(* mode borrows or uses.  set-asset-e-mode-type checks nothing of the      *)
(* kind, so the theorem below is about configurators that do.              *)
RetypesUnused ==
  \A a \in Asset : assetEMode'[a] # assetEMode[a] =>
    \A u \in User : eMode[u] # NoMode => a \notin borrowed[u] /\ ~ collateral[u][a]

LEMMA ConfigCoherent ==
  ASSUME TypeOK, EModeCoherent, ConfigStep, RetypesUnused
  PROVE  EModeCoherent'
<1>1. UNCHANGED <<eMode, borrowed, collateral>>
  BY DEF ConfigStep, MintToTreasury, SetStatus, SetBorrowingEnabled,
         SetUsageAsCollateralEnabled, AddIsolatedAsset, RemoveIsolatedAsset,
         SetBorrowableIsolated, SetFreezeEndBlock, SetGracePeriodEnabled, SetEModeEnabled,
         SetAssetEMode, stateButConfig, debtVars, supplyVars
<1> QED BY <1>1 DEF EModeCoherent, RetypesUnused

(* A user in an e-mode borrows, and uses as collateral, assets of its type *)
(* only: supply, borrow, set-e-mode and set-user-use-reserve-as-collateral *)
(* each check it where they put an asset to use, and no liquidation or     *)
(* repayment can get around them.                                          *)
THEOREM EModesCoherent == Spec /\ [][RetypesUnused]_vars => []EModeCoherent
<1>1. Init => EModeCoherent
  BY DEF Init, EModeCoherent
<1>2. TypeOK /\ EModeCoherent /\ [Next]_vars /\ [RetypesUnused]_vars => EModeCoherent'
  <2> SUFFICES ASSUME TypeOK, EModeCoherent, [Next]_vars, [RetypesUnused]_vars
               PROVE  EModeCoherent'
    OBVIOUS
  <2>1. CASE StaysInMode
    BY <2>1 DEF StaysInMode, EModeCoherent
  <2>2. CASE UserStep
    <3>1. \A u \in Caller.supply \cup Caller.withdraw \cup Caller.borrow \cup Caller.repay
                     \cup Caller.liquidate \cup Caller.mode \cup Caller.use : u \in User
      BY PoolAssumption DEF PoolAssumption
    <3>2. ASSUME NEW u \in User, NEW a \in Asset, NEW n \in Amount, Withdraw(u, a, n)
          PROVE  StaysInMode
      <4>1. PICK all \in BOOLEAN : collateral' = CollateralAfter(u, a, all)
        BY <3>2 DEF Withdraw
      <4>2. UNCHANGED <<eMode, assetEMode, borrowed>>
        BY <3>2 DEF Withdraw, debtVars, configVars
      <4> QED BY <4>1, <4>2, LeavingInMode
    <3>3. ASSUME NEW p \in User, NEW u \in User, NEW a \in Asset, NEW n \in Amount,
                 Repay(p, u, a, n)
          PROVE  StaysInMode
      <4>1. PICK left : borrowed' = BorrowedAfter(u, a, left)
        BY <3>3 DEF Repay
      <4>2. UNCHANGED <<eMode, assetEMode, collateral>>
        BY <3>3 DEF Repay, supplyVars, configVars
      <4> QED BY <4>1, <4>2, LeavingInMode
    <3>4. ASSUME NEW l \in User, NEW u \in User, NEW c \in Asset, NEW d \in Asset,
                 NEW n \in Amount, NEW asZToken \in BOOLEAN,
                 Liquidate(l, u, c, d, n, asZToken)
          PROVE  StaysInMode
      <4>1. PICK left : borrowed' = BorrowedAfter(u, d, left)
        BY <3>4 DEF Liquidate
      <4>2. PICK gain \in Nat, fee \in Nat, income \in Nat :
              SeizedBalances(l, u, c, gain, fee, income, asZToken)
        BY <3>4, SeizureParts
      <4>3. PICK gone \in BOOLEAN : collateral' = CollateralAfter(u, c, gone)
        BY <4>2, Zenon DEF SeizedBalances
      <4>4. UNCHANGED <<eMode, assetEMode>>
        BY <3>4 DEF Liquidate, configVars
      <4> QED BY <4>1, <4>3, <4>4, LeavingInMode
    <3> QED BY <2>1, <2>2, <3>1, <3>2, <3>3, <3>4, SupplyInMode, BorrowInMode,
               SetUseInMode, SetEModeCoherent DEF UserStep
  <2>3. CASE ConfigStep
    <3>1. CASE RetypesUnused
      BY <2>3, <3>1, ConfigCoherent
    <3>2. CASE UNCHANGED vars
      BY <3>2 DEF vars, debtVars, supplyVars, configVars, EModeCoherent
    <3> QED BY <3>1, <3>2
  <2>4. CASE EnvStep
    BY <2>4 DEF EnvStep, NextBlock, NextBurnBlock, ReportPrice, stateButEnv, debtVars,
                supplyVars, configVars, EModeCoherent
  <2>5. CASE UNCHANGED vars
    BY <2>5 DEF vars, debtVars, supplyVars, configVars, EModeCoherent
  <2> QED BY <2>2, <2>3, <2>4, <2>5 DEF Next
<1> QED BY <1>1, <1>2, TypeCorrect, PTL DEF Spec

-----------------------------------------------------------------------------
(* Isolation. *)

(* IsolationExclusive without the cardinality, in terms of the flags.      *)
AloneInUse ==
  \A u \in User : \A a, b \in Asset :
    collateral[u][a] /\ a \in isolated /\ collateral[u][b] => b = a

(* add-isolated-asset checks nothing of the users: the theorem below is    *)
(* about configurators who isolate an asset that nobody uses.              *)
IsolatesUnused ==
  \A a \in isolated' \ isolated : \A u \in User : ~ collateral[u][a]

(* Nobody takes up an isolated asset while assets of theirs that count for *)
(* nothing serve as collateral.  set-user-use-reserve-as-collateral looks  *)
(* at the value of the collateral, which is zero when the configurator     *)
(* switched the use of all of it off, or when it rounds to zero.           *)
TakesUpAlone ==
  \A u \in User, a \in Asset :
    a \in isolated /\ collateral'[u][a] /\ ~ collateral[u][a] /\ ~ (CollateralValue(u) > 0)
      => \A b \in Asset : ~ collateral[u][b]

LEMMA EnabledAre ==
  ASSUME TypeOK, SupplyListsExact, NEW u \in User
  PROVE  Enabled(supplied[u], collateral[u]) = {a \in Asset : collateral[u][a]}
<1>1. supplied[u] \subseteq Asset
  BY DEF TypeOK, SupplyTypeOK, Account
<1>2. \A a \in Asset : collateral[u][a] => a \in supplied[u]
  BY DEF SupplyListsExact
<1> QED BY <1>1, <1>2 DEF Enabled

LEMMA AloneIsExclusive ==
  ASSUME TypeOK, SupplyListsExact, AloneInUse
  PROVE  IsolationExclusive
<1> SUFFICES ASSUME NEW u \in User, Enabled(supplied[u], collateral[u]) \cap isolated # {}
             PROVE  Cardinality(Enabled(supplied[u], collateral[u])) = 1
  BY DEF IsolationExclusive
<1>1. PICK a \in Asset : collateral[u][a] /\ a \in isolated
  BY EnabledAre
<1>2. Enabled(supplied[u], collateral[u]) = {a}
  BY <1>1, EnabledAre DEF AloneInUse
<1> QED BY <1>2, FS_Singleton

(* A user who is not in isolation mode uses no isolated asset. *)
LEMMA NoneIsolated ==
  ASSUME TypeOK, SupplyListsExact, AloneInUse, NEW u \in User, IsolationOfUser(u) = NoAsset
  PROVE  \A a \in Asset : collateral[u][a] => a \notin isolated
<1> SUFFICES ASSUME NEW a \in Asset, collateral[u][a], a \in isolated
             PROVE  FALSE
  OBVIOUS
<1> DEFINE on == Enabled(supplied[u], collateral[u])
<1>1. on = {a}
  BY EnabledAre DEF AloneInUse
<1>2. Cardinality(on) = 1 /\ on \subseteq isolated
  BY <1>1, FS_Singleton
<1>3. (CHOOSE b \in on : TRUE) \in on
  BY <1>1
<1>4. IsolationOfUser(u) = CHOOSE b \in on : TRUE
  BY <1>2 DEF IsolationOfUser, IsolatedAsset
<1> QED BY <1>1, <1>3, <1>4, PoolAssumption DEF PoolAssumption

(* A step that puts at most one asset of a user to use: the only one, or   *)
(* one among none that is isolated.                                        *)
StaysAlone ==
  /\ isolated' = isolated
  /\ \A u \in User : \E a \in Asset \cup {NoAsset} :
       /\ \A b \in Asset \ {a} : collateral'[u][b] => collateral[u][b]
       /\ \/ a = NoAsset
          \/ \A b \in Asset : ~ collateral[u][b]
          \/ a \notin isolated /\ \A b \in Asset : collateral[u][b] => b \notin isolated

LEMMA StaysAloneKeeps ==
  ASSUME AloneInUse, StaysAlone
  PROVE  AloneInUse'
<1> SUFFICES ASSUME NEW u \in User, NEW b \in Asset, NEW c \in Asset,
                    collateral'[u][b], b \in isolated, collateral'[u][c]
             PROVE  c = b
  BY DEF AloneInUse, StaysAlone
<1>1. PICK a \in Asset \cup {NoAsset} :
        /\ \A x \in Asset \ {a} : collateral'[u][x] => collateral[u][x]
        /\ \/ a = NoAsset
           \/ \A x \in Asset : ~ collateral[u][x]
           \/ a \notin isolated /\ \A x \in Asset : collateral[u][x] => x \notin isolated
  BY DEF StaysAlone
<1>2. NoAsset \notin Asset
  BY PoolAssumption DEF PoolAssumption
<1> QED BY <1>1, <1>2 DEF AloneInUse

(* One flag set, and the others as they were. *)
LEMMA OneFlagAlone ==
  ASSUME TypeOK, isolated' = isolated, NEW u \in User, NEW a \in Asset, NEW flag \in BOOLEAN,
         collateral' = [collateral EXCEPT ![u][a] = flag],
         \/ ~ flag \/ collateral[u][a]
         \/ \A b \in Asset : ~ collateral[u][b]
         \/ a \notin isolated /\ \A b \in Asset : collateral[u][b] => b \notin isolated
  PROVE  StaysAlone
<1>1. collateral \in [User -> [Asset -> BOOLEAN]]
  BY DEF TypeOK, SupplyTypeOK
<1>2. \A v \in User, b \in Asset :
        collateral'[v][b] = IF v = u /\ b = a THEN flag ELSE collateral[v][b]
  BY <1>1
<1>3. ASSUME NEW v \in User, v # u \/ ~ flag \/ collateral[u][a]
      PROVE  \A b \in Asset \ {NoAsset} : collateral'[v][b] => collateral[v][b]
  BY <1>2, <1>3
<1>4. \A b \in Asset \ {a} : collateral'[u][b] => collateral[u][b]
  BY <1>2
<1> QED BY <1>3, <1>4 DEF StaysAlone

LEMMA SupplyAlone ==
  ASSUME TypeOK, SupplyListsExact, AloneInUse, NEW u \in User, NEW a \in Asset,
         NEW n \in Amount, Supply(u, a, n)
  PROVE  StaysAlone
<1>1. isolated' = isolated
  BY DEF Supply, configVars
<1>2. PICK use \in BOOLEAN :
        /\ use => MayUseAsCollateral(u, a)
        /\ collateral' = [collateral EXCEPT ![u][a] = collateral[u][a] \/ use]
  BY Zenon DEF Supply
<1> DEFINE flag == collateral[u][a] \/ use
<1>3. flag \in BOOLEAN /\ collateral' = [collateral EXCEPT ![u][a] = flag]
  BY <1>2
<1>4. \/ ~ flag \/ collateral[u][a]
      \/ \A b \in Asset : ~ collateral[u][b]
      \/ a \notin isolated /\ \A b \in Asset : collateral[u][b] => b \notin isolated
  <2>1. CASE use
    <3>1. \/ Enabled(supplied[u], collateral[u]) = {}
          \/ IsolationOfUser(u) = NoAsset /\ a \notin isolated
      BY <1>2, <2>1 DEF MayUseAsCollateral
    <3> QED BY <3>1, EnabledAre, NoneIsolated
  <2>2. CASE ~ use
    BY <2>2
  <2> QED BY <2>1, <2>2
<1> HIDE DEF flag
<1> QED BY <1>1, <1>3, <1>4, OneFlagAlone

LEMMA SetUseAlone ==
  ASSUME TypeOK, SupplyListsExact, AloneInUse, TakesUpAlone, NEW u \in User,
         NEW a \in Asset, NEW on \in BOOLEAN, SetUseAsCollateral(u, a, on)
  PROVE  StaysAlone
<1>1. isolated' = isolated
  BY DEF SetUseAsCollateral, configVars
<1>2. CASE collateral' = [collateral EXCEPT ![u][a] = FALSE]
  BY <1>1, <1>2, OneFlagAlone
<1>3. CASE /\ IsolationOfUser(u) = NoAsset
           /\ on /\ CollateralValue(u) > 0 => a \notin isolated
           /\ collateral' = [collateral EXCEPT ![u][a] = on]
  <2>1. on => collateral'[u][a]
    BY <1>3 DEF TypeOK, SupplyTypeOK
  <2>2. \/ ~ on \/ collateral[u][a]
        \/ \A b \in Asset : ~ collateral[u][b]
        \/ a \notin isolated /\ \A b \in Asset : collateral[u][b] => b \notin isolated
    <3>1. \A b \in Asset : collateral[u][b] => b \notin isolated
      BY <1>3, NoneIsolated
    <3> QED BY <1>3, <2>1, <3>1 DEF TakesUpAlone
  <2> QED BY <1>1, <1>3, <2>2, OneFlagAlone
<1> QED BY <1>2, <1>3 DEF SetUseAsCollateral

LEMMA LeavingAlone ==
  ASSUME TypeOK, isolated' = isolated, NEW u \in User, NEW a \in Asset, NEW gone \in BOOLEAN,
         collateral' = CollateralAfter(u, a, gone)
  PROVE  StaysAlone
<1>1. \A v \in User, b \in Asset : collateral'[v][b] => collateral[v][b]
  BY CollateralAfterAt, Zenon DEF TypeOK
<1> QED BY <1>1 DEF StaysAlone

LEMMA ConfigAlone ==
  ASSUME TypeOK, AloneInUse, ConfigStep, IsolatesUnused
  PROVE  AloneInUse'
<1>1. UNCHANGED collateral
  BY ConfigKeepsSupply DEF SupplyKept
<1> QED BY <1>1 DEF AloneInUse, IsolatesUnused

(* A user whose collateral includes an isolated asset uses no other, as    *)
(* long as the configurator isolates unused assets and nobody takes up an  *)
(* isolated asset beside collateral that counts for nothing: supply and    *)
(* set-user-use-reserve-as-collateral let no other way in.                 *)
THEOREM IsolationKept ==
  Spec /\ [][IsolatesUnused]_vars /\ [][TakesUpAlone]_vars => []IsolationExclusive
<1>1. Init => AloneInUse
  BY DEF Init, AloneInUse
<1>2. TypeOK /\ SupplyListsExact /\ AloneInUse /\ [Next]_vars
        /\ [IsolatesUnused]_vars /\ [TakesUpAlone]_vars => AloneInUse'
  <2> SUFFICES ASSUME TypeOK, SupplyListsExact, AloneInUse, [Next]_vars,
                      [IsolatesUnused]_vars, [TakesUpAlone]_vars
               PROVE  AloneInUse'
    OBVIOUS
  <2>1. ASSUME UNCHANGED <<collateral, isolated>> PROVE AloneInUse'
    BY <2>1 DEF AloneInUse
  <2>2. CASE UNCHANGED vars
    BY <2>1, <2>2 DEF vars, supplyVars, configVars
  <2>3. CASE UserStep /\ TakesUpAlone
    <3>1. \A u \in Caller.supply \cup Caller.withdraw \cup Caller.borrow \cup Caller.repay
                     \cup Caller.liquidate \cup Caller.mode \cup Caller.use : u \in User
      BY PoolAssumption DEF PoolAssumption
    <3>2. ASSUME NEW u \in User, NEW a \in Asset, NEW n \in Amount, Withdraw(u, a, n)
          PROVE  AloneInUse'
      <4>1. PICK all \in BOOLEAN : collateral' = CollateralAfter(u, a, all)
        BY <3>2 DEF Withdraw
      <4>2. isolated' = isolated
        BY <3>2 DEF Withdraw, configVars
      <4> QED BY <4>1, <4>2, LeavingAlone, StaysAloneKeeps
    <3>3. ASSUME NEW l \in User, NEW u \in User, NEW c \in Asset, NEW d \in Asset,
                 NEW n \in Amount, NEW asZToken \in BOOLEAN,
                 Liquidate(l, u, c, d, n, asZToken)
          PROVE  AloneInUse'
      <4>1. PICK gain \in Nat, fee \in Nat, income \in Nat :
              SeizedBalances(l, u, c, gain, fee, income, asZToken)
        BY <3>3, SeizureParts
      <4>2. PICK gone \in BOOLEAN : collateral' = CollateralAfter(u, c, gone)
        BY <4>1, Zenon DEF SeizedBalances
      <4>3. isolated' = isolated
        BY <3>3 DEF Liquidate, configVars
      <4> QED BY <4>2, <4>3, LeavingAlone, StaysAloneKeeps
    <3>4. ASSUME NEW u \in User, NEW a \in Asset, NEW n \in Amount,
                 Borrow(u, a, n) \/ \E p \in User : Repay(p, u, a, n)
          PROVE  AloneInUse'
      BY <2>1, <3>4 DEF Borrow, Repay, supplyVars, configVars
    <3>5. ASSUME NEW u \in User, NEW m \in EMode \cup {NoMode}, SetEMode(u, m)
          PROVE  AloneInUse'
      BY <2>1, <3>5 DEF SetEMode, supplyVars, configVars
    <3> QED BY <2>3, <3>1, <3>2, <3>3, <3>4, <3>5, SupplyAlone, SetUseAlone,
               StaysAloneKeeps DEF UserStep
  <2>4. CASE ConfigStep /\ IsolatesUnused
    BY <2>4, ConfigAlone
  <2>5. CASE EnvStep
    BY <2>1, <2>5 DEF EnvStep, NextBlock, NextBurnBlock, ReportPrice, stateButEnv,
                      supplyVars, configVars
  <2>6. CASE Next /\ IsolatesUnused /\ TakesUpAlone
    BY <2>3, <2>4, <2>5, <2>6 DEF Next
  <2> QED BY <2>2, <2>6
<1>3. TypeOK /\ SupplyListsExact /\ AloneInUse => IsolationExclusive
  BY AloneIsExclusive
<1> QED BY <1>1, <1>2, <1>3, TypeCorrect, SupplyListsKept, PTL DEF Spec

-----------------------------------------------------------------------------
(* Frozen reserves. *)

Untouched(a) ==
  /\ vault[a]' = vault[a]
  /\ \A u \in User :
       /\ principal[u][a]' = principal[u][a]
       /\ zBalance[u][a]' = zBalance[u][a]
       /\ collateral[u][a]' = collateral[u][a]

LEMMA StepElsewhere ==
  ASSUME TypeOK, NEW a \in Asset, NEW b \in Asset, a # b, NEW u \in User, NEW n \in Amount,
         \/ Supply(u, b, n) \/ Withdraw(u, b, n) \/ Borrow(u, b, n)
         \/ \E p \in User : Repay(p, u, b, n)
  PROVE  Untouched(a)
<1>1. /\ vault \in [Asset -> Nat] /\ principal \in [User -> [Asset -> Nat]]
      /\ zBalance \in [Account -> [Asset -> Nat]] /\ u \in Account
      /\ collateral \in [User -> [Asset -> BOOLEAN]]
  BY DEF TypeOK, DebtTypeOK, SupplyTypeOK, TokenTypeOK, Account
<1>2. \E q : vault' = [vault EXCEPT ![b] = q]
  BY DEF Supply, Withdraw, Borrow, Repay
<1>3. principal' = principal \/ \E q : principal' = [principal EXCEPT ![u][b] = q]
  BY DEF Supply, Withdraw, Borrow, Repay, debtVars
<1>4. zBalance' = zBalance \/ \E q : zBalance' = [zBalance EXCEPT ![u][b] = q]
  BY DEF Supply, Withdraw, Borrow, Repay, supplyVars, zVars
<1>5. collateral' = collateral \/ \E q : collateral' = [collateral EXCEPT ![u][b] = q]
  BY Zenon DEF Supply, Withdraw, Borrow, Repay, supplyVars, CollateralAfter
<1> QED BY <1>1, <1>2, <1>3, <1>4, <1>5 DEF Untouched, Account

LEMMA SetUseElsewhere ==
  ASSUME TypeOK, NEW a \in Asset, NEW b \in Asset, a # b, NEW u \in User,
         NEW on \in BOOLEAN, SetUseAsCollateral(u, b, on)
  PROVE  Untouched(a)
<1>1. UNCHANGED <<vault, principal, zBalance>>
  BY DEF SetUseAsCollateral, tokenVars, debtVars, zVars
<1>2. PICK flag \in BOOLEAN : collateral' = [collateral EXCEPT ![u][b] = flag]
  BY DEF SetUseAsCollateral
<1>3. collateral \in [User -> [Asset -> BOOLEAN]]
  BY DEF TypeOK, SupplyTypeOK
<1> QED BY <1>1, <1>2, <1>3 DEF Untouched

(* A liquidation touches only the two reserves it names. *)
LEMMA LiquidateElsewhere ==
  ASSUME TypeOK, NEW a \in Asset, NEW l \in User, NEW u \in User, NEW c \in Asset,
         NEW d \in Asset, NEW n \in Amount, NEW asZToken \in BOOLEAN,
         Liquidate(l, u, c, d, n, asZToken), a # c, a # d
  PROVE  Untouched(a)
<1>1. /\ vault \in [Asset -> Nat] /\ principal \in [User -> [Asset -> Nat]]
      /\ zBalance \in [Account -> [Asset -> Nat]]
      /\ collateral \in [User -> [Asset -> BOOLEAN]]
      /\ u \in Account /\ l \in Account
  BY DEF TypeOK, DebtTypeOK, SupplyTypeOK, TokenTypeOK, Account
<1>2. PICK q : principal' = [principal EXCEPT ![u][d] = q]
  BY DEF Liquidate
<1>3. PICK in, out : vault' = [x \in Asset |->
        vault[x] + (IF x = d THEN in ELSE 0) - (IF x = c THEN out ELSE 0)]
  BY DEF Liquidate
<1>4. PICK gain \in Nat, fee \in Nat, income \in Nat :
        SeizedBalances(l, u, c, gain, fee, income, asZToken)
  BY SeizureParts
<1> DEFINE kept == Kept(l, u, c, gain, fee, income, asZToken)
           held == BalanceAt(l, c, income) + gain
<1>5. zBalance' = [x \in Account |->
        IF x = u THEN [zBalance[u] EXCEPT ![c] = kept]
        ELSE IF x = l /\ asZToken /\ l # u THEN [zBalance[l] EXCEPT ![c] = held]
        ELSE zBalance[x]]
  BY <1>4 DEF SeizedBalances
<1> HIDE DEF kept, held
<1>6. PICK gone \in BOOLEAN : collateral' = CollateralAfter(u, c, gone)
  BY <1>4, Zenon DEF SeizedBalances
<1>7. vault'[a] = vault[a]
  BY <1>1, <1>3
<1>8. ASSUME NEW v \in User
      PROVE  principal'[v][a] = principal[v][a] /\ zBalance'[v][a] = zBalance[v][a]
  BY <1>1, <1>2, <1>5 DEF Account
<1>9. ASSUME NEW v \in User
      PROVE  collateral'[v][a] = collateral[v][a]
  BY <1>1, <1>6 DEF CollateralAfter
<1> QED BY <1>7, <1>8, <1>9 DEF Untouched

(* Every user's transaction on a reserve stops at is-frozen, on the        *)
(* reserve of the collateral of a liquidation as on that of the debt; so   *)
(* an emergency freeze leaves nothing moving in a reserve, whoever tries.  *)
THEOREM FrozenKept == Spec => FrozenUntouched
<1>1. TypeOK /\ [Next]_vars => [\A a \in Asset : frozen[a] => Untouched(a)]_vars
  <2> SUFFICES ASSUME TypeOK, Next, NEW a \in Asset, frozen[a]
               PROVE  Untouched(a)
    OBVIOUS
  <2>1. CASE UserStep
    <3>1. \A u \in Caller.supply \cup Caller.withdraw \cup Caller.borrow \cup Caller.repay
                     \cup Caller.liquidate \cup Caller.mode \cup Caller.use : u \in User
      BY PoolAssumption DEF PoolAssumption
    <3>2. ASSUME NEW u \in User, NEW b \in Asset, NEW n \in Amount,
                 \/ Supply(u, b, n) \/ Withdraw(u, b, n) \/ Borrow(u, b, n)
                 \/ \E p \in User : Repay(p, u, b, n)
          PROVE  Untouched(a)
      <4>1. a # b
        BY <3>2 DEF Supply, Withdraw, Borrow, Repay, Open
      <4> QED BY <3>2, <4>1, StepElsewhere
    <3>3. ASSUME NEW l \in User, NEW u \in User, NEW c \in Asset, NEW d \in Asset,
                 NEW n \in Amount, NEW asZToken \in BOOLEAN,
                 Liquidate(l, u, c, d, n, asZToken)
          PROVE  Untouched(a)
      <4>1. a # c /\ a # d
        BY <3>3 DEF Liquidate, Open
      <4> QED BY <3>3, <4>1, LiquidateElsewhere
    <3>4. ASSUME NEW u \in User, NEW b \in Asset, NEW on \in BOOLEAN,
                 SetUseAsCollateral(u, b, on)
          PROVE  Untouched(a)
      <4>1. a # b
        BY <3>4 DEF SetUseAsCollateral, Open
      <4> QED BY <3>4, <4>1, SetUseElsewhere
    <3>5. ASSUME NEW u \in User, NEW m \in EMode \cup {NoMode}, SetEMode(u, m)
          PROVE  Untouched(a)
      BY <3>5 DEF SetEMode, tokenVars, debtVars, supplyVars, zVars, Untouched
    <3> QED BY <2>1, <3>1, <3>2, <3>3, <3>4, <3>5 DEF UserStep
  <2>2. CASE ConfigStep
    <3>1. SupplyKept
      BY <2>2, ConfigKeepsSupply
    <3>2. UNCHANGED <<vault, principal>>
      BY <2>2 DEF ConfigStep, MintToTreasury, SetStatus, SetBorrowingEnabled,
           SetUsageAsCollateralEnabled, AddIsolatedAsset, RemoveIsolatedAsset,
           SetBorrowableIsolated, SetFreezeEndBlock, SetGracePeriodEnabled, SetEModeEnabled,
           SetAssetEMode, stateButConfig, debtVars, tokenVars
    <3> QED BY <3>1, <3>2 DEF SupplyKept, Untouched
  <2>3. CASE EnvStep
    BY <2>3 DEF EnvStep, NextBlock, NextBurnBlock, ReportPrice, stateButEnv, tokenVars,
                debtVars, supplyVars, zVars, Untouched
  <2> QED BY <2>1, <2>2, <2>3 DEF Next
<1> QED BY <1>1, TypeCorrect, PTL DEF Spec, FrozenUntouched, Untouched

=============================================================================
