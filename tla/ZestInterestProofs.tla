-------------------------- MODULE ZestInterestProofs --------------------------
(***************************************************************************)
(* Interest in ZestPool.  Views extrapolate the indices of a reserve from  *)
(* its last update, and every transaction updates some of the reserves;    *)
(* the lemmas say what an update does to the extrapolated income and debt, *)
(* the theorems that nothing is charged twice, that what is owed covers    *)
(* the principal it is split into and that no deposit is ahead of the      *)
(* income it is cumulated with.                                            *)
(*                                                                         *)
(* The theorems about the income assume a base supply rate of zero: what   *)
(* base-supply-rate of the reserve defaults to and every script leaves it. *)
(* A reserve that pays a rate while nothing is borrowed shows its          *)
(* depositors an income that the next update forgets, for an update moves  *)
(* the indices only while something is borrowed.                           *)
(***************************************************************************)
EXTENDS ZestPoolProofs

NoBaseSupply == \A a \in Asset : Param[a].baseSupply = 0

-----------------------------------------------------------------------------
(* What a transaction does to the reserves. *)

(* It brings the reserves in S up to date, and leaves the totals of the    *)
(* others alone.                                                           *)
Updates(S) ==
  /\ height' = height
  /\ \E total \in [Asset -> Nat] :
       /\ \A a \in Asset \ S : total[a] = totalBorrows[a]
       /\ \E share, cash : UpdateReserves(S, total, share, cash)

ReservesKept == UNCHANGED <<liqIndex, liqRate, borIndex, borRate, totalBorrows, updated>>

LEMMA OneUpdate ==
  ASSUME TypeOK, height' = height, NEW a \in Asset, NEW total \in Nat, NEW cash,
         UpdateReserve(a, total, cash)
  PROVE  Updates({a})
<1>1. [totalBorrows EXCEPT ![a] = total] \in [Asset -> Nat]
  BY DEF TypeOK, ReserveTypeOK
<1>2. \A b \in Asset \ {a} : [totalBorrows EXCEPT ![a] = total][b] = totalBorrows[b]
  BY DEF TypeOK, ReserveTypeOK
<1> QED BY <1>1, <1>2 DEF UpdateReserve, Updates

LEMMA SupplyUpdates ==
  ASSUME TypeOK, NEW u \in User, NEW a \in Asset, NEW n \in Amount, Supply(u, a, n)
  PROVE  Updates({a})
<1>1. UpdateReserve(a, totalBorrows[a], vault[a] + n) /\ height' = height
  BY DEF Supply, envVars
<1>2. totalBorrows[a] \in Nat
  BY DEF TypeOK, ReserveTypeOK
<1> QED BY <1>1, <1>2, OneUpdate

LEMMA WithdrawUpdates ==
  ASSUME TypeOK, NEW u \in User, NEW a \in Asset, NEW n \in Amount, Withdraw(u, a, n)
  PROVE  Updates({a})
<1>1. \E cash : UpdateReserve(a, totalBorrows[a], cash) /\ height' = height
  BY DEF Withdraw, envVars
<1>2. totalBorrows[a] \in Nat
  BY DEF TypeOK, ReserveTypeOK
<1> QED BY <1>1, <1>2, OneUpdate

LEMMA BorrowUpdates ==
  ASSUME TypeOK, NEW u \in User, NEW a \in Asset, NEW n \in Amount, Borrow(u, a, n)
  PROVE  Updates({a})
<1> DEFINE total == totalBorrows[a] + (Compounded(u, a) - principal[u][a]) + n
<1>1. /\ UpdateReserves({a}, [totalBorrows EXCEPT ![a] = total], [x \in Asset |-> 0],
                        [vault EXCEPT ![a] = @ - n])
      /\ height' = height /\ Compounded(u, a) >= principal[u][a]
  BY DEF Borrow, envVars
<1>2. total \in Nat
  BY <1>1, CompoundedNat, AmountNat DEF TypeOK, ReserveTypeOK, DebtTypeOK
<1> HIDE DEF total
<1>3. [totalBorrows EXCEPT ![a] = total] \in [Asset -> Nat]
  BY <1>2 DEF TypeOK, ReserveTypeOK
<1>4. \A b \in Asset \ {a} : [totalBorrows EXCEPT ![a] = total][b] = totalBorrows[b]
  BY DEF TypeOK, ReserveTypeOK
<1> QED BY <1>1, <1>3, <1>4 DEF Updates

LEMMA RepayUpdates ==
  ASSUME TypeOK, NEW p \in User, NEW u \in User, NEW a \in Asset, NEW n \in Amount,
         Repay(p, u, a, n)
  PROVE  Updates({a})
<1> DEFINE due   == Compounded(u, a)
           paid  == IF n = MaxValue \/ n > due THEN due ELSE n
           total == TotalAfter(u, a, due, paid)
<1>1. /\ \E cash : UpdateReserve(a, total, cash)
      /\ height' = height /\ total >= 0
  BY DEF Repay, envVars
<1>2. total \in Int
  <2>1. due \in Nat
    BY CompoundedNat DEF TypeOK
  <2> HIDE DEF due
  <2>2. paid \in Nat
    BY <2>1, AmountNat
  <2> HIDE DEF paid
  <2> QED BY <2>1, <2>2 DEF TotalAfter, TypeOK, ReserveTypeOK, DebtTypeOK
<1> HIDE DEF total
<1> QED BY <1>1, <1>2, OneUpdate

(* Of a liquidation, the reserve of the debt, and that of the collateral   *)
(* unless it goes as z-tokens.                                             *)
LEMMA LiquidateUpdates ==
  ASSUME TypeOK, NEW l \in User, NEW u \in User, NEW c \in Asset, NEW d \in Asset,
         NEW n \in Amount, NEW asZToken \in BOOLEAN, Liquidate(l, u, c, d, n, asZToken)
  PROVE  /\ asZToken => Updates({d})
         /\ ~ asZToken => Updates({c, d})
<1> DEFINE due   == Compounded(u, d)
           most  == Mul(due, Param[d].closeFactor)
           tried == IF n > most THEN most ELSE n
           paid  == Seizure(u, c, d, tried).debt
           total == TotalAfter(u, d, due, paid)
           T     == IF asZToken THEN {d} ELSE {c, d}
<1>1. /\ \E share, cash : UpdateReserves(T, [totalBorrows EXCEPT ![d] = total], share, cash)
      /\ height' = height /\ total >= 0
  BY DEF Liquidate, LiquidatedReserves, envVars
<1>2. total \in Int
  <2>1. due \in Nat
    BY CompoundedNat DEF TypeOK
  <2>2. most \in Nat
    BY <2>1, ParamFacts, MulNat
  <2>3. tried \in Nat
    BY <2>2, AmountNat
  <2> HIDE DEF due, tried
  <2>4. paid \in Nat
    BY <2>3, SeizureNat DEF TypeOK
  <2> HIDE DEF paid
  <2> QED BY <2>1, <2>4 DEF TotalAfter, TypeOK, ReserveTypeOK, DebtTypeOK
<1> HIDE DEF total
<1>3. [totalBorrows EXCEPT ![d] = total] \in [Asset -> Nat]
  BY <1>1, <1>2 DEF TypeOK, ReserveTypeOK
<1>4. \A b \in Asset \ {d} : [totalBorrows EXCEPT ![d] = total][b] = totalBorrows[b]
  BY DEF TypeOK, ReserveTypeOK
<1>5. d \in T /\ (asZToken => T = {d}) /\ (~ asZToken => T = {c, d})
  OBVIOUS
<1> HIDE DEF T
<1>6. \A b \in Asset \ T : [totalBorrows EXCEPT ![d] = total][b] = totalBorrows[b]
  BY <1>4, <1>5
<1>7. Updates(T)
  BY <1>1, <1>3, <1>6 DEF Updates
<1> QED BY <1>5, <1>7

(* Any step updates some reserves, or leaves them all as they are. *)
LEMMA StepUpdates ==
  ASSUME TypeOK, [Next]_vars
  PROVE  ReservesKept \/ \E S \in SUBSET Asset : Updates(S)
<1>1. \A u \in Caller.supply \cup Caller.withdraw \cup Caller.borrow \cup Caller.repay
                 \cup Caller.liquidate \cup Caller.mode \cup Caller.use : u \in User
  BY PoolAssumption DEF PoolAssumption
<1> DEFINE Some == \E S \in SUBSET Asset : Updates(S)
<1>2. ASSUME NEW u \in User, NEW a \in Asset, NEW n \in Amount,
             \/ Supply(u, a, n) \/ Withdraw(u, a, n) \/ Borrow(u, a, n)
             \/ \E p \in User : Repay(p, u, a, n)
      PROVE  Some
  <2>1. Updates({a})
    BY <1>2, SupplyUpdates, WithdrawUpdates, BorrowUpdates, RepayUpdates
  <2>2. {a} \in SUBSET Asset
    OBVIOUS
  <2> QED BY <2>1, <2>2
<1>3. ASSUME NEW u \in User, NEW m \in EMode \cup {NoMode}, SetEMode(u, m)
      PROVE  ReservesKept
  BY <1>3 DEF SetEMode, ReservesKept, reserveVars
<1>4. ASSUME NEW u \in User, NEW a \in Asset, NEW on \in BOOLEAN, SetUseAsCollateral(u, a, on)
      PROVE  ReservesKept
  BY <1>4 DEF SetUseAsCollateral, ReservesKept, reserveVars
<1>5. ASSUME NEW l \in User, NEW u \in User, NEW c \in Asset, NEW d \in Asset,
             NEW n \in Amount, NEW asZToken \in BOOLEAN, Liquidate(l, u, c, d, n, asZToken)
      PROVE  Some
  <2>1. Updates({d}) \/ Updates({c, d})
    BY <1>5, LiquidateUpdates
  <2>2. {d} \in SUBSET Asset /\ {c, d} \in SUBSET Asset
    OBVIOUS
  <2> QED BY <2>1, <2>2
<1> HIDE DEF Some
<1>6. UserStep => ReservesKept \/ Some
  BY <1>1, <1>2, <1>3, <1>4, <1>5 DEF UserStep
<1>7. CASE ConfigStep
  BY <1>7 DEF ConfigStep, MintToTreasury, SetStatus, SetBorrowingEnabled,
              SetUsageAsCollateralEnabled, AddIsolatedAsset, RemoveIsolatedAsset,
              SetBorrowableIsolated, SetFreezeEndBlock, SetGracePeriodEnabled, SetEModeEnabled,
              SetAssetEMode, stateButConfig, ReservesKept, reserveVars
<1>8. CASE EnvStep
  BY <1>8 DEF EnvStep, NextBlock, NextBurnBlock, ReportPrice, stateButEnv, ReservesKept,
              reserveVars
<1>9. CASE UNCHANGED vars
  BY <1>9 DEF vars, ReservesKept, reserveVars
<1> QED BY <1>6, <1>7, <1>8, <1>9 DEF Next, Some

-----------------------------------------------------------------------------
(* What a step does to the income and debt a reserve shows. *)

(* In a reserve just updated they are the new indices: nothing has accrued *)
(* since.                                                                  *)
LEMMA UpdatedIndices ==
  ASSUME TypeOK, ReserveTypeOK', NEW S \in SUBSET Asset, Updates(S), NEW a \in Asset
  PROVE  /\ a \in S => /\ NormalizedIncome(a)' = NextLiqIndex(a)
                       /\ NormalizedDebt(a)' = NextBorIndex(a)
         /\ a \notin S => /\ NormalizedIncome(a)' = NormalizedIncome(a)
                          /\ NormalizedDebt(a)' = NormalizedDebt(a)
<1>1. height' = height
  BY DEF Updates
<1>2. PICK total, share, cash : UpdateReserves(S, total, share, cash)
  BY DEF Updates
<1>3. ASSUME a \in S
      PROVE  NormalizedIncome(a)' = NextLiqIndex(a) /\ NormalizedDebt(a)' = NextBorIndex(a)
  <2>1. /\ liqIndex'[a] = NextLiqIndex(a) /\ borIndex'[a] = NextBorIndex(a)
        /\ updated'[a] = height
    BY <1>2, <1>3 DEF UpdateReserves
  <2>2. updated'[a] = height' /\ height \in Nat
    BY <1>1, <2>1 DEF TypeOK, EnvTypeOK
  <2>3. liqRate'[a] \in Nat /\ borRate'[a] \in Nat
    BY DEF ReserveTypeOK
  <2>4. /\ CalculateLinearInterest(liqRate'[a], height', height') = One
        /\ CalculateCompoundedInterest(borRate'[a], height', height') = One
    BY <1>1, <2>2, <2>3, NoInterest
  <2>5. NextLiqIndex(a) \in Nat /\ NextBorIndex(a) \in Nat
    BY Indices DEF TypeOK
  <2>6. Mul(One, NextLiqIndex(a)) = NextLiqIndex(a) /\ Mul(One, NextBorIndex(a)) = NextBorIndex(a)
    BY <2>5, MulOne
  <2> QED BY <2>1, <2>2, <2>4, <2>6 DEF NormalizedIncome, NormalizedDebt
<1>4. ASSUME a \notin S
      PROVE  NormalizedIncome(a)' = NormalizedIncome(a) /\ NormalizedDebt(a)' = NormalizedDebt(a)
  <2>1. /\ liqIndex'[a] = liqIndex[a] /\ borIndex'[a] = borIndex[a]
        /\ liqRate'[a] = liqRate[a] /\ borRate'[a] = borRate[a]
        /\ updated'[a] = updated[a]
    BY <1>2, <1>4 DEF UpdateReserves
  <2> QED BY <1>1, <2>1 DEF NormalizedIncome, NormalizedDebt
<1> QED BY <1>3, <1>4

LEMMA KeptIndices ==
  ASSUME ReservesKept, height' = height, NEW a \in Asset
  PROVE  NormalizedIncome(a)' = NormalizedIncome(a) /\ NormalizedDebt(a)' = NormalizedDebt(a)
BY DEF ReservesKept, NormalizedIncome, NormalizedDebt

(* A block only adds to them. *)
LEMMA LaterIndices ==
  ASSUME TypeOK, ReservesKept, height' \in 0 .. MaxHeight, height' >= height,
         NEW a \in Asset
  PROVE  /\ NormalizedIncome(a)' \in Nat /\ NormalizedIncome(a)' >= NormalizedIncome(a)
         /\ NormalizedDebt(a)' \in Nat /\ NormalizedDebt(a)' >= NormalizedDebt(a)
<1> DEFINE since == updated[a]
           then  == height
           now   == height'
<1>1. /\ now \in 0 .. MaxHeight /\ then \in 0 .. MaxHeight /\ then \in 0 .. now
      /\ since \in 0 .. then /\ since \in 0 .. now
  BY DEF TypeOK, ReserveTypeOK, EnvTypeOK
<1>2. since = updated[a] /\ updated'[a] = since /\ then = height /\ now = height'
  BY DEF ReservesKept
<1> HIDE DEF since, then, now
<1>3. /\ liqRate[a] \in Nat /\ borRate[a] \in Nat
      /\ liqIndex[a] \in Nat /\ borIndex[a] \in Nat
  BY DEF TypeOK, ReserveTypeOK
<1>4. /\ CalculateLinearInterest(liqRate[a], since, then) \in Nat
      /\ CalculateLinearInterest(liqRate[a], since, now) \in Nat
      /\ CalculateLinearInterest(liqRate[a], since, then)
           <= CalculateLinearInterest(liqRate[a], since, now)
      /\ CalculateCompoundedInterest(borRate[a], since, then) \in Nat
      /\ CalculateCompoundedInterest(borRate[a], since, now) \in Nat
      /\ CalculateCompoundedInterest(borRate[a], since, then)
           <= CalculateCompoundedInterest(borRate[a], since, now)
  BY <1>1, <1>3, InterestAtLeastOne, InterestMonotone
<1>5. /\ Mul(CalculateLinearInterest(liqRate[a], since, then), liqIndex[a])
           <= Mul(CalculateLinearInterest(liqRate[a], since, now), liqIndex[a])
      /\ Mul(CalculateCompoundedInterest(borRate[a], since, then), borIndex[a])
           <= Mul(CalculateCompoundedInterest(borRate[a], since, now), borIndex[a])
  BY <1>3, <1>4, MulMonotoneBoth
<1>6. /\ NormalizedIncome(a) = Mul(CalculateLinearInterest(liqRate[a], since, then), liqIndex[a])
      /\ NormalizedIncome(a)' = Mul(CalculateLinearInterest(liqRate[a], since, now), liqIndex[a])
      /\ NormalizedDebt(a) = Mul(CalculateCompoundedInterest(borRate[a], since, then), borIndex[a])
      /\ NormalizedDebt(a)' = Mul(CalculateCompoundedInterest(borRate[a], since, now), borIndex[a])
  BY <1>2 DEF NormalizedIncome, NormalizedDebt, ReservesKept
<1>7. /\ Mul(CalculateLinearInterest(liqRate[a], since, then), liqIndex[a]) \in Nat
      /\ Mul(CalculateLinearInterest(liqRate[a], since, now), liqIndex[a]) \in Nat
      /\ Mul(CalculateCompoundedInterest(borRate[a], since, then), borIndex[a]) \in Nat
      /\ Mul(CalculateCompoundedInterest(borRate[a], since, now), borIndex[a]) \in Nat
  BY <1>3, <1>4, MulNat
<1> QED BY <1>5, <1>6, <1>7

(* Only a block moves the height. *)
LEMMA HeightSteps ==
  ASSUME [Next]_vars
  PROVE  height' = height \/ NextBlock
<1>1. ASSUME NEW u, NEW a, NEW n, Supply(u, a, n) \/ Withdraw(u, a, n) \/ Borrow(u, a, n)
      PROVE  height' = height
  BY <1>1 DEF Supply, Withdraw, Borrow, envVars
<1>2. UserStep => height' = height
  <2>1. ASSUME NEW p, NEW u, NEW a, NEW n, Repay(p, u, a, n)
        PROVE  height' = height
    BY <2>1 DEF Repay, envVars
  <2>2. ASSUME NEW l, NEW u, NEW c, NEW d, NEW n, NEW asZToken,
               Liquidate(l, u, c, d, n, asZToken)
        PROVE  height' = height
    BY <2>2 DEF Liquidate, envVars
  <2>3. ASSUME NEW u, NEW a, NEW on, SetUseAsCollateral(u, a, on)
        PROVE  height' = height
    BY <2>3 DEF SetUseAsCollateral, envVars
  <2>4. ASSUME NEW u, NEW m, SetEMode(u, m)
        PROVE  height' = height
    BY <2>4 DEF SetEMode, envVars
  <2> QED BY <1>1, <2>1, <2>2, <2>3, <2>4 DEF UserStep
<1>3. ConfigStep => height' = height
  BY DEF ConfigStep, MintToTreasury, SetStatus, SetBorrowingEnabled,
         SetUsageAsCollateralEnabled, AddIsolatedAsset, RemoveIsolatedAsset,
         SetBorrowableIsolated, SetFreezeEndBlock, SetGracePeriodEnabled, SetEModeEnabled,
         SetAssetEMode, stateButConfig, envVars
<1>4. EnvStep => height' = height \/ NextBlock
  BY DEF EnvStep, NextBurnBlock, ReportPrice
<1>5. UNCHANGED vars => height' = height
  BY DEF vars, envVars
<1> QED BY <1>2, <1>3, <1>4, <1>5 DEF Next

LEMMA BlockLater ==
  ASSUME TypeOK, NextBlock
  PROVE  /\ ReservesKept /\ height' \in 0 .. MaxHeight /\ height' = height + 1
         /\ UNCHANGED <<debtVars, zVars, tokenVars>>
BY MathAssumption
   DEF MathAssumption, NextBlock, stateButEnv, ReservesKept, reserveVars, supplyVars, TypeOK, EnvTypeOK

(* Within a block, the debt of a reserve in debt stays what it is. *)
LEMMA DebtStill ==
  ASSUME TypeOK, ReserveTypeOK', [Next]_vars, height' = height,
         NEW a \in Asset, totalBorrows[a] > 0
  PROVE  NormalizedDebt(a)' = NormalizedDebt(a)
<1>1. NextBorIndex(a) = NormalizedDebt(a)
  BY DEF NextBorIndex
<1> QED BY <1>1, StepUpdates, UpdatedIndices, KeptIndices

-----------------------------------------------------------------------------
(* Reserves that nobody borrows from pay nothing. *)

IdleRates == \A a \in Asset : totalBorrows[a] = 0 => liqRate[a] = 0

LEMMA IdleRate ==
  ASSUME NoBaseSupply, NEW a \in Asset, NEW cash
  PROVE  LiquidityRate(a, Utilization(0, cash)) = 0
<1>1. Utilization(0, cash) = 0
  BY DEF Utilization
<1>2. Param[a].optimal \in Nat /\ One - Param[a].reserveFactor \in Nat
  BY ParamFacts
<1>3. Mul(BorrowRate(a, 0), 0) = 0
  BY RatesNat, MulZero
<1>4. Mul(0, One - Param[a].reserveFactor) = 0
  BY <1>2, MulZero
<1> QED BY <1>1, <1>2, <1>3, <1>4 DEF LiquidityRate, NoBaseSupply

LEMMA IdleRatesKept ==
  ASSUME NoBaseSupply, TypeOK, IdleRates, [Next]_vars
  PROVE  IdleRates'
<1>1. CASE ReservesKept
  BY <1>1 DEF ReservesKept, IdleRates
<1>2. ASSUME NEW S \in SUBSET Asset, Updates(S)
      PROVE  IdleRates'
  <2> SUFFICES ASSUME NEW a \in Asset, totalBorrows'[a] = 0
               PROVE  liqRate'[a] = 0
    BY DEF IdleRates
  <2>1. PICK total, share, cash :
          /\ UpdateReserves(S, total, share, cash)
          /\ \A b \in Asset \ S : total[b] = totalBorrows[b]
    BY <1>2 DEF Updates
  <2>2. CASE a \in S
    <3>1. liqRate'[a] = LiquidityRate(a, Utilization(total[a], cash[a]))
      BY <2>1, <2>2 DEF UpdateReserves
    <3>2. total[a] = 0
      BY <2>1 DEF UpdateReserves
    <3> QED BY <3>1, <3>2, IdleRate
  <2>3. CASE a \notin S
    BY <2>1, <2>3 DEF UpdateReserves, IdleRates
  <2> QED BY <2>2, <2>3
<1> QED BY <1>1, <1>2, StepUpdates

(* Then an update forgets no income. *)
LEMMA IncomeRemembered ==
  ASSUME TypeOK, IdleRates, NEW a \in Asset
  PROVE  NextLiqIndex(a) = NormalizedIncome(a)
<1>1. CASE totalBorrows[a] > 0
  BY <1>1 DEF NextLiqIndex
<1>2. CASE ~ totalBorrows[a] > 0
  <2>1. liqRate[a] = 0
    BY <1>2 DEF IdleRates, TypeOK, ReserveTypeOK
  <2>2. /\ height \in 0 .. MaxHeight /\ updated[a] \in 0 .. height
        /\ liqIndex[a] \in Nat
    BY DEF TypeOK, ReserveTypeOK, EnvTypeOK
  <2>3. NormalizedIncome(a) = liqIndex[a]
    BY <2>1, <2>2, NoInterest, MulOne DEF NormalizedIncome
  <2> QED BY <1>2, <2>3 DEF NextLiqIndex
<1> QED BY <1>1, <1>2

LEMMA IncomeStill ==
  ASSUME TypeOK, ReserveTypeOK', IdleRates, [Next]_vars, height' = height, NEW a \in Asset
  PROVE  NormalizedIncome(a)' = NormalizedIncome(a)
BY IncomeRemembered, StepUpdates, UpdatedIndices, KeptIndices

LEMMA IdleRatesInvariant ==
  ASSUME NoBaseSupply
  PROVE  Spec => []IdleRates
<1>1. Init => IdleRates
  BY DEF Init, IdleRates
<1>2. TypeOK /\ IdleRates /\ [Next]_vars => IdleRates'
  BY IdleRatesKept
<1> QED BY <1>1, <1>2, TypeCorrect, PTL DEF Spec

(* Within a block no transaction changes the income of a reserve or what a *)
(* unit of its debt has grown to, whether it updates the indices once,     *)
(* like a deposit, in two reserves, like a liquidation, or in none.        *)
THEOREM InterestOnce ==
  ASSUME NoBaseSupply
  PROVE  Spec => InterestAccruesOnce
<1> DEFINE Once == \A a \in Asset : height' = height =>
                     /\ NormalizedIncome(a)' = NormalizedIncome(a)
                     /\ totalBorrows[a] > 0 /\ totalBorrows'[a] > 0 =>
                          NormalizedDebt(a)' = NormalizedDebt(a)
<1>1. TypeOK /\ TypeOK' /\ IdleRates /\ [Next]_vars => [Once]_vars
  <2> SUFFICES ASSUME TypeOK, TypeOK', IdleRates, [Next]_vars
               PROVE  Once
    OBVIOUS
  <2> QED BY IncomeStill, DebtStill DEF TypeOK
<1> QED BY <1>1, IdleRatesInvariant, TypeCorrect, PTL DEF Spec, InterestAccruesOnce

-----------------------------------------------------------------------------
(* What is due covers the principal. *)

(* The index a debt was last brought to is one the reserve has reached, at *)
(* a block the chain has reached.  This, with TypeOK and DebtLedger, is    *)
(* the inductive invariant behind DebtPayable: a debt that has none of the *)
(* reserve's principal could have an index ahead of it.                    *)
DebtIndexed ==
  \A u \in User, a \in Asset : principal[u][a] > 0 =>
    /\ 0 < debtIndex[u][a] /\ debtIndex[u][a] <= NormalizedDebt(a)
    /\ debtUpdated[u][a] <= height

DebtsKept == UNCHANGED <<principal, debtIndex, debtUpdated>>

(* The debt of u in a becomes q, at the index of an update of a. *)
SetsDebt(u, a, q) ==
  /\ principal' = [principal EXCEPT ![u][a] = q]
  /\ \E i \in Nat : /\ debtIndex' = [debtIndex EXCEPT ![u][a] = i]
                    /\ q > 0 => i = NextBorIndex(a)
  /\ debtUpdated' = [debtUpdated EXCEPT ![u][a] = height]
  /\ \E S \in SUBSET Asset : a \in S /\ Updates(S)

LEMMA BorrowSets ==
  ASSUME TypeOK, NEW u \in User, NEW a \in Asset, NEW n \in Amount, Borrow(u, a, n)
  PROVE  SetsDebt(u, a, Compounded(u, a) + n)
<1>1. /\ principal' = [principal EXCEPT ![u][a] = Compounded(u, a) + n]
      /\ debtIndex' = [debtIndex EXCEPT ![u][a] = NextBorIndex(a)]
      /\ debtUpdated' = [debtUpdated EXCEPT ![u][a] = height]
  BY DEF Borrow
<1>2. NextBorIndex(a) \in Nat
  BY Indices DEF TypeOK
<1>3. Updates({a})
  BY BorrowUpdates
<1> QED BY <1>1, <1>2, <1>3 DEF SetsDebt

LEMMA RepaySets ==
  ASSUME TypeOK, NEW p \in User, NEW u \in User, NEW a \in Asset, NEW n \in Amount,
         Repay(p, u, a, n)
  PROVE  \E paid \in Nat :
           /\ paid > 0 /\ paid <= Compounded(u, a) /\ paid <= wallet[p][a]
           /\ SetsDebt(u, a, Compounded(u, a) - paid)
           /\ vault' = [vault EXCEPT ![a] = @ + paid]
           /\ wallet' = [wallet EXCEPT ![p][a] = @ - paid]
<1> DEFINE due   == Compounded(u, a)
           paid  == IF n = MaxValue \/ n > due THEN due ELSE n
           index == IF paid = due THEN 0 ELSE NextBorIndex(a)
<1>1. /\ due > 0 /\ n > 0
      /\ paid <= wallet[p][a]
      /\ principal' = [principal EXCEPT ![u][a] = due - paid]
      /\ debtIndex' = [debtIndex EXCEPT ![u][a] = index]
      /\ debtUpdated' = [debtUpdated EXCEPT ![u][a] = height]
      /\ vault' = [vault EXCEPT ![a] = @ + paid]
      /\ wallet' = [wallet EXCEPT ![p][a] = @ - paid]
  BY DEF Repay
<1>2. NextBorIndex(a) \in Nat /\ due \in Nat /\ n \in Nat
  BY Indices, CompoundedNat, AmountNat DEF TypeOK
<1> HIDE DEF due
<1>3. paid \in Nat /\ paid > 0 /\ paid <= due
  BY <1>1, <1>2
<1> HIDE DEF paid
<1>4. index \in Nat /\ (due - paid > 0 => index = NextBorIndex(a))
  BY <1>2, <1>3
<1> HIDE DEF index
<1>5. \E S \in SUBSET Asset : a \in S /\ Updates(S)
  BY RepayUpdates
<1>6. SetsDebt(u, a, due - paid)
  BY <1>1, <1>4, <1>5 DEF SetsDebt
<1> QED BY <1>1, <1>3, <1>6 DEF due

LEMMA LiquidateSets ==
  ASSUME TypeOK, NEW l \in User, NEW u \in User, NEW c \in Asset, NEW d \in Asset,
         NEW n \in Amount, NEW asZToken \in BOOLEAN, Liquidate(l, u, c, d, n, asZToken)
  PROVE  \E paid \in Nat :
           /\ paid > 0 /\ paid <= Compounded(u, d)
           /\ SetsDebt(u, d, Compounded(u, d) - paid)
<1> DEFINE due   == Compounded(u, d)
           most  == Mul(due, Param[d].closeFactor)
           tried == IF n > most THEN most ELSE n
           paid  == Seizure(u, c, d, tried).debt
<1>1. /\ paid > 0 /\ paid <= due
      /\ principal' = [principal EXCEPT ![u][d] = due - paid]
      /\ debtIndex' = [debtIndex EXCEPT ![u][d] = NextBorIndex(d)]
      /\ debtUpdated' = [debtUpdated EXCEPT ![u][d] = height]
  BY DEF Liquidate
<1>2. NextBorIndex(d) \in Nat /\ due \in Nat
  BY Indices, CompoundedNat DEF TypeOK
<1>3. tried \in Nat
  <2>1. most \in Nat
    BY <1>2, ParamFacts, MulNat
  <2> QED BY <2>1, AmountNat
<1> HIDE DEF due, tried
<1>4. paid \in Nat
  BY <1>3, SeizureNat DEF TypeOK
<1> HIDE DEF paid
<1>5. \E S \in SUBSET Asset : d \in S /\ Updates(S)
  <2>1. Updates({d}) \/ Updates({c, d})
    BY LiquidateUpdates
  <2>2. {d} \in SUBSET Asset /\ {c, d} \in SUBSET Asset
    OBVIOUS
  <2> QED BY <2>1, <2>2
<1>6. SetsDebt(u, d, due - paid)
  BY <1>1, <1>2, <1>5 DEF SetsDebt
<1> QED BY <1>1, <1>4, <1>6 DEF due

(* Every step sets one debt to a natural, or none. *)
LEMMA DebtSteps ==
  ASSUME TypeOK, [Next]_vars
  PROVE  DebtsKept \/ \E u \in User, a \in Asset, q \in Nat : SetsDebt(u, a, q)
<1> DEFINE Sets == \E u \in User, a \in Asset, q \in Nat : SetsDebt(u, a, q)
<1>1. \A u \in Caller.supply \cup Caller.withdraw \cup Caller.borrow \cup Caller.repay
                 \cup Caller.liquidate \cup Caller.mode \cup Caller.use : u \in User
  BY PoolAssumption DEF PoolAssumption
<1>2. ASSUME NEW u \in User, NEW a \in Asset, NEW n \in Amount, Borrow(u, a, n)
      PROVE  Sets
  <2>1. Compounded(u, a) + n \in Nat
    BY CompoundedNat, AmountNat DEF TypeOK
  <2> QED BY <1>2, <2>1, BorrowSets
<1>3. ASSUME NEW p \in User, NEW u \in User, NEW a \in Asset, NEW n \in Amount,
             Repay(p, u, a, n)
      PROVE  Sets
  <2>1. PICK paid \in Nat : /\ paid <= Compounded(u, a)
                            /\ SetsDebt(u, a, Compounded(u, a) - paid)
    BY <1>3, RepaySets
  <2>2. Compounded(u, a) - paid \in Nat
    BY <2>1, CompoundedNat DEF TypeOK
  <2> QED BY <2>1, <2>2
<1>4. ASSUME NEW l \in User, NEW u \in User, NEW c \in Asset, NEW d \in Asset,
             NEW n \in Amount, NEW asZToken \in BOOLEAN, Liquidate(l, u, c, d, n, asZToken)
      PROVE  Sets
  <2>1. PICK paid \in Nat : /\ paid <= Compounded(u, d)
                            /\ SetsDebt(u, d, Compounded(u, d) - paid)
    BY <1>4, LiquidateSets
  <2>2. Compounded(u, d) - paid \in Nat
    BY <2>1, CompoundedNat DEF TypeOK
  <2> QED BY <2>1, <2>2
<1> HIDE DEF Sets
<1>5. ASSUME UNCHANGED debtVars PROVE DebtsKept
  BY <1>5 DEF DebtsKept, debtVars
<1>6. ASSUME NEW u \in User, NEW a \in Asset, NEW n \in Amount,
             Supply(u, a, n) \/ Withdraw(u, a, n)
      PROVE  DebtsKept
  BY <1>5, <1>6 DEF Supply, Withdraw
<1>7. ASSUME NEW u \in User, NEW m \in EMode \cup {NoMode}, SetEMode(u, m)
      PROVE  DebtsKept
  BY <1>5, <1>7 DEF SetEMode
<1>8. ASSUME NEW u \in User, NEW a \in Asset, NEW on \in BOOLEAN, SetUseAsCollateral(u, a, on)
      PROVE  DebtsKept
  BY <1>5, <1>8 DEF SetUseAsCollateral
<1>9. UserStep => DebtsKept \/ Sets
  BY <1>1, <1>2, <1>3, <1>4, <1>6, <1>7, <1>8 DEF UserStep
<1>10. ConfigStep => DebtsKept
  BY <1>5 DEF ConfigStep, MintToTreasury, SetStatus, SetBorrowingEnabled,
              SetUsageAsCollateralEnabled, AddIsolatedAsset, RemoveIsolatedAsset,
              SetBorrowableIsolated, SetFreezeEndBlock, SetGracePeriodEnabled, SetEModeEnabled,
              SetAssetEMode, stateButConfig
<1>11. EnvStep => DebtsKept
  BY <1>5 DEF EnvStep, NextBlock, NextBurnBlock, ReportPrice, stateButEnv
<1>12. UNCHANGED vars => DebtsKept
  BY <1>5 DEF vars
<1> QED BY <1>9, <1>10, <1>11, <1>12 DEF Next, Sets

(* Whoever owes principal owes some of the reserve's total. *)
LEMMA PrincipalInTotal ==
  ASSUME TypeOK, DebtLedger, NEW u \in User, NEW a \in Asset
  PROVE  principal[u][a] <= totalBorrows[a]
<1> DEFINE f == Owed(a)
<1>1. f \in [User -> Nat] /\ f[u] = principal[u][a]
  BY DEF Owed, TypeOK, DebtTypeOK
<1>2. totalBorrows[a] = SumFunction(f)
  BY DEF DebtLedger, Owed
<1>3. IsFiniteSet(User)
  BY PoolAssumption DEF PoolAssumption
<1> HIDE DEF f
<1> QED BY <1>1, <1>2, <1>3, SumMember

LEMMA DebtIndexedKept ==
  ASSUME TypeOK, TypeOK', DebtLedger, DebtIndexed, [Next]_vars
  PROVE  DebtIndexed'
<1> SUFFICES ASSUME NEW v \in User, NEW b \in Asset, principal'[v][b] > 0
             PROVE  /\ 0 < debtIndex'[v][b] /\ debtIndex'[v][b] <= NormalizedDebt(b)'
                    /\ debtUpdated'[v][b] <= height'
  BY DEF DebtIndexed
<1>1. /\ principal \in [User -> [Asset -> Nat]] /\ debtIndex \in [User -> [Asset -> Nat]]
      /\ debtUpdated \in [User -> [Asset -> Nat]]
      /\ height \in Nat /\ height' \in Nat /\ debtIndex'[v][b] \in Nat
  BY DEF TypeOK, DebtTypeOK, EnvTypeOK
<1>2. NormalizedDebt(b) \in Nat /\ NextBorIndex(b) \in Nat
  BY Indices DEF TypeOK
(* A debt that the step leaves alone. *)
<1>3. ASSUME principal'[v][b] = principal[v][b], debtIndex'[v][b] = debtIndex[v][b],
             debtUpdated'[v][b] = debtUpdated[v][b]
      PROVE  /\ 0 < debtIndex'[v][b] /\ debtIndex'[v][b] <= NormalizedDebt(b)'
             /\ debtUpdated'[v][b] <= height'
  <2>1. /\ 0 < debtIndex[v][b] /\ debtIndex[v][b] <= NormalizedDebt(b)
        /\ debtUpdated[v][b] <= height /\ debtUpdated[v][b] \in Nat
        /\ debtIndex[v][b] \in Nat
    BY <1>1, <1>3 DEF DebtIndexed
  <2>2. totalBorrows[b] > 0
    <3>1. principal[v][b] \in Nat /\ principal[v][b] > 0 /\ totalBorrows[b] \in Nat
      BY <1>1, <1>3 DEF TypeOK, ReserveTypeOK
    <3> QED BY <3>1, PrincipalInTotal
  <2>3. CASE height' = height
    BY <1>3, <2>1, <2>2, <2>3, DebtStill DEF TypeOK
  <2>4. CASE NextBlock
    <3>1. /\ NormalizedDebt(b)' \in Nat /\ NormalizedDebt(b)' >= NormalizedDebt(b)
          /\ height' = height + 1
      BY <1>1, <2>4, BlockLater, LaterIndices
    <3> QED BY <1>1, <1>2, <1>3, <2>1, <3>1
  <2> QED BY <2>3, <2>4, HeightSteps
<1>4. ASSUME NEW u \in User, NEW a \in Asset, NEW q \in Nat, SetsDebt(u, a, q)
      PROVE  /\ 0 < debtIndex'[v][b] /\ debtIndex'[v][b] <= NormalizedDebt(b)'
             /\ debtUpdated'[v][b] <= height'
  <2>1. CASE v = u /\ b = a
    <3>1. /\ principal'[v][b] = q /\ debtUpdated'[v][b] = height
          /\ q > 0 => debtIndex'[v][b] = NextBorIndex(b)
      BY <1>1, <1>4, <2>1 DEF SetsDebt
    <3>2. NormalizedDebt(b)' = NextBorIndex(b) /\ height' = height
      BY <1>4, <2>1, UpdatedIndices DEF SetsDebt, Updates, TypeOK
    <3>3. NextBorIndex(b) > 0
      BY Indices, IndicesPositive DEF TypeOK
    <3> QED BY <1>1, <1>2, <3>1, <3>2, <3>3
  <2>2. CASE ~ (v = u /\ b = a)
    <3>1. /\ principal'[v][b] = principal[v][b] /\ debtIndex'[v][b] = debtIndex[v][b]
          /\ debtUpdated'[v][b] = debtUpdated[v][b]
      BY <1>1, <1>4, <2>2 DEF SetsDebt
    <3> QED BY <1>3, <3>1
  <2> QED BY <2>1, <2>2
<1>5. CASE DebtsKept
  BY <1>3, <1>5 DEF DebtsKept
<1> QED BY <1>4, <1>5, DebtSteps

LEMMA DebtIndexedInvariant == Spec => []DebtIndexed
<1>1. Init => DebtIndexed
  BY DEF Init, DebtIndexed, UserZero
<1>2. TypeOK /\ TypeOK' /\ DebtLedger /\ DebtIndexed /\ [Next]_vars => DebtIndexed'
  BY DebtIndexedKept
<1> QED BY <1>1, <1>2, TypeCorrect, DebtLedgerKept, PTL DEF Spec

LEMMA DueCoversPrincipal ==
  ASSUME TypeOK, DebtIndexed, NEW u \in User, NEW a \in Asset
  PROVE  Compounded(u, a) >= principal[u][a]
<1>1. principal[u][a] \in Nat /\ debtIndex[u][a] \in Nat
  BY DEF TypeOK, DebtTypeOK
<1>2. CASE principal[u][a] = 0
  BY <1>2, CompoundedNat DEF TypeOK
<1>3. CASE principal[u][a] > 0
  <2> DEFINE ratio == Div(NormalizedDebt(a), debtIndex[u][a])
             due   == Mul(principal[u][a], ratio)
  <2>1. debtIndex[u][a] \in Nat \ {0} /\ debtIndex[u][a] <= NormalizedDebt(a)
    BY <1>1, <1>3 DEF DebtIndexed
  <2>2. NormalizedDebt(a) \in Nat
    BY Indices DEF TypeOK
  <2>3. ratio \in Nat /\ ratio >= One
    BY <2>1, <2>2, DivFixedNat, DivFixedAtLeastOne
  <2> HIDE DEF ratio
  <2>4. due \in Nat /\ due >= principal[u][a]
    BY <1>1, <2>3, MulNat, MulGrows
  <2>5. Compounded(u, a) = due \/ Compounded(u, a) = due + 1
    BY <1>3, <2>1 DEF Compounded, ratio
  <2> HIDE DEF due
  <2> QED BY <1>1, <2>4, <2>5
<1> QED BY <1>1, <1>2, <1>3

LEMMA IndexedPayable ==
  ASSUME TypeOK, DebtLedger, DebtIndexed
  PROVE  DebtPayable
<1> SUFFICES ASSUME NEW u \in User, NEW a \in Asset
             PROVE  /\ Compounded(u, a) >= principal[u][a]
                    /\ TotalAfter(u, a, Compounded(u, a), Compounded(u, a)) >= 0
  BY DEF DebtPayable
<1>1. principal[u][a] <= totalBorrows[a]
  BY PrincipalInTotal
<1>2. /\ principal[u][a] \in Nat /\ totalBorrows[a] \in Nat /\ Compounded(u, a) \in Nat
  BY CompoundedNat DEF TypeOK, DebtTypeOK, ReserveTypeOK
<1> QED BY <1>1, <1>2, DueCoversPrincipal DEF TotalAfter

(* Nothing that is due is ever below the principal it is split into, and   *)
(* no total below what it is reduced by: repay and liquidation-call never  *)
(* abort on these subtractions, for any rates, roundings and history.      *)
THEOREM DebtsPayable == Spec => []DebtPayable
<1>1. TypeOK /\ DebtLedger /\ DebtIndexed => DebtPayable
  BY IndexedPayable
<1> QED BY <1>1, TypeCorrect, DebtLedgerKept, DebtIndexedInvariant, PTL

-----------------------------------------------------------------------------
(* No deposit is ahead of the income. *)

(* The z-tokens of x in a, and the index they were last cumulated at, stay *)
(* what they are, go, or are brought to the income of now.                 *)
DepositStep(x, a) ==
  \/ zBalance'[x][a] = zBalance[x][a] /\ zIndex'[x][a] = zIndex[x][a]
  \/ zBalance'[x][a] = 0 /\ zIndex'[x][a] = 0
  \/ zIndex'[x][a] = NormalizedIncome(a)

LEMMA SupplyDeposit ==
  ASSUME TypeOK, NEW u \in User, NEW b \in Asset, NEW n \in Amount, Supply(u, b, n),
         NEW x \in Account, NEW a \in Asset
  PROVE  DepositStep(x, a)
<1>1. /\ zBalance' = [zBalance EXCEPT ![u][b] = Balance(u, b) + n]
      /\ zIndex' = [zIndex EXCEPT ![u][b] = NormalizedIncome(b)]
  BY DEF Supply
<1>2. zBalance \in [Account -> [Asset -> Nat]] /\ zIndex \in [Account -> [Asset -> Nat]]
  BY DEF TypeOK, SupplyTypeOK
<1> QED BY <1>1, <1>2 DEF DepositStep, Account

LEMMA WithdrawDeposit ==
  ASSUME TypeOK, NEW u \in User, NEW b \in Asset, NEW n \in Amount, Withdraw(u, b, n),
         NEW x \in Account, NEW a \in Asset
  PROVE  DepositStep(x, a)
<1> DEFINE have == Balance(u, b)
           out  == IF n = MaxValue THEN have ELSE n
<1>1. /\ zBalance' = [zBalance EXCEPT ![u][b] = have - out]
      /\ zIndex' = [zIndex EXCEPT ![u][b] = IF out = have THEN 0 ELSE NormalizedIncome(b)]
  BY DEF Withdraw
<1>2. /\ zBalance \in [Account -> [Asset -> Nat]] /\ zIndex \in [Account -> [Asset -> Nat]]
      /\ have \in Nat
  BY BalanceNat, Indices DEF TypeOK, SupplyTypeOK, Account
<1> HIDE DEF have, out
<1>3. CASE x = u /\ a = b
  <2>1. /\ zBalance'[x][a] = have - out
        /\ zIndex'[x][a] = IF out = have THEN 0 ELSE NormalizedIncome(a)
    BY <1>1, <1>2, <1>3
  <2> QED BY <1>2, <2>1 DEF DepositStep
<1>4. CASE ~ (x = u /\ a = b)
  BY <1>1, <1>2, <1>4 DEF DepositStep, Account
<1> QED BY <1>3, <1>4

LEMMA MintDeposit ==
  ASSUME TypeOK, NEW b \in Asset, MintToTreasury(b), NEW x \in Account, NEW a \in Asset
  PROVE  DepositStep(x, a)
<1>1. /\ \E q : zBalance' = [zBalance EXCEPT ![Treasury][b] = q]
      /\ zIndex' = [zIndex EXCEPT ![Treasury][b] = NormalizedIncome(b)]
  BY DEF MintToTreasury
<1>2. zBalance \in [Account -> [Asset -> Nat]] /\ zIndex \in [Account -> [Asset -> Nat]]
  BY DEF TypeOK, SupplyTypeOK
<1> QED BY <1>1, <1>2 DEF DepositStep, Account

(* The income a liquidation cumulates with is that of now. *)
LEMMA LiquidateBalances ==
  ASSUME TypeOK, IdleRates, NEW l \in User, NEW u \in User, NEW c \in Asset, NEW d \in Asset,
         NEW n \in Amount, NEW asZToken \in BOOLEAN, Liquidate(l, u, c, d, n, asZToken)
  PROVE  \E gain, fee : SeizedBalances(l, u, c, gain, fee, NormalizedIncome(c), asZToken)
<1>1. PICK gain, fee, income :
        /\ income = IF asZToken /\ c # d THEN NormalizedIncome(c) ELSE NextLiqIndex(c)
        /\ SeizedBalances(l, u, c, gain, fee, income, asZToken)
  BY Zenon DEF Liquidate
<1>2. income = NormalizedIncome(c)
  BY <1>1, IncomeRemembered
<1> QED BY <1>1, <1>2

LEMMA LiquidateDeposit ==
  ASSUME TypeOK, IdleRates, NEW l \in User, NEW u \in User, NEW c \in Asset, NEW d \in Asset,
         NEW n \in Amount, NEW asZToken \in BOOLEAN, Liquidate(l, u, c, d, n, asZToken),
         NEW x \in Account, NEW a \in Asset
  PROVE  DepositStep(x, a)
<1> DEFINE income == NormalizedIncome(c)
<1>1. PICK gain, fee : SeizedBalances(l, u, c, gain, fee, income, asZToken)
  BY LiquidateBalances
<1> DEFINE kept == Kept(l, u, c, gain, fee, income, asZToken)
           held == BalanceAt(l, c, income) + gain
           got  == asZToken /\ l # u
<1>2. /\ zBalance' = [y \in Account |->
           IF y = u THEN [zBalance[u] EXCEPT ![c] = kept]
           ELSE IF y = l /\ got THEN [zBalance[l] EXCEPT ![c] = held]
           ELSE zBalance[y]]
      /\ zIndex' = [y \in Account |->
           IF y = u THEN [zIndex[u] EXCEPT ![c] = IF kept = 0 THEN 0 ELSE income]
           ELSE IF y = l /\ got THEN [zIndex[l] EXCEPT ![c] = income]
           ELSE zIndex[y]]
  BY <1>1 DEF SeizedBalances
<1>3. zBalance \in [Account -> [Asset -> Nat]] /\ zIndex \in [Account -> [Asset -> Nat]]
  BY DEF TypeOK, SupplyTypeOK
<1> HIDE DEF kept, held
<1>4. CASE a # c
  BY <1>2, <1>3, <1>4 DEF DepositStep
<1>5. CASE a = c /\ x = u
  <2>1. zBalance'[x][a] = kept /\ zIndex'[x][a] = IF kept = 0 THEN 0 ELSE income
    BY <1>2, <1>3, <1>5
  <2> QED BY <1>5, <2>1 DEF DepositStep
<1>6. CASE a = c /\ x # u /\ x = l /\ asZToken
  <2>1. zIndex'[x][a] = income
    BY <1>2, <1>3, <1>6
  <2> QED BY <1>6, <2>1 DEF DepositStep
<1>7. CASE a = c /\ x # u /\ ~ (x = l /\ asZToken)
  <2>1. zBalance'[x] = zBalance[x] /\ zIndex'[x] = zIndex[x]
    BY <1>2, <1>7
  <2> QED BY <2>1 DEF DepositStep
<1> QED BY <1>4, <1>5, <1>6, <1>7

LEMMA DepositSteps ==
  ASSUME TypeOK, IdleRates, [Next]_vars, NEW x \in Account, NEW a \in Asset
  PROVE  DepositStep(x, a)
<1>1. \A u \in Caller.supply \cup Caller.withdraw \cup Caller.borrow \cup Caller.repay
                 \cup Caller.liquidate \cup Caller.mode \cup Caller.use : u \in User
  BY PoolAssumption DEF PoolAssumption
<1>2. ASSUME UNCHANGED zVars PROVE DepositStep(x, a)
  BY <1>2 DEF zVars, DepositStep
<1>3. ASSUME NEW u \in User, NEW b \in Asset, NEW n \in Amount,
             Borrow(u, b, n) \/ \E p \in User : Repay(p, u, b, n)
      PROVE  DepositStep(x, a)
  BY <1>2, <1>3 DEF Borrow, Repay, supplyVars
<1>4. ASSUME NEW u \in User, NEW m \in EMode \cup {NoMode}, SetEMode(u, m)
      PROVE  DepositStep(x, a)
  BY <1>2, <1>4 DEF SetEMode, supplyVars
<1>5. ASSUME NEW u \in User, NEW b \in Asset, NEW on \in BOOLEAN, SetUseAsCollateral(u, b, on)
      PROVE  DepositStep(x, a)
  BY <1>2, <1>5 DEF SetUseAsCollateral
<1>6. CASE UserStep
  BY <1>1, <1>3, <1>4, <1>5, <1>6, SupplyDeposit, WithdrawDeposit, LiquidateDeposit
     DEF UserStep
<1>7. CASE ConfigStep
  BY <1>2, <1>7, MintDeposit DEF ConfigStep, SetStatus, SetBorrowingEnabled,
              SetUsageAsCollateralEnabled, AddIsolatedAsset, RemoveIsolatedAsset,
              SetBorrowableIsolated, SetFreezeEndBlock, SetGracePeriodEnabled, SetEModeEnabled,
              SetAssetEMode, stateButConfig, supplyVars
<1>8. CASE EnvStep
  BY <1>2, <1>8 DEF EnvStep, NextBlock, NextBurnBlock, ReportPrice, stateButEnv, supplyVars
<1>9. CASE UNCHANGED vars
  BY <1>2, <1>9 DEF vars, supplyVars
<1> QED BY <1>6, <1>7, <1>8, <1>9 DEF Next

(* A deposit has an index, and the income has reached it. *)
DepositsIndexed ==
  \A x \in Account, a \in Asset :
    /\ zBalance[x][a] > 0 => zIndex[x][a] > 0
    /\ zIndex[x][a] <= NormalizedIncome(a)

LEMMA DepositsIndexedKept ==
  ASSUME TypeOK, TypeOK', IdleRates, DepositsIndexed, [Next]_vars
  PROVE  DepositsIndexed'
<1> SUFFICES ASSUME NEW x \in Account, NEW a \in Asset
             PROVE  /\ zBalance'[x][a] > 0 => zIndex'[x][a] > 0
                    /\ zIndex'[x][a] <= NormalizedIncome(a)'
  BY DEF DepositsIndexed
<1>1. /\ zBalance[x][a] > 0 => zIndex[x][a] > 0
      /\ zIndex[x][a] <= NormalizedIncome(a)
      /\ zIndex[x][a] \in Nat
  BY DEF DepositsIndexed, TypeOK, SupplyTypeOK
<1>2. NormalizedIncome(a) \in Nat /\ NormalizedIncome(a) > 0
  BY Indices, IndicesPositive DEF TypeOK
<1>3. NormalizedIncome(a)' \in Nat /\ NormalizedIncome(a)' >= NormalizedIncome(a)
  <2>1. CASE height' = height
    BY <1>2, <2>1, IncomeStill DEF TypeOK
  <2>2. CASE NextBlock
    <3>1. ReservesKept /\ height' \in 0 .. MaxHeight /\ height' >= height
      BY <2>2, BlockLater DEF TypeOK, EnvTypeOK
    <3> QED BY <3>1, LaterIndices
  <2> QED BY <2>1, <2>2, HeightSteps
<1> QED BY <1>1, <1>2, <1>3, DepositSteps DEF DepositStep

LEMMA DepositsIndexedInit ==
  ASSUME Init
  PROVE  DepositsIndexed
<1> SUFFICES ASSUME NEW x \in Account, NEW a \in Asset
             PROVE  /\ zBalance[x][a] > 0 => zIndex[x][a] > 0
                    /\ zIndex[x][a] <= NormalizedIncome(a)
  BY DEF DepositsIndexed
<1>1. zBalance[x][a] = 0 /\ zIndex[x][a] = 0
  BY DEF Init, Zero
<1>2. NormalizedIncome(a) \in Nat
  BY InitType, Indices DEF TypeOK
<1> QED BY <1>1, <1>2

LEMMA DepositsIndexedInvariant ==
  ASSUME NoBaseSupply
  PROVE  Spec => []DepositsIndexed
<1>1. Init => DepositsIndexed
  BY DepositsIndexedInit
<1>2. TypeOK /\ TypeOK' /\ IdleRates /\ DepositsIndexed /\ [Next]_vars => DepositsIndexed'
  BY DepositsIndexedKept
<1> QED BY <1>1, <1>2, TypeCorrect, IdleRatesInvariant, PTL DEF Spec

(* cumulate-balance never underflows: every deposit, and the treasury's,   *)
(* was last cumulated at an income the reserve has reached.                *)
THEOREM DepositsCumulated ==
  ASSUME NoBaseSupply
  PROVE  Spec => []DepositsCumulate
<1>1. DepositsIndexed => DepositsCumulate
  BY DEF DepositsIndexed, DepositsCumulate
<1> QED BY <1>1, DepositsIndexedInvariant, PTL

-----------------------------------------------------------------------------
(* The rates in force. *)

(* A liquidation of an asset with itself, or one that takes z-tokens and   *)
(* pays a fee out of the vault, leaves rates for other cash than the vault *)
(* is left with.  The theorem below is about the others.                   *)
LiquidationsInStep ==
  \A l, u \in User, c, d \in Asset, n \in Amount, asZToken \in BOOLEAN :
    Liquidate(l, u, c, d, n, asZToken) => c # d /\ (asZToken => vault'[c] = vault[c])

RatesFollowAt(a) ==
  vault[a] + totalBorrows[a] > 0 =>
    LET util == Utilization(totalBorrows[a], vault[a])
    IN borRate[a] = BorrowRate(a, util) /\ liqRate[a] = LiquidityRate(a, util)

(* Where the update foresees the cash of the vault, and the others keep    *)
(* theirs, the rates follow.                                               *)
LEMMA UpdateFollows ==
  ASSUME TypeOK, RatesFollowUtilization, NEW S \in SUBSET Asset, NEW total, NEW share, NEW cash,
         UpdateReserves(S, total, share, cash),
         \A a \in S : vault'[a] = cash[a],
         \A a \in Asset \ S : vault'[a] = vault[a] /\ total[a] = totalBorrows[a]
  PROVE  RatesFollowUtilization'
<1> SUFFICES ASSUME NEW a \in Asset PROVE RatesFollowAt(a)'
  BY DEF RatesFollowUtilization, RatesFollowAt
<1>1. CASE a \in S
  BY <1>1 DEF UpdateReserves, RatesFollowAt
<1>2. CASE a \notin S
  <2>1. /\ vault'[a] = vault[a] /\ totalBorrows'[a] = totalBorrows[a]
        /\ borRate'[a] = borRate[a] /\ liqRate'[a] = liqRate[a]
    BY <1>2 DEF UpdateReserves
  <2>2. RatesFollowAt(a)
    BY DEF RatesFollowUtilization, RatesFollowAt
  <2> QED BY <2>1, <2>2 DEF RatesFollowAt
<1> QED BY <1>1, <1>2

LEMMA OneUpdateFollows ==
  ASSUME TypeOK, RatesFollowUtilization, NEW a \in Asset, NEW total, NEW cash,
         UpdateReserve(a, total, cash), vault' = [vault EXCEPT ![a] = cash]
  PROVE  RatesFollowUtilization'
<1> DEFINE totals == [totalBorrows EXCEPT ![a] = total]
           cashes == [vault EXCEPT ![a] = cash]
           share  == [x \in Asset |-> IF x = a THEN TreasuryShare(a, totalBorrows[a]) ELSE 0]
<1>1. vault \in [Asset -> Nat] /\ totalBorrows \in [Asset -> Nat]
  BY DEF TypeOK, TokenTypeOK, ReserveTypeOK
<1>2. \A b \in Asset \ {a} : vault'[b] = vault[b] /\ totals[b] = totalBorrows[b]
  BY <1>1
<1>3. UpdateReserves({a}, totals, share, cashes)
  BY DEF UpdateReserve
<1>4. {a} \in SUBSET Asset /\ \A b \in {a} : vault'[b] = cashes[b]
  OBVIOUS
<1> HIDE DEF totals, cashes, share
<1> QED BY <1>2, <1>3, <1>4, UpdateFollows

LEMMA LiquidateFollows ==
  ASSUME TypeOK, RatesFollowUtilization, LiquidationsInStep,
         NEW l \in User, NEW u \in User, NEW c \in Asset, NEW d \in Asset,
         NEW n \in Amount, NEW asZToken \in BOOLEAN, Liquidate(l, u, c, d, n, asZToken)
  PROVE  RatesFollowUtilization'
<1> DEFINE due    == Compounded(u, d)
           most   == Mul(due, Param[d].closeFactor)
           tried  == IF n > most THEN most ELSE n
           seize  == Seizure(u, c, d, tried)
           taken  == seize.collateral
           paid   == seize.debt
           fee    == (Param[c].originationFee * seize.bonus) \div BasisPoints
           gain   == taken - fee
           total  == TotalAfter(u, d, due, paid)
           S      == IF asZToken THEN {d} ELSE {c, d}
           totals == [totalBorrows EXCEPT ![d] = total]
           cashes == [x \in Asset |-> IF x = c /\ ~ asZToken THEN vault[c] - taken
                                      ELSE IF x = d THEN vault[d] + paid
                                      ELSE vault[x]]
           out    == (IF asZToken THEN 0 ELSE gain) + fee
<1>1. /\ \E share : UpdateReserves(S, totals, share, cashes)
      /\ vault' = [x \in Asset |->
           vault[x] + (IF x = d THEN paid ELSE 0) - (IF x = c THEN out ELSE 0)]
  BY DEF Liquidate, LiquidatedReserves
<1>2. c # d /\ (asZToken => vault'[c] = vault[c])
  BY DEF LiquidationsInStep
<1>3. tried \in Nat
  <2>1. due \in Nat
    BY CompoundedNat DEF TypeOK
  <2>2. most \in Nat
    BY <2>1, ParamFacts, MulNat
  <2> QED BY <2>2, AmountNat
<1> HIDE DEF tried
<1>4. taken \in Nat /\ paid \in Nat /\ seize.bonus \in Nat
  BY <1>3, SeizureNat DEF TypeOK
<1> HIDE DEF seize
<1>5. fee \in Nat
  <2>1. Param[c].originationFee * seize.bonus \in Nat
    BY <1>4, ParamFacts
  <2> QED BY <2>1, DivNat DEF BasisPoints
<1> HIDE DEF taken, paid, fee, total
<1>6. vault \in [Asset -> Nat] /\ totalBorrows \in [Asset -> Nat]
  BY DEF TypeOK, TokenTypeOK, ReserveTypeOK
<1>7. d \in S /\ (c \in S <=> ~ asZToken) /\ S \in SUBSET Asset
      /\ \A a \in S : a = c \/ a = d
  BY <1>2
<1> HIDE DEF S
<1>8. ASSUME NEW a \in S PROVE vault'[a] = cashes[a]
  <2>1. CASE a = d
    BY <1>1, <1>2, <1>4, <1>6, <2>1
  <2>2. CASE a = c
    <3>1. ~ asZToken /\ out = taken
      BY <1>4, <1>5, <1>7, <2>2
    <3> HIDE DEF out
    <3> QED BY <1>1, <1>2, <1>4, <1>6, <2>2, <3>1
  <2> QED BY <1>7, <2>1, <2>2
<1>9. ASSUME NEW a \in Asset \ S PROVE vault'[a] = vault[a] /\ totals[a] = totalBorrows[a]
  <2>1. a # d
    BY <1>7
  <2>2. totals[a] = totalBorrows[a]
    BY <1>6, <2>1
  <2>3. CASE a = c
    BY <1>2, <1>7, <2>2, <2>3
  <2>4. CASE a # c
    BY <1>1, <1>6, <2>1, <2>2, <2>4
  <2> QED BY <2>3, <2>4
<1> HIDE DEF totals, cashes
<1> QED BY <1>1, <1>7, <1>8, <1>9, UpdateFollows

(* The rates are those of the present utilization of every reserve that    *)
(* has anything, although each transaction computes them before it moves   *)
(* the tokens: liquidations of one asset with itself, or of z-tokens with  *)
(* a fee, are all that can break it.                                       *)
THEOREM RatesFollow == Spec /\ [][LiquidationsInStep]_vars => []RatesFollowUtilization
<1>1. Init => RatesFollowUtilization
  BY DEF Init, RatesFollowUtilization
<1>2. TypeOK /\ RatesFollowUtilization /\ [Next]_vars /\ [LiquidationsInStep]_vars
        => RatesFollowUtilization'
  <2> SUFFICES ASSUME TypeOK, RatesFollowUtilization, [Next]_vars, [LiquidationsInStep]_vars
               PROVE  RatesFollowUtilization'
    OBVIOUS
  <2>1. ASSUME UNCHANGED <<borRate, liqRate, totalBorrows, vault>>
        PROVE  RatesFollowUtilization'
    BY <2>1 DEF RatesFollowUtilization
  <2>2. CASE UNCHANGED vars
    BY <2>1, <2>2 DEF vars, reserveVars, tokenVars
  <2>3. CASE UserStep /\ LiquidationsInStep
    <3>1. \A u \in Caller.supply \cup Caller.withdraw \cup Caller.borrow \cup Caller.repay
                     \cup Caller.liquidate \cup Caller.mode \cup Caller.use : u \in User
      BY PoolAssumption DEF PoolAssumption
    <3>2. ASSUME NEW u \in User, NEW a \in Asset, NEW n \in Amount, Supply(u, a, n)
          PROVE  RatesFollowUtilization'
      <4>1. UpdateReserve(a, totalBorrows[a], vault[a] + n) /\ vault' = [vault EXCEPT ![a] = vault[a] + n]
        BY <3>2 DEF Supply
      <4> QED BY <4>1, OneUpdateFollows
    <3>3. ASSUME NEW u \in User, NEW a \in Asset, NEW n \in Amount, Withdraw(u, a, n)
          PROVE  RatesFollowUtilization'
      <4>1. PICK out : /\ UpdateReserve(a, totalBorrows[a], vault[a] - out)
                       /\ vault' = [vault EXCEPT ![a] = vault[a] - out]
        BY <3>3 DEF Withdraw
      <4> QED BY <4>1, OneUpdateFollows
    <3>4. ASSUME NEW u \in User, NEW a \in Asset, NEW n \in Amount, Borrow(u, a, n)
          PROVE  RatesFollowUtilization'
      <4>1. PICK total, share :
              /\ UpdateReserves({a}, [totalBorrows EXCEPT ![a] = total], share,
                                [vault EXCEPT ![a] = @ - n])
              /\ vault' = [vault EXCEPT ![a] = @ - n]
        BY <3>4 DEF Borrow
      <4>2. vault \in [Asset -> Nat] /\ totalBorrows \in [Asset -> Nat]
        BY DEF TypeOK, TokenTypeOK, ReserveTypeOK
      <4> DEFINE totals == [totalBorrows EXCEPT ![a] = total]
                 cashes == [vault EXCEPT ![a] = @ - n]
      <4>3. \A b \in Asset \ {a} : vault'[b] = vault[b] /\ totals[b] = totalBorrows[b]
        BY <4>1, <4>2
      <4>4. UpdateReserves({a}, totals, share, cashes)
        BY <4>1
      <4>5. {a} \in SUBSET Asset /\ \A b \in {a} : vault'[b] = cashes[b]
        BY <4>1
      <4> HIDE DEF totals, cashes
      <4> QED BY <4>3, <4>4, <4>5, UpdateFollows
    <3>5. ASSUME NEW p \in User, NEW u \in User, NEW a \in Asset, NEW n \in Amount,
                 Repay(p, u, a, n)
          PROVE  RatesFollowUtilization'
      <4>1. PICK total, paid : /\ UpdateReserve(a, total, vault[a] + paid)
                               /\ vault' = [vault EXCEPT ![a] = vault[a] + paid]
        BY <3>5 DEF Repay
      <4> QED BY <4>1, OneUpdateFollows
    <3>6. ASSUME NEW u \in User, NEW m \in EMode \cup {NoMode}, SetEMode(u, m)
          PROVE  RatesFollowUtilization'
      BY <2>1, <3>6 DEF SetEMode, reserveVars, tokenVars
    <3>7. ASSUME NEW u \in User, NEW a \in Asset, NEW on \in BOOLEAN,
                 SetUseAsCollateral(u, a, on)
          PROVE  RatesFollowUtilization'
      BY <2>1, <3>7 DEF SetUseAsCollateral, reserveVars, tokenVars
    <3> QED BY <2>3, <3>1, <3>2, <3>3, <3>4, <3>5, <3>6, <3>7, LiquidateFollows DEF UserStep
  <2>4. CASE ConfigStep
    BY <2>1, <2>4 DEF ConfigStep, MintToTreasury, SetStatus, SetBorrowingEnabled,
              SetUsageAsCollateralEnabled, AddIsolatedAsset, RemoveIsolatedAsset,
              SetBorrowableIsolated, SetFreezeEndBlock, SetGracePeriodEnabled, SetEModeEnabled,
              SetAssetEMode, stateButConfig, reserveVars, tokenVars
  <2>5. CASE EnvStep
    BY <2>1, <2>5 DEF EnvStep, NextBlock, NextBurnBlock, ReportPrice, stateButEnv,
                      reserveVars, tokenVars
  <2> QED BY <2>2, <2>3, <2>4, <2>5 DEF Next
<1> QED BY <1>1, <1>2, TypeCorrect, PTL DEF Spec

=============================================================================
