------------------------- MODULE ZestFlashLoanProofs -------------------------
(***************************************************************************)
(* The invariants of the pool hold through flash loans.  A liquidation     *)
(* inside a loan is one of the pool's; what is new is the first step,      *)
(* which moves tokens only, and the second, which updates the reserve in   *)
(* its own way: deposits and debts keep their entries, and the indices     *)
(* they are measured by may only rise.                                     *)
(***************************************************************************)
EXTENDS ZestFlashLoan, ZestPoolLedgerProofs

LoanType == [by: FlashCaller, asset: Asset, amount: Nat, before: Nat, liquidated: BOOLEAN]

FlashTypeOK == TypeOK /\ (loan # NoLoan => loan \in LoanType)

LEMMA FlashUsers == FlashCaller \subseteq Caller.liquidate /\ FlashCaller \subseteq User
BY FlashAssumption, PoolAssumption DEF FlashAssumption, PoolAssumption

LEMMA FeesNat ==
  ASSUME NEW a \in Asset, NEW n \in Nat
  PROVE  AmountFee(a, n) \in Nat /\ ProtocolFee(a, n) \in Nat
<1>1. FlashParam[a].total \in Nat /\ FlashParam[a].protocol \in Nat
  BY FlashAssumption DEF FlashAssumption
<1>2. n * FlashParam[a].total \in Nat
  BY <1>1
<1>3. AmountFee(a, n) \in Nat
  BY <1>2, DivNat DEF AmountFee, BasisPoints
<1>4. AmountFee(a, n) * FlashParam[a].protocol \in Nat
  BY <1>1, <1>3
<1> QED BY <1>3, <1>4, DivNat DEF ProtocolFee, BasisPoints

-----------------------------------------------------------------------------
(* The steps of a loan. *)

(* The second step, on the reserve of asset a with n on loan.              *)
Settles(a, n) ==
  /\ Income(a, n) \in Nat /\ vault[a] + totalBorrows[a] > 0
  /\ UpdateStateOnFlashLoan(a, n)
  /\ UNCHANGED <<debtVars, supplyVars, height>>

(* The first step, on everything but tokens. *)
Lends == UNCHANGED <<reserveVars, debtVars, supplyVars, height>>

(* The index after the second step is the one before it, and the income on *)
(* top.                                                                    *)
LEMMA IncomeRaisesIndex ==
  ASSUME TypeOK, NEW a \in Asset, NEW n, NEW income \in Nat, vault[a] + totalBorrows[a] > 0
  PROVE  /\ IndexWithIncome(a, n, income) \in Nat
         /\ IndexWithIncome(a, n, income) >= NextLiqIndex(a)
<1> DEFINE share == (income * One) \div (vault[a] + totalBorrows[a])
<1>1. vault[a] \in Nat /\ totalBorrows[a] \in Nat
  BY DEF TypeOK, TokenTypeOK, ReserveTypeOK
<1>2. income * One \in Nat
  BY OneNat
<1>3. share \in Nat
  BY <1>1, <1>2, DivNat
<1> HIDE DEF share
<1>4. One + share \in Nat /\ One + share >= One
  BY <1>3, OneNat
<1>5. NextLiqIndex(a) \in Nat
  BY Indices DEF TypeOK
<1> QED BY <1>4, <1>5, MulNat, MulGrows DEF IndexWithIncome, share

LEMMA StepTwoSettles ==
  ASSUME FlashTypeOK, NEW p \in Proceeds, StepTwo(p)
  PROVE  loan.asset \in Asset /\ loan.amount \in Nat /\ Settles(loan.asset, loan.amount)
<1> DEFINE a == loan.asset
           n == loan.amount
<1>1. loan \in LoanType
  BY DEF StepTwo, FlashTypeOK
<1>2. a \in Asset /\ n \in Nat
  BY <1>1 DEF LoanType
<1>3. /\ Income(a, n) >= 0 /\ vault[a] + totalBorrows[a] > 0
      /\ UpdateStateOnFlashLoan(a, n)
      /\ UNCHANGED <<debtVars, supplyVars, envVars>>
  BY DEF StepTwo
<1>4. Income(a, n) \in Nat
  BY <1>2, <1>3, FeesNat DEF Income
<1> QED BY <1>2, <1>3, <1>4 DEF Settles, envVars

(* What the second step leaves of a reserve. *)
LEMMA SettledReserve ==
  ASSUME TypeOK, NEW a \in Asset, NEW n \in Nat, Settles(a, n)
  PROVE  /\ ReserveTypeOK'
         /\ totalBorrows' = totalBorrows /\ height' = height
         /\ liqIndex'[a] >= NextLiqIndex(a)
         /\ borIndex'[a] = NextBorIndex(a) /\ updated'[a] = height
         /\ \E cash : liqRate'[a] = LiquidityRate(a, Utilization(totalBorrows[a], cash))
         /\ \A b \in Asset \ {a} :
              /\ liqIndex'[b] = liqIndex[b] /\ borIndex'[b] = borIndex[b]
              /\ liqRate'[b] = liqRate[b] /\ borRate'[b] = borRate[b]
              /\ updated'[b] = updated[b]
<1> DEFINE cash == vault[a] + n + AmountFee(a, n) + Income(a, n)
           util == Utilization(totalBorrows[a], cash)
           next == IndexWithIncome(a, n, Income(a, n))
<1>1. /\ liqIndex' = [liqIndex EXCEPT ![a] = next]
      /\ borIndex' = [borIndex EXCEPT ![a] = NextBorIndex(a)]
      /\ accrued' = [accrued EXCEPT ![a] = accrued[a] + TreasuryShare(a, totalBorrows[a])]
      /\ liqRate' = [liqRate EXCEPT ![a] = LiquidityRate(a, util)]
      /\ borRate' = [borRate EXCEPT ![a] = BorrowRate(a, util)]
      /\ updated' = [updated EXCEPT ![a] = height]
      /\ totalBorrows' = totalBorrows /\ height' = height
  BY DEF Settles, UpdateStateOnFlashLoan
<1>2. next \in Nat /\ next >= NextLiqIndex(a)
  BY IncomeRaisesIndex DEF Settles
<1>3. /\ NextLiqIndex(a) \in Nat /\ NextLiqIndex(a) >= liqIndex[a]
      /\ NextBorIndex(a) \in Nat /\ NextBorIndex(a) >= borIndex[a]
  BY Indices DEF TypeOK
<1>4. /\ liqIndex \in [Asset -> Nat] /\ borIndex \in [Asset -> Nat]
      /\ liqRate \in [Asset -> Nat] /\ borRate \in [Asset -> Nat]
      /\ totalBorrows \in [Asset -> Nat] /\ accrued \in [Asset -> Nat]
      /\ updated \in [Asset -> 0 .. height] /\ height \in Nat
      /\ \A b \in Asset : liqIndex[b] >= One /\ borIndex[b] >= One
  BY DEF TypeOK, ReserveTypeOK, EnvTypeOK
<1>5. LiquidityRate(a, util) \in Nat /\ BorrowRate(a, util) \in Nat
  <2>1. cash \in Nat
    <3>1. vault[a] \in Nat
      BY DEF TypeOK, TokenTypeOK
    <3> QED BY <3>1, FeesNat DEF Settles
  <2>2. util \in Nat
    BY <1>4, <2>1, UtilizationNat
  <2> QED BY <2>2, RatesNat
<1>6. TreasuryShare(a, totalBorrows[a]) \in Nat
  BY <1>4, TreasuryShareNat DEF TypeOK
<1>7. \E c : liqRate'[a] = LiquidityRate(a, Utilization(totalBorrows[a], c))
  BY <1>1, <1>4
<1> HIDE DEF util, next
<1>8. /\ liqIndex' \in [Asset -> Nat] /\ borIndex' \in [Asset -> Nat]
      /\ liqRate' \in [Asset -> Nat] /\ borRate' \in [Asset -> Nat]
      /\ totalBorrows' \in [Asset -> Nat] /\ updated' \in [Asset -> 0 .. height']
  BY <1>1, <1>2, <1>3, <1>4, <1>5
<1>9. accrued' \in [Asset -> Nat]
  BY <1>1, <1>4, <1>6
<1>10. \A b \in Asset : liqIndex'[b] >= One /\ borIndex'[b] >= One
  <2> SUFFICES ASSUME NEW b \in Asset
               PROVE  liqIndex'[b] >= One /\ borIndex'[b] >= One
    OBVIOUS
  <2>1. CASE b = a
    BY <1>1, <1>2, <1>3, <1>4, <2>1, OneNat
  <2>2. CASE b # a
    BY <1>1, <1>4, <2>2
  <2> QED BY <2>1, <2>2
<1>11. ReserveTypeOK'
  BY <1>8, <1>9, <1>10 DEF ReserveTypeOK
<1> QED BY <1>1, <1>2, <1>4, <1>7, <1>11

-----------------------------------------------------------------------------
(* Types. *)

LEMMA StepOneType ==
  ASSUME FlashTypeOK, NEW b \in FlashCaller, NEW a \in Asset, NEW n \in FlashAmount,
         StepOne(b, a, n)
  PROVE  FlashTypeOK' /\ Lends
<1>1. n \in Nat /\ b \in User /\ b \in Account
  BY FlashAssumption, FlashUsers DEF FlashAssumption, Account
<1>2. /\ vault[a] >= n
      /\ vault' = [vault EXCEPT ![a] = vault[a] - n]
      /\ wallet' = [wallet EXCEPT ![b][a] = wallet[b][a] + n]
      /\ loan' = [by |-> b, asset |-> a, amount |-> n, before |-> wallet[b][a],
                  liquidated |-> FALSE]
      /\ UNCHANGED <<reserveVars, debtVars, supplyVars, eMode, isoDebt, registered,
                     configVars, envVars>>
  BY DEF StepOne, MayLend
<1>3. vault \in [Asset -> Nat] /\ wallet \in [Account -> [Asset -> Nat]]
  BY DEF FlashTypeOK, TypeOK, TokenTypeOK
<1>4. TokenTypeOK'
  <2>1. vault[a] - n \in Nat /\ wallet[b][a] + n \in Nat
    BY <1>1, <1>2, <1>3
  <2>2. vault' \in [Asset -> Nat] /\ wallet' \in [Account -> [Asset -> Nat]]
    BY <1>1, <1>2, <1>3, <2>1, ExceptAt
  <2> QED BY <1>2, <2>2 DEF TokenTypeOK, FlashTypeOK, TypeOK
<1>5. loan' \in LoanType
  BY <1>1, <1>2, <1>3 DEF LoanType
<1>6. Lends
  BY <1>2 DEF Lends, envVars
<1>7. /\ ReserveTypeOK' /\ DebtTypeOK' /\ SupplyTypeOK' /\ ModeTypeOK'
      /\ ConfigTypeOK' /\ EnvTypeOK'
  BY <1>2, ReservesUnchanged, DebtUnchanged, SupplyUnchanged, ModesUnchanged,
     ConfigUnchanged, EnvUnchanged DEF FlashTypeOK, TypeOK, envVars
<1> QED BY <1>4, <1>5, <1>6, <1>7 DEF FlashTypeOK, TypeOK

LEMMA StepTwoType ==
  ASSUME FlashTypeOK, NEW p \in Proceeds, StepTwo(p)
  PROVE  FlashTypeOK'
<1> DEFINE b == loan.by
           a == loan.asset
           n == loan.amount
           held == wallet[b][a] + p
           back == n + AmountFee(a, n)
           fee  == ProtocolFee(a, n)
<1>1. loan \in LoanType /\ FlashAmount \subseteq Nat /\ p \in Nat
  BY FlashAssumption DEF StepTwo, FlashTypeOK, FlashAssumption
<1>2. a \in Asset /\ n \in Nat /\ b \in User /\ b \in Account /\ b # Treasury
  BY <1>1, FlashUsers, PoolAssumption DEF LoanType, Account, PoolAssumption
<1>3. /\ held >= back + fee
      /\ vault' = [vault EXCEPT ![a] = vault[a] + back]
      /\ wallet' = [wallet EXCEPT ![b][a] = held - back - fee,
                                  ![Treasury][a] = @ + fee]
      /\ loan' = NoLoan
      /\ UNCHANGED <<debtVars, supplyVars, eMode, isoDebt, registered, configVars, envVars>>
  BY DEF StepTwo
<1>4. vault \in [Asset -> Nat] /\ wallet \in [Account -> [Asset -> Nat]]
  BY DEF FlashTypeOK, TypeOK, TokenTypeOK
<1>5. /\ back \in Nat /\ fee \in Nat /\ wallet[b][a] \in Nat
      /\ vault[a] \in Nat /\ wallet[Treasury][a] \in Nat
  BY <1>2, <1>4, FeesNat DEF Account
<1>6. held - back - fee \in Nat
  BY <1>1, <1>3, <1>5
<1>7. ReserveTypeOK'
  BY StepTwoSettles, SettledReserve DEF FlashTypeOK
<1> HIDE DEF b, a, n, held, back, fee
<1>8. vault' \in [Asset -> Nat]
  BY <1>2, <1>3, <1>4, <1>5
<1>9. wallet' \in [Account -> [Asset -> Nat]]
  BY <1>2, <1>3, <1>4, <1>5, <1>6 DEF Account
<1>10. TokenTypeOK'
  BY <1>3, <1>8, <1>9 DEF TokenTypeOK, FlashTypeOK, TypeOK
<1>11. DebtTypeOK' /\ SupplyTypeOK' /\ ModeTypeOK' /\ ConfigTypeOK' /\ EnvTypeOK'
  BY <1>3, DebtUnchanged, SupplyUnchanged, ModesUnchanged, ConfigUnchanged, EnvUnchanged
     DEF FlashTypeOK, TypeOK
<1> QED BY <1>3, <1>7, <1>10, <1>11 DEF FlashTypeOK, TypeOK

-----------------------------------------------------------------------------
(* Indices.  The income and the debt a reserve shows do not fall.          *)

LEMMA SettledViews ==
  ASSUME TypeOK, TypeOK', NEW a \in Asset, NEW n \in Nat, Settles(a, n), NEW b \in Asset
  PROVE  /\ NormalizedIncome(b)' \in Nat
         /\ IdleRates => NormalizedIncome(b)' >= NormalizedIncome(b)
         /\ totalBorrows[b] > 0 => NormalizedDebt(b)' = NormalizedDebt(b)
<1>1. CASE b = a
  <2>1. updated'[a] = height' /\ height' \in Nat
    BY SettledReserve DEF TypeOK, EnvTypeOK
  <2>2. /\ liqRate'[a] \in Nat /\ borRate'[a] \in Nat
        /\ liqIndex'[a] \in Nat /\ borIndex'[a] \in Nat
    BY DEF TypeOK, ReserveTypeOK
  <2>3. /\ CalculateLinearInterest(liqRate'[a], height', height') = One
        /\ CalculateCompoundedInterest(borRate'[a], height', height') = One
        /\ Mul(One, liqIndex'[a]) = liqIndex'[a] /\ Mul(One, borIndex'[a]) = borIndex'[a]
    BY <2>1, <2>2, NoInterest, MulOne
  <2>4. NormalizedIncome(a)' = liqIndex'[a] /\ NormalizedDebt(a)' = borIndex'[a]
    BY <2>1, <2>3 DEF NormalizedIncome, NormalizedDebt
  <2>5. IdleRates => NextLiqIndex(a) = NormalizedIncome(a)
    BY IncomeRemembered
  <2>6. totalBorrows[a] > 0 => NextBorIndex(a) = NormalizedDebt(a)
    BY DEF NextBorIndex
  <2> QED BY <1>1, <2>2, <2>4, <2>5, <2>6, SettledReserve
<1>2. CASE b # a
  <2>1. /\ liqIndex'[b] = liqIndex[b] /\ borIndex'[b] = borIndex[b]
        /\ liqRate'[b] = liqRate[b] /\ borRate'[b] = borRate[b]
        /\ updated'[b] = updated[b] /\ height' = height
    BY <1>2, SettledReserve
  <2>2. NormalizedIncome(b)' = NormalizedIncome(b) /\ NormalizedDebt(b)' = NormalizedDebt(b)
    BY <2>1 DEF NormalizedIncome, NormalizedDebt
  <2>3. NormalizedIncome(b) \in Nat
    BY Indices DEF TypeOK
  <2> QED BY <2>2, <2>3
<1> QED BY <1>1, <1>2

LEMMA LentViews ==
  ASSUME Lends, NEW b \in Asset
  PROVE  NormalizedIncome(b)' = NormalizedIncome(b) /\ NormalizedDebt(b)' = NormalizedDebt(b)
BY DEF Lends, reserveVars, NormalizedIncome, NormalizedDebt

(* A step of a loan that is not one of the pool. *)
Around == Lends \/ \E a \in Asset, n \in Nat : Settles(a, n)

LEMMA AroundSteps ==
  ASSUME FlashTypeOK, [FlashNext]_flashVars
  PROVE  FlashTypeOK' /\ ([Next]_vars \/ Around)
<1>1. ASSUME [Next]_vars PROVE TypeOK'
  BY <1>1, TypeKept DEF FlashTypeOK
<1>2. CASE loan' = loan /\ [Next]_vars
  BY <1>1, <1>2 DEF FlashTypeOK
<1>3. ASSUME NEW u \in User, NEW c \in Asset, NEW d \in Asset, NEW n \in Amount,
             NEW asZToken \in BOOLEAN, LiquidateBetween(u, c, d, n, asZToken)
      PROVE  FlashTypeOK' /\ [Next]_vars
  <2>1. /\ loan \in LoanType /\ loan' = [loan EXCEPT !.liquidated = TRUE]
        /\ Liquidate(loan.by, u, c, d, n, asZToken)
    BY <1>3 DEF LiquidateBetween, FlashTypeOK
  <2>2. loan.by \in Caller.liquidate
    BY <2>1, FlashUsers DEF LoanType
  <2>3. Next
    BY <2>1, <2>2 DEF Next, UserStep
  <2>4. loan' \in LoanType
    BY <2>1 DEF LoanType
  <2> QED BY <1>1, <2>3, <2>4 DEF FlashTypeOK
<1>4. ASSUME NEW b \in FlashCaller, NEW a \in Asset, NEW n \in FlashAmount, StepOne(b, a, n)
      PROVE  FlashTypeOK' /\ Around
  BY <1>4, StepOneType DEF Around
<1>5. ASSUME NEW p \in Proceeds, StepTwo(p)
      PROVE  FlashTypeOK' /\ Around
  BY <1>5, StepTwoType, StepTwoSettles DEF Around
<1>6. CASE FlashNext
  BY <1>2, <1>3, <1>4, <1>5, <1>6 DEF FlashNext
<1>7. CASE UNCHANGED flashVars
  BY <1>2, <1>7 DEF flashVars
<1> QED BY <1>6, <1>7

LEMMA AroundKeeps ==
  ASSUME TypeOK, Around
  PROVE  UNCHANGED <<debtVars, supplyVars, totalBorrows, height>>
BY SettledReserve DEF Around, Lends, Settles, reserveVars

LEMMA AroundViews ==
  ASSUME TypeOK, TypeOK', Around, NEW b \in Asset
  PROVE  /\ NormalizedIncome(b)' \in Nat
         /\ IdleRates => NormalizedIncome(b)' >= NormalizedIncome(b)
         /\ totalBorrows[b] > 0 => NormalizedDebt(b)' = NormalizedDebt(b)
<1>1. NormalizedIncome(b) \in Nat
  BY Indices DEF TypeOK
<1> QED BY <1>1, LentViews, SettledViews DEF Around

LEMMA AroundIndices ==
  ASSUME TypeOK, TypeOK', DebtLedger, Around
  PROVE  DebtIndexed => DebtIndexed'
<1> SUFFICES ASSUME DebtIndexed, NEW u \in User, NEW a \in Asset, principal'[u][a] > 0
             PROVE  /\ 0 < debtIndex'[u][a] /\ debtIndex'[u][a] <= NormalizedDebt(a)'
                    /\ debtUpdated'[u][a] <= height'
  BY DEF DebtIndexed
<1>1. UNCHANGED <<principal, debtIndex, debtUpdated, height>>
  BY AroundKeeps DEF debtVars
<1>2. totalBorrows[a] > 0
  <2>1. principal[u][a] \in Nat /\ principal[u][a] > 0 /\ totalBorrows[a] \in Nat
    BY <1>1 DEF TypeOK, DebtTypeOK, ReserveTypeOK
  <2> QED BY <2>1, PrincipalInTotal
<1> QED BY <1>1, <1>2, AroundViews DEF DebtIndexed

LEMMA AroundDeposits ==
  ASSUME TypeOK, TypeOK', IdleRates, DepositsIndexed, Around
  PROVE  DepositsIndexed'
<1> SUFFICES ASSUME NEW x \in Account, NEW a \in Asset
             PROVE  /\ zBalance'[x][a] > 0 => zIndex'[x][a] > 0
                    /\ zIndex'[x][a] <= NormalizedIncome(a)'
  BY DEF DepositsIndexed
<1>1. UNCHANGED <<zBalance, zIndex>>
  BY AroundKeeps DEF supplyVars, zVars
<1>2. /\ NormalizedIncome(a) \in Nat /\ NormalizedIncome(a)' \in Nat
      /\ zIndex[x][a] \in Nat
  BY Indices, AroundViews DEF TypeOK, SupplyTypeOK
<1> QED BY <1>1, <1>2, AroundViews DEF DepositsIndexed

(* The second step computes the rate of a reserve like any update. *)
LEMMA AroundIdle ==
  ASSUME NoBaseSupply, TypeOK, IdleRates, Around
  PROVE  IdleRates'
<1>1. CASE Lends
  BY <1>1 DEF Lends, reserveVars, IdleRates
<1>2. ASSUME NEW a \in Asset, NEW n \in Nat, Settles(a, n)
      PROVE  IdleRates'
  <2> SUFFICES ASSUME NEW b \in Asset, totalBorrows'[b] = 0
               PROVE  liqRate'[b] = 0
    BY DEF IdleRates
  <2>1. totalBorrows' = totalBorrows
    BY <1>2, SettledReserve
  <2>2. CASE b = a
    <3>1. PICK cash : liqRate'[a] = LiquidityRate(a, Utilization(totalBorrows[a], cash))
      BY <1>2, SettledReserve
    <3> QED BY <2>1, <2>2, <3>1, IdleRate
  <2>3. CASE b # a
    BY <1>2, <2>1, <2>3, SettledReserve DEF IdleRates
  <2> QED BY <2>2, <2>3
<1> QED BY <1>1, <1>2 DEF Around

-----------------------------------------------------------------------------
(* The theorems.  FlashInv is inductive; without a base supply rate, so is *)
(* FlashIncomeInv with it.                                                 *)

FlashInv ==
  FlashTypeOK /\ DebtLedger /\ BorrowListsExact /\ SupplyListsExact /\ DebtIndexed

LEMMA FlashInvInit ==
  ASSUME FlashInit
  PROVE  FlashInv
<1>1. Init /\ loan = NoLoan
  BY DEF FlashInit
<1>2. DebtIndexed
  BY <1>1 DEF Init, DebtIndexed, UserZero
<1> QED BY <1>1, <1>2, InitType, LedgerInit, BorrowListsInit, SupplyListsInit
        DEF FlashInv, FlashTypeOK

LEMMA FlashInvStep ==
  ASSUME FlashInv, [FlashNext]_flashVars
  PROVE  FlashInv'
<1>1. FlashTypeOK' /\ TypeOK /\ TypeOK' /\ ([Next]_vars \/ Around)
  BY AroundSteps DEF FlashInv, FlashTypeOK
<1>2. CASE [Next]_vars
  BY <1>1, <1>2, LedgerStep, BorrowListsStep, SupplyListsStep, DebtIndexedKept DEF FlashInv
<1>3. CASE Around
  <2>1. UNCHANGED <<debtVars, supplyVars, totalBorrows>>
    BY <1>1, <1>3, AroundKeeps
  <2>2. DebtLedger'
    BY <2>1 DEF FlashInv, DebtLedger, debtVars
  <2>3. BorrowListsExact' /\ SupplyListsExact'
    BY <2>1 DEF FlashInv, BorrowListsExact, SupplyListsExact, debtVars, supplyVars, zVars
  <2>4. DebtIndexed'
    BY <1>1, <1>3, AroundIndices DEF FlashInv
  <2> QED BY <1>1, <2>2, <2>3, <2>4 DEF FlashInv
<1> QED BY <1>1, <1>2, <1>3

LEMMA FlashInvariant == FlashSpec => []FlashInv
<1>1. FlashInit => FlashInv
  BY FlashInvInit
<1>2. FlashInv /\ [FlashNext]_flashVars => FlashInv'
  BY FlashInvStep
<1> QED BY <1>1, <1>2, PTL DEF FlashSpec

(* No step of a flash loan, and no liquidation inside one, takes an amount *)
(* or an index of the pool out of the unsigned integers.                   *)
THEOREM FlashTypeCorrect == FlashSpec => []TypeOK
<1>1. FlashInv => TypeOK
  BY DEF FlashInv, FlashTypeOK
<1> QED BY <1>1, FlashInvariant, PTL

(* The lists of supplied assets and the collateral flags stay exact when   *)
(* a position is liquidated with borrowed tokens.                          *)
THEOREM FlashKeepsSupplyLists == FlashSpec => []SupplyListsExact
<1>1. FlashInv => SupplyListsExact
  BY DEF FlashInv
<1> QED BY <1>1, FlashInvariant, PTL

(* The debts still add up to the total of the reserve, and their lists     *)
(* stay exact: update-state-on-flash-loan writes the total it has read.    *)
THEOREM FlashKeepsDebts == FlashSpec => [](DebtLedger /\ BorrowListsExact)
<1>1. FlashInv => DebtLedger /\ BorrowListsExact
  BY DEF FlashInv
<1> QED BY <1>1, FlashInvariant, PTL

(* No debt becomes impossible to repay because a flash loan brought the    *)
(* reserve up to date in its own way.                                      *)
THEOREM FlashKeepsDebtsPayable == FlashSpec => []DebtPayable
<1>1. FlashInv => DebtPayable
  BY IndexedPayable DEF FlashInv, FlashTypeOK
<1> QED BY <1>1, FlashInvariant, PTL

FlashIncomeInv == FlashInv /\ IdleRates /\ DepositsIndexed

LEMMA FlashIncomeInvariant ==
  ASSUME NoBaseSupply
  PROVE  FlashSpec => []FlashIncomeInv
<1>1. FlashInit => FlashIncomeInv
  BY FlashInvInit, DepositsIndexedInit DEF FlashInit, FlashIncomeInv, Init, IdleRates
<1>2. FlashIncomeInv /\ [FlashNext]_flashVars => FlashIncomeInv'
  <2> SUFFICES ASSUME FlashIncomeInv, [FlashNext]_flashVars
               PROVE  FlashIncomeInv'
    OBVIOUS
  <2>1. FlashInv' /\ TypeOK /\ TypeOK' /\ ([Next]_vars \/ Around)
    BY FlashInvStep, AroundSteps DEF FlashIncomeInv, FlashInv, FlashTypeOK
  <2>2. IdleRates'
    BY <2>1, IdleRatesKept, AroundIdle DEF FlashIncomeInv
  <2>3. DepositsIndexed'
    BY <2>1, DepositsIndexedKept, AroundDeposits DEF FlashIncomeInv
  <2> QED BY <2>1, <2>2, <2>3 DEF FlashIncomeInv
<1> QED BY <1>1, <1>2, PTL DEF FlashSpec

(* No deposit is locked by a flash loan: the index that the income raises  *)
(* is never behind one that a deposit was cumulated at.                    *)
THEOREM FlashKeepsDeposits ==
  ASSUME NoBaseSupply
  PROVE  FlashSpec => []DepositsCumulate
<1>1. FlashIncomeInv => DepositsCumulate
  BY DEF FlashIncomeInv, DepositsIndexed, DepositsCumulate
<1> QED BY <1>1, FlashIncomeInvariant, PTL

-----------------------------------------------------------------------------
(* The credit of a loan.  cumulate-to-liquidity-index divides the income   *)
(* by the liquidity it finds, and the quotient is what every deposit       *)
(* grows by.                                                               *)

Share(a, n) == (Income(a, n) * One) \div (vault[a] + totalBorrows[a])

(* That share of the deposits, and the rounding of the index, of the       *)
(* quotient of two indices and of each balance.                            *)
MostCredited(a, n) ==
  LET r == Share(a, n)
  IN (Deposits(a) * ((2 * One + 1) * r + 3 * One)
        + Cardinality(Account) * (One * (2 * One + r))) \div (2 * (One * One))

LoanEnds(a) == loan # NoLoan /\ loan' = NoLoan /\ loan.asset = a

(* The end of a loan credits the depositors no more than that.             *)
CreditBounded ==
  \A a \in Asset : LoanEnds(a) => Deposits(a)' <= Deposits(a) + MostCredited(a, loan.amount)

(* An inequality, scaled. *)
LEMMA ScaledLess ==
  ASSUME NEW a \in Int, NEW b \in Int, NEW k \in Nat, a <= b
  PROVE  k * a <= k * b
<1>1. b - a \in Nat /\ k * (b - a) \in Nat
  OBVIOUS
<1>2. k * (b - a) = k * b - k * a /\ k * a \in Int /\ k * b \in Int
  OBVIOUS
<1> QED BY <1>1, <1>2

(* What a share r of income adds to the quotient of an index and the one   *)
(* that a deposit was cumulated at.                                        *)
LEMMA QuotientCredit ==
  ASSUME NEW i \in Nat, i >= One, NEW L \in Nat, NEW r \in Nat
  PROVE  2 * (One * Div(Mul(One + r, L), i))
           <= (One + r) * (2 * Div(L, i) + 1) + 2 * One
<1> DEFINE k == One + r
           I == Mul(k, L)
           q == Div(L, i)
           p == Div(I, i)
<1>1. One \in Nat \ {0} /\ k \in Nat /\ i \in Nat \ {0}
  BY OneNat
<1>2. I \in Nat /\ 2 * (I * One) <= 2 * (k * L) + One
  BY <1>1, MulBounds
<1>3. q \in Nat /\ 2 * (L * One) <= 2 * (q * i) + i
  BY <1>1, DivBounds
<1>4. p \in Nat /\ 2 * (p * i) <= 2 * (I * One) + i
  BY <1>1, <1>2, DivBounds
<1> HIDE DEF k, I, q, p
<1>5. 2 * (p * i) <= 2 * (k * L) + One + i
  <2>1. p * i \in Int /\ I * One \in Int /\ k * L \in Int
    BY <1>1, <1>2, <1>4
  <2> QED BY <1>1, <1>2, <1>4, <2>1
<1>6. One * (2 * (p * i)) <= k * (2 * (L * One)) + One * One + One * i
  <2>1. One * (2 * (p * i)) <= One * (2 * (k * L) + One + i)
    BY <1>1, <1>4, <1>5, ScaledLess
  <2>2. One * (2 * (k * L) + One + i) = k * (2 * (L * One)) + One * One + One * i
    BY <1>1
  <2> QED BY <2>1, <2>2
<1>7. k * (2 * (L * One)) <= k * (2 * (q * i) + i)
  BY <1>1, <1>3, ScaledLess
<1>8. One * One <= One * i
  BY <1>1, ScaledLess
<1>9. (2 * (One * p)) * i <= (k * (2 * q + 1) + 2 * One) * i
  <2>1. (2 * (One * p)) * i = One * (2 * (p * i))
    BY <1>1, <1>4
  <2>2. (k * (2 * q + 1) + 2 * One) * i = k * (2 * (q * i) + i) + One * i + One * i
    BY <1>1, <1>3
  <2>3. /\ k * (2 * (L * One)) \in Int /\ k * (2 * (q * i) + i) \in Int
        /\ One * i \in Int /\ One * One \in Int /\ One * (2 * (p * i)) \in Int
    BY <1>1, <1>3, <1>4
  <2> QED BY <1>6, <1>7, <1>8, <2>1, <2>2, <2>3
<1>10. 2 * (One * p) \in Int /\ k * (2 * q + 1) + 2 * One \in Int
  BY <1>1, <1>3, <1>4
<1>11. 2 * (One * p) <= k * (2 * q + 1) + 2 * One
  BY <1>1, <1>9, <1>10, Cancel
<1> QED BY <1>11 DEF k, I, q, p

(* What a share r of income adds to a balance of z, cumulated at index i.  *)
LEMMA BalanceCredit ==
  ASSUME NEW z \in Nat, NEW i \in Nat, i >= One, NEW L \in Nat, L >= i, NEW r \in Nat
  PROVE  (2 * (One * One)) * Mul(z, Div(Mul(One + r, L), i))
           <= (2 * (One * One) + (2 * One + 1) * r + 3 * One) * Mul(z, Div(L, i))
                + One * (2 * One + r)
<1> DEFINE k == One + r
           q == Div(L, i)
           p == Div(Mul(k, L), i)
           B == Mul(z, q)
           C == Mul(z, p)
<1>1. One \in Nat \ {0} /\ k \in Nat /\ i \in Nat \ {0}
  BY OneNat
<1>2. q \in Nat /\ q >= One
  BY <1>1, DivFixedNat, DivFixedAtLeastOne
<1>3. p \in Nat
  BY <1>1, MulNat, DivFixedNat
<1>4. 2 * (One * p) <= k * (2 * q + 1) + 2 * One
  BY QuotientCredit
<1>5. B \in Nat /\ 2 * (z * q) <= 2 * (B * One) + One
  BY <1>2, MulBounds
<1>6. C \in Nat /\ 2 * (C * One) <= 2 * (z * p) + One
  BY <1>3, MulBounds
<1>7. z <= B
  BY <1>2, MulGrows
<1> HIDE DEF q, p, B, C
<1>8. One * (2 * (C * One)) <= z * (2 * (One * p)) + One * One
  <2>1. One * (2 * (C * One)) <= One * (2 * (z * p) + One)
    BY <1>1, <1>3, <1>6, ScaledLess
  <2>2. One * (2 * (z * p) + One) = z * (2 * (One * p)) + One * One
    BY <1>1, <1>3
  <2> QED BY <2>1, <2>2
<1>9. z * (2 * (One * p)) <= z * (k * (2 * q + 1) + 2 * One)
  BY <1>1, <1>2, <1>3, <1>4, ScaledLess
<1>10. z * (k * (2 * q + 1) + 2 * One) = k * (2 * (z * q)) + z * (k + 2 * One)
  BY <1>1, <1>2
<1>11. k * (2 * (z * q)) <= k * (2 * (B * One) + One)
  BY <1>1, <1>2, <1>5, ScaledLess
<1>12. z * (k + 2 * One) <= B * (k + 2 * One)
  <2>1. k + 2 * One \in Nat
    BY <1>1
  <2>2. (k + 2 * One) * z <= (k + 2 * One) * B
    BY <2>1, <1>5, <1>7, ScaledLess
  <2> QED BY <2>1, <2>2, <1>5
<1>13. /\ One * (2 * (C * One)) \in Int /\ z * (2 * (One * p)) \in Int /\ One * One \in Int
       /\ z * (k * (2 * q + 1) + 2 * One) \in Int /\ k * (2 * (z * q)) \in Int
       /\ z * (k + 2 * One) \in Int /\ B * (k + 2 * One) \in Int
       /\ k * (2 * (B * One) + One) \in Int
  BY <1>1, <1>2, <1>3, <1>5, <1>6
<1>14. One * (2 * (C * One))
         <= k * (2 * (B * One) + One) + B * (k + 2 * One) + One * One
  BY <1>8, <1>9, <1>10, <1>11, <1>12, <1>13
<1>15. k * (2 * (B * One) + One) + B * (k + 2 * One) + One * One
         = (2 * (One * One) + (2 * One + 1) * r + 3 * One) * B + One * (2 * One + r)
  BY <1>1, <1>5 DEF k
<1>16. One * (2 * (C * One)) = (2 * (One * One)) * C
  BY <1>1, <1>6
<1> QED BY <1>14, <1>15, <1>16 DEF q, p, B, C

(* Bounds of the members bound the sum. *)
LEMMA SumScaled ==
  ASSUME NEW S, IsFiniteSet(S), NEW f \in [S -> Int], NEW g \in [S -> Int],
         NEW m \in Int, NEW n \in Int, NEW k \in Int,
         \A x \in S : m * g[x] <= n * f[x] + k
  PROVE  m * SumFunction(g) <= n * SumFunction(f) + Cardinality(S) * k
<1>1. PICK h : /\ \A s \in SUBSET S : h[s] = SumStep(f, h, s)
               /\ SumFunction(f) = h[S]
  BY SumUnfolds
<1>2. PICK l : /\ \A s \in SUBSET S : l[s] = SumStep(g, l, s)
               /\ SumFunction(g) = l[S]
  BY SumUnfolds
<1> DEFINE G == {s \in SUBSET S : h[s] \in Int /\ l[s] \in Int
                                   /\ m * l[s] <= n * h[s] + Cardinality(s) * k}
<1>3. {} \in G
  <2>1. h[{}] = 0 /\ l[{}] = 0 /\ Cardinality({}) = 0
    BY <1>1, <1>2, FS_EmptySet DEF SumStep
  <2>2. m * 0 <= n * 0 + 0 * k
    OBVIOUS
  <2> QED BY <2>1, <2>2
<1>4. ASSUME NEW s \in SUBSET S, s # {}, s \ {First(s)} \in G
      PROVE  s \in G
  <2> DEFINE y == First(s)
             r == s \ {y}
             c == Cardinality(r)
  <2>1. y \in s /\ y \in S
    BY <1>4 DEF First
  <2>2. h[s] = f[y] + h[r] /\ l[s] = g[y] + l[r]
    BY <1>1, <1>2, <1>4 DEF SumStep
  <2>3. h[r] \in Int /\ l[r] \in Int /\ m * l[r] <= n * h[r] + c * k
    BY <1>4
  <2>4. c \in Nat /\ Cardinality(s) = c + 1
    <3>1. IsFiniteSet(s)
      BY FS_Subset
    <3>2. IsFiniteSet(r) /\ Cardinality(r) = Cardinality(s) - 1 /\ Cardinality(s) \in Nat
      BY <2>1, <3>1, FS_RemoveElement, FS_CardinalityType
    <3>3. Cardinality(r) \in Nat
      BY <3>2, FS_CardinalityType
    <3> QED BY <3>2, <3>3
  <2> HIDE DEF y, r, c
  <2>5. f[y] \in Int /\ g[y] \in Int /\ m * g[y] <= n * f[y] + k
    BY <2>1
  <2>6. m * (g[y] + l[r]) <= n * (f[y] + h[r]) + (c + 1) * k
    <3>1. m * (g[y] + l[r]) = m * g[y] + m * l[r] /\ m * g[y] \in Int /\ m * l[r] \in Int
      BY <2>3, <2>5
    <3>2. n * (f[y] + h[r]) + (c + 1) * k = (n * f[y] + k) + (n * h[r] + c * k)
      BY <2>3, <2>4, <2>5
    <3>3. n * f[y] + k \in Int /\ n * h[r] + c * k \in Int
      BY <2>3, <2>4, <2>5
    <3> QED BY <2>3, <2>5, <3>1, <3>2, <3>3
  <2> QED BY <2>2, <2>3, <2>4, <2>5, <2>6
<1>5. S \in G
  <2> HIDE DEF G
  <2> QED BY <1>3, <1>4, SubsetsByFirst
<1> QED BY <1>1, <1>2, <1>5

(* Every deposit was cumulated at an index of at least one.                *)
DepositsFromOne ==
  \A x \in Account, a \in Asset : zBalance[x][a] > 0 => zIndex[x][a] >= One

LEMMA IncomeFromOne ==
  ASSUME TypeOK, NEW a \in Asset
  PROVE  NormalizedIncome(a) \in Nat /\ NormalizedIncome(a) >= One
<1>1. NormalizedIncome(a) \in Nat /\ NormalizedIncome(a) >= liqIndex[a]
  BY Indices DEF TypeOK
<1>2. liqIndex[a] \in Nat /\ liqIndex[a] >= One
  BY DEF TypeOK, ReserveTypeOK
<1> QED BY <1>1, <1>2, OneNat

LEMMA DepositsFromOneKept ==
  ASSUME TypeOK, IdleRates, DepositsFromOne, [Next]_vars \/ Around
  PROVE  DepositsFromOne'
<1> SUFFICES ASSUME NEW x \in Account, NEW a \in Asset, zBalance'[x][a] > 0
             PROVE  zIndex'[x][a] >= One
  BY DEF DepositsFromOne
<1>1. CASE [Next]_vars
  <2>1. DepositStep(x, a)
    BY <1>1, DepositSteps
  <2> QED BY <2>1, IncomeFromOne DEF DepositStep, DepositsFromOne
<1>2. CASE Around
  BY <1>2, AroundKeeps DEF supplyVars, zVars, DepositsFromOne
<1> QED BY <1>1, <1>2

FlashDepositInv == FlashIncomeInv /\ DepositsFromOne

LEMMA FlashDepositInvariant ==
  ASSUME NoBaseSupply
  PROVE  FlashSpec => []FlashDepositInv
<1>1. FlashInit => DepositsFromOne
  BY DEF FlashInit, Init, DepositsFromOne, Zero
<1>2. FlashIncomeInv /\ DepositsFromOne /\ [FlashNext]_flashVars => DepositsFromOne'
  BY AroundSteps, DepositsFromOneKept DEF FlashIncomeInv, FlashInv, FlashTypeOK
<1> QED BY <1>1, <1>2, FlashIncomeInvariant, PTL DEF FlashSpec, FlashDepositInv

(* The steps of the chain: those of the pool, a liquidation inside a loan  *)
(* among them, and the two steps of a loan.                                *)

OnLoan(a) == IF loan # NoLoan /\ loan.asset = a THEN loan.amount ELSE 0

LEMMA FlashCases ==
  ASSUME FlashTypeOK, [FlashNext]_flashVars
  PROVE  \/ [Next]_vars /\ \A a \in Asset : OnLoan(a)' = OnLoan(a) /\ ~ LoanEnds(a)
         \/ \E b \in FlashCaller, a \in Asset, n \in FlashAmount : StepOne(b, a, n)
         \/ \E p \in Proceeds : StepTwo(p)
<1>1. CASE [Next]_vars /\ loan' = loan
  BY <1>1 DEF OnLoan, LoanEnds
<1>2. ASSUME NEW u \in User, NEW c \in Asset, NEW d \in Asset, NEW n \in Amount,
             NEW asZToken \in BOOLEAN, LiquidateBetween(u, c, d, n, asZToken)
      PROVE  [Next]_vars /\ \A a \in Asset : OnLoan(a)' = OnLoan(a) /\ ~ LoanEnds(a)
  <2>1. /\ loan # NoLoan /\ loan \in LoanType /\ loan' = [loan EXCEPT !.liquidated = TRUE]
        /\ Liquidate(loan.by, u, c, d, n, asZToken)
    BY <1>2 DEF LiquidateBetween, FlashTypeOK
  <2>2. loan.by \in Caller.liquidate
    BY <2>1, FlashUsers DEF LoanType
  <2>3. Next
    BY <2>1, <2>2 DEF Next, UserStep
  <2>4. loan' # NoLoan /\ loan'.asset = loan.asset /\ loan'.amount = loan.amount
    <3>1. loan' \in LoanType
      BY <2>1 DEF LoanType
    <3> QED BY <2>1, <3>1, FlashAssumption DEF LoanType, FlashAssumption
  <2> QED BY <2>1, <2>3, <2>4 DEF OnLoan, LoanEnds
<1>3. CASE FlashNext
  BY <1>1, <1>2, <1>3 DEF FlashNext
<1>4. CASE UNCHANGED flashVars
  BY <1>1, <1>4 DEF flashVars
<1> QED BY <1>3, <1>4

LEMMA StepOneLends ==
  ASSUME FlashTypeOK, NEW b \in FlashCaller, NEW a \in Asset, NEW n \in FlashAmount,
         StepOne(b, a, n)
  PROVE  \A c \in Asset : ~ LoanEnds(c) /\ OnLoan(c) = 0 /\ OnLoan(c)' = (IF c = a THEN n ELSE 0)
<1>1. /\ loan = NoLoan
      /\ loan' = [by |-> b, asset |-> a, amount |-> n, before |-> wallet[b][a],
                  liquidated |-> FALSE]
  BY DEF StepOne
<1>2. n \in Nat /\ wallet[b][a] \in Nat
  BY FlashUsers, FlashAssumption
     DEF FlashAssumption, FlashTypeOK, TypeOK, TokenTypeOK, Account
<1>3. loan' \in LoanType
  BY <1>1, <1>2 DEF LoanType
<1>4. loan' # NoLoan
  BY <1>3, FlashAssumption DEF FlashAssumption, LoanType
<1> QED BY <1>1, <1>4 DEF OnLoan, LoanEnds

(* The second step raises each balance by the share, up to rounding. *)
LEMMA CreditEach ==
  ASSUME FlashDepositInv, TypeOK', NEW a \in Asset, NEW n \in Nat, Settles(a, n),
         NEW x \in Account
  PROVE  LET r == Share(a, n)
         IN (2 * (One * One)) * Balance(x, a)'
              <= (2 * (One * One) + (2 * One + 1) * r + 3 * One) * Balance(x, a)
                   + One * (2 * One + r)
<1> DEFINE r == Share(a, n)
           L == NormalizedIncome(a)
           z == zBalance[x][a]
           i == zIndex[x][a]
<1>1. TypeOK /\ IdleRates /\ DepositsIndexed /\ DepositsFromOne
  BY DEF FlashDepositInv, FlashIncomeInv, FlashInv, FlashTypeOK
<1>2. r \in Nat
  <2>1. vault[a] + totalBorrows[a] \in Nat \ {0} /\ Income(a, n) * One \in Nat
    BY <1>1, OneNat DEF Settles, TypeOK, TokenTypeOK, ReserveTypeOK
  <2> QED BY <2>1, DivNat DEF Share
<1>3. L \in Nat /\ z \in Nat /\ i \in Nat /\ zBalance'[x][a] = z /\ zIndex'[x][a] = i
  BY <1>1, IncomeFromOne DEF Settles, supplyVars, zVars, TypeOK, SupplyTypeOK
<1>4. NormalizedIncome(a)' = Mul(One + r, L)
  <2>1. NextLiqIndex(a) = L /\ NextLiqIndex(a) \in Nat
    BY <1>1, <1>3, IncomeRemembered
  <2>2. liqIndex'[a] = IndexWithIncome(a, n, Income(a, n)) /\ liqIndex'[a] \in Nat
    <3>1. liqIndex' = [liqIndex EXCEPT ![a] = IndexWithIncome(a, n, Income(a, n))]
      BY DEF Settles, UpdateStateOnFlashLoan
    <3> QED BY <1>1, <3>1 DEF TypeOK, ReserveTypeOK
  <2>3. liqIndex'[a] = Mul(One + r, L)
    BY <2>1, <2>2 DEF IndexWithIncome, Share
  <2>4. updated'[a] = height' /\ height' \in Nat
    BY <1>1, SettledReserve DEF TypeOK, EnvTypeOK
  <2>5. liqRate'[a] \in Nat
    BY DEF TypeOK, ReserveTypeOK
  <2>6. /\ CalculateLinearInterest(liqRate'[a], height', height') = One
        /\ Mul(One, liqIndex'[a]) = liqIndex'[a]
    BY <2>2, <2>4, <2>5, NoInterest, MulOne
  <2> QED BY <2>3, <2>4, <2>6 DEF NormalizedIncome
<1>5. CASE z = 0
  <2>1. Balance(x, a) = 0 /\ Balance(x, a)' = 0
    BY <1>3, <1>5 DEF Balance, BalanceAt
  <2>2. One * (2 * One + r) \in Nat
    BY <1>2, OneNat
  <2>3. (2 * (One * One) + (2 * One + 1) * r + 3 * One) * 0 = 0 /\ (2 * (One * One)) * 0 = 0
    BY <1>2, OneNat
  <2> HIDE DEF r
  <2> QED BY <2>1, <2>2, <2>3 DEF r
<1>6. CASE z # 0
  <2>1. i >= One /\ L >= i /\ i # 0
    BY <1>1, <1>3, <1>6, OneNat DEF DepositsFromOne, DepositsIndexed
  <2>2. Balance(x, a) = Mul(z, Div(L, i))
    BY <1>6, <2>1 DEF Balance, BalanceAt
  <2>3. Balance(x, a)' = Mul(z, Div(Mul(One + r, L), i))
    BY <1>3, <1>4, <1>6, <2>1 DEF Balance, BalanceAt
  <2> HIDE DEF r, L, z, i
  <2>4. (2 * (One * One)) * Balance(x, a)'
          <= (2 * (One * One) + (2 * One + 1) * r + 3 * One) * Balance(x, a) + One * (2 * One + r)
    BY <1>2, <1>3, <2>1, <2>2, <2>3, BalanceCredit
  <2> QED BY <2>4 DEF r
<1> QED BY <1>5, <1>6

LEMMA CreditOfAll ==
  ASSUME FlashDepositInv, TypeOK', Positions, Positions', NEW a \in Asset, NEW n \in Nat,
         Settles(a, n)
  PROVE  /\ MostCredited(a, n) \in Int
         /\ Deposits(a)' <= Deposits(a) + MostCredited(a, n)
<1> DEFINE r == Share(a, n)
           m == 2 * (One * One)
           t == (2 * One + 1) * r + 3 * One
           k == One * (2 * One + r)
           f == [x \in Account |-> Balance(x, a)]
           g == [x \in Account |-> Balance(x, a)']
           e == Deposits(a) * t + Cardinality(Account) * k
<1>1. r \in Nat
  <2>1. vault[a] + totalBorrows[a] \in Nat \ {0} /\ Income(a, n) * One \in Nat
    BY OneNat DEF Settles, FlashDepositInv, FlashIncomeInv, FlashInv, FlashTypeOK,
                  TypeOK, TokenTypeOK, ReserveTypeOK
  <2> QED BY <2>1, DivNat DEF Share
<1>2. m \in Nat \ {0} /\ t \in Int /\ k \in Int
  <2> HIDE DEF r
  <2> QED BY <1>1, OneNat
<1>3. \A x \in Account : m * g[x] <= (m + t) * f[x] + k
  <2> SUFFICES ASSUME NEW x \in Account PROVE m * g[x] <= (m + t) * f[x] + k
    OBVIOUS
  <2>1. m + t = 2 * (One * One) + (2 * One + 1) * r + 3 * One
    <3> HIDE DEF r
    <3> QED BY <1>1, OneNat
  <2>2. m * Balance(x, a)' <= (m + t) * Balance(x, a) + k
    BY <2>1, CreditEach
  <2> QED BY <2>2
<1>4. /\ f \in [Account -> Int] /\ g \in [Account -> Int]
      /\ SumFunction(f) = Deposits(a) /\ SumFunction(g) = Deposits(a)'
  <2>1. \A x \in Account : Balance(x, a) = Claim[x][a] /\ Balance(x, a)' = Claim'[x][a]
    BY DEF Claim
  <2>2. \A x \in Account : Balance(x, a) \in Int /\ Balance(x, a)' \in Int
    <3> HIDE DEF Claim
    <3> QED BY <2>1 DEF Positions
  <2> QED BY <2>2 DEF Deposits
<1>5. Deposits(a) \in Int /\ Deposits(a)' \in Int /\ Cardinality(Account) \in Nat
  BY DepositsInt, AccountFinite, FS_CardinalityType
<1>6. m * Deposits(a)' <= (m + t) * Deposits(a) + Cardinality(Account) * k
  <2> HIDE DEF m, t, k, f, g
  <2>1. m + t \in Int /\ m \in Int
    BY <1>2
  <2> QED BY <1>2, <1>3, <1>4, <2>1, AccountFinite, SumScaled
<1>7. MostCredited(a, n) = e \div m
  BY DEF MostCredited
<1> HIDE DEF r, m, t, k, f, g
<1>8. e \in Int /\ m * Deposits(a)' <= m * Deposits(a) + e
  <2>1. /\ (m + t) * Deposits(a) = m * Deposits(a) + Deposits(a) * t
        /\ m * Deposits(a) \in Int /\ Deposits(a) * t \in Int
        /\ Cardinality(Account) * k \in Int /\ m * Deposits(a)' \in Int
    BY <1>2, <1>5
  <2> QED BY <1>6, <2>1
<1> HIDE DEF e
<1>9. e \div m \in Int /\ e < m * (e \div m) + m
  BY <1>2, <1>8
<1>10. m * Deposits(a)' < m * (Deposits(a) + e \div m + 1)
  <2>1. m * (Deposits(a) + e \div m + 1) = m * Deposits(a) + m * (e \div m) + m
    BY <1>2, <1>5, <1>9
  <2>2. m * Deposits(a) \in Int /\ m * (e \div m) \in Int /\ m * Deposits(a)' \in Int
    BY <1>2, <1>5, <1>9
  <2> QED BY <1>2, <1>8, <1>9, <2>1, <2>2
<1>11. Deposits(a)' < Deposits(a) + e \div m + 1
  <2> DEFINE u == Deposits(a)'
             v == Deposits(a) + e \div m + 1
  <2>1. u \in Int /\ v \in Int
    BY <1>5, <1>9
  <2>2. m * u < m * v
    BY <1>10
  <2> HIDE DEF u, v
  <2>3. u * m < v * m
    BY <1>2, <2>1, <2>2
  <2>4. u < v
    BY <1>2, <2>1, <2>3, Cancel
  <2> QED BY <2>4 DEF u, v
<1> QED BY <1>5, <1>7, <1>9, <1>11

(* The end of a flash loan credits the depositors of a reserve no more     *)
(* than the share of its income in the liquidity that                      *)
(* cumulate-to-liquidity-index finds, and rounding: no loan, whatever its  *)
(* fee, the interest due and the liquidations inside it, gives more away.  *)
THEOREM FlashCreditBounded ==
  ASSUME NoBaseSupply
  PROVE  FlashSpec => [][CreditBounded]_flashVars
<1>1. ASSUME FlashDepositInv, FlashDepositInv', Positions, Positions', [FlashNext]_flashVars
      PROVE  CreditBounded
  <2>1. FlashTypeOK /\ TypeOK'
    BY <1>1 DEF FlashDepositInv, FlashIncomeInv, FlashInv, FlashTypeOK
  <2>2. ASSUME NEW b \in FlashCaller, NEW a \in Asset, NEW n \in FlashAmount, StepOne(b, a, n)
        PROVE  CreditBounded
    BY <2>1, <2>2, StepOneLends DEF CreditBounded
  <2>3. ASSUME NEW p \in Proceeds, StepTwo(p)
        PROVE  CreditBounded
    <3>1. PICK a \in Asset, n \in Nat : a = loan.asset /\ n = loan.amount /\ Settles(a, n)
      BY <2>1, <2>3, StepTwoSettles
    <3>2. Deposits(a)' <= Deposits(a) + MostCredited(a, n)
      BY <1>1, <2>1, <3>1, CreditOfAll
    <3> QED BY <3>1, <3>2 DEF CreditBounded, LoanEnds
  <2>4. CASE \A a \in Asset : ~ LoanEnds(a)
    BY <2>4 DEF CreditBounded
  <2> QED BY <1>1, <2>1, <2>2, <2>3, <2>4, FlashCases
<1>2. FlashDepositInv => Positions
  BY PositionsNat DEF FlashDepositInv, FlashIncomeInv, FlashInv, FlashTypeOK, Positions
<1> QED BY <1>1, <1>2, FlashDepositInvariant, PTL DEF FlashSpec

-----------------------------------------------------------------------------
(* Cover.  What a borrower has on loan counts for the vault it left.       *)

(* What the deposits lack of it. *)
Shortfall(a) == Deposits(a) - (vault[a] + totalBorrows[a] + OnLoan(a))

(* It grows at the end of a loan only, by what the loan credits and is not *)
(* paid as its fee.                                                        *)
OnlyLoansUncover ==
  \A a \in Asset :
    Shortfall(a)' <= Shortfall(a)
      + (IF LoanEnds(a) THEN MostCredited(a, loan.amount) - AmountFee(a, loan.amount) ELSE 0)

(* Deposits and cover of a reserve that a step of a loan leaves alone. *)
LEMMA DepositsUntouched ==
  ASSUME IncomeStored, IncomeStored', UNCHANGED supplyVars, NEW a \in Asset,
         liqIndex'[a] = liqIndex[a]
  PROVE  Deposits(a)' = Deposits(a)
<1>1. NormalizedIncome(a)' = NormalizedIncome(a) /\ UNCHANGED <<zBalance, zIndex>>
  BY DEF IncomeStored, supplyVars, zVars
<1>2. \A x \in Account : Balance(x, a)' = Balance(x, a)
  BY <1>1 DEF Balance, BalanceAt
<1> QED BY <1>2 DEF Deposits

LEMMA StepOneUncovers ==
  ASSUME FlashTypeOK, IncomeStored, IncomeStored', Positions, Positions',
         NEW b \in FlashCaller, NEW a \in Asset, NEW n \in FlashAmount, StepOne(b, a, n)
  PROVE  OnlyLoansUncover
<1> SUFFICES ASSUME NEW c \in Asset
             PROVE  ~ LoanEnds(c) /\ Shortfall(c)' <= Shortfall(c) + 0
  BY DEF OnlyLoansUncover
<1>1. /\ vault' = [vault EXCEPT ![a] = vault[a] - n]
      /\ UNCHANGED <<liqIndex, totalBorrows, supplyVars>>
  BY DEF StepOne, reserveVars
<1>2. n \in Nat /\ vault \in [Asset -> Nat] /\ totalBorrows \in [Asset -> Nat]
  BY FlashAssumption DEF FlashAssumption, FlashTypeOK, TypeOK, TokenTypeOK, ReserveTypeOK
<1>3. ~ LoanEnds(c) /\ OnLoan(c) = 0 /\ OnLoan(c)' = (IF c = a THEN n ELSE 0)
  BY StepOneLends
<1>4. Deposits(c)' = Deposits(c) /\ Deposits(c) \in Int
  BY <1>1, DepositsUntouched, DepositsInt
<1>5. vault'[c] = vault[c] - (IF c = a THEN n ELSE 0) /\ totalBorrows'[c] = totalBorrows[c]
  BY <1>1, <1>2
<1>6. vault'[c] + totalBorrows'[c] + OnLoan(c)' = vault[c] + totalBorrows[c] + OnLoan(c)
  BY <1>2, <1>3, <1>5
<1>7. vault[c] + totalBorrows[c] + OnLoan(c) \in Int
  BY <1>2, <1>3
<1> QED BY <1>3, <1>4, <1>6, <1>7 DEF Shortfall

LEMMA StepTwoUncovers ==
  ASSUME FlashDepositInv, TypeOK', IncomeStored, IncomeStored', Positions, Positions',
         NEW p \in Proceeds, StepTwo(p)
  PROVE  OnlyLoansUncover
<1> SUFFICES ASSUME NEW c \in Asset
             PROVE  Shortfall(c)' <= Shortfall(c)
                      + (IF LoanEnds(c)
                         THEN MostCredited(c, loan.amount) - AmountFee(c, loan.amount) ELSE 0)
  BY DEF OnlyLoansUncover
<1>1. FlashTypeOK
  BY DEF FlashDepositInv, FlashIncomeInv, FlashInv
<1>2. PICK a \in Asset, n \in Nat : a = loan.asset /\ n = loan.amount /\ Settles(a, n)
  BY <1>1, StepTwoSettles
<1> DEFINE fee  == AmountFee(a, n)
           most == MostCredited(a, n)
<1>3. /\ loan # NoLoan /\ loan' = NoLoan
      /\ vault' = [vault EXCEPT ![a] = vault[a] + (n + fee)]
      /\ liqIndex' = [liqIndex EXCEPT ![a] = IndexWithIncome(a, n, Income(a, n))]
      /\ UNCHANGED <<supplyVars, totalBorrows>>
  BY <1>2 DEF StepTwo, UpdateStateOnFlashLoan
<1>4. fee \in Nat /\ most \in Int /\ Deposits(a)' <= Deposits(a) + most
  BY <1>2, CreditOfAll, FeesNat
<1>5. /\ vault \in [Asset -> Nat] /\ totalBorrows \in [Asset -> Nat]
      /\ liqIndex \in [Asset -> Nat]
  BY <1>1 DEF FlashTypeOK, TypeOK, TokenTypeOK, ReserveTypeOK
<1>6. Deposits(c) \in Int /\ Deposits(c)' \in Int
  BY DepositsInt
<1>7. OnLoan(c) = (IF c = a THEN n ELSE 0) /\ OnLoan(c)' = 0 /\ (LoanEnds(c) <=> c = a)
  BY <1>3, <1>2 DEF OnLoan, LoanEnds
<1>8. vault'[c] = vault[c] + (IF c = a THEN n + fee ELSE 0) /\ totalBorrows'[c] = totalBorrows[c]
  BY <1>3, <1>5
<1>9. c # a => Deposits(c)' = Deposits(c)
  <2>1. c # a => liqIndex'[c] = liqIndex[c]
    BY <1>3, <1>5
  <2> QED BY <1>3, <2>1, DepositsUntouched
<1>10. vault[c] \in Int /\ totalBorrows[c] \in Int
  BY <1>5
<1>11. Shortfall(c) = Deposits(c) - (vault[c] + totalBorrows[c] + (IF c = a THEN n ELSE 0))
  BY <1>7 DEF Shortfall
<1>12. Shortfall(c)'
         = Deposits(c)' - (vault[c] + (IF c = a THEN n + fee ELSE 0) + totalBorrows[c] + 0)
  BY <1>7, <1>8 DEF Shortfall
<1>13. CASE c = a
  <2>1. /\ Deposits(c)' <= Deposits(c) + most
        /\ MostCredited(c, loan.amount) = most /\ AmountFee(c, loan.amount) = fee
    BY <1>2, <1>4, <1>13
  <2> HIDE DEF fee, most
  <2> QED BY <1>2, <1>4, <1>6, <1>7, <1>10, <1>11, <1>12, <1>13, <2>1
<1>14. CASE c # a
  <2> HIDE DEF fee, most
  <2> QED BY <1>2, <1>6, <1>7, <1>9, <1>10, <1>11, <1>12, <1>14
<1> QED BY <1>13, <1>14

LEMMA PoolUncovers ==
  ASSUME FlashDepositInv, TypeOK', NothingAccrued, IncomeStored, IncomeStored',
         Positions, Positions', [Next]_vars,
         \A a \in Asset : OnLoan(a)' = OnLoan(a) /\ ~ LoanEnds(a)
  PROVE  OnlyLoansUncover
<1> SUFFICES ASSUME NEW a \in Asset
             PROVE  Shortfall(a)' <= Shortfall(a) + 0
  BY DEF OnlyLoansUncover
<1> DEFINE m == Deposits(a) - Cover(a)
<1>1. Indexed
  BY DEF FlashDepositInv, FlashIncomeInv, FlashInv, FlashTypeOK, Indexed
<1>2. /\ Deposits(a) \in Int /\ Deposits(a)' \in Int
      /\ Cover(a) \in Int /\ Cover(a)' \in Int
  BY <1>1, DepositsInt DEF Indexed, TypeOK, TokenTypeOK, ReserveTypeOK, Cover
<1>3. m \in Int /\ Deposits(a) <= Cover(a) + m
  BY <1>2
<1> HIDE DEF m
<1>4. Deposits(a)' <= Cover(a)' + m
  BY <1>1, <1>3, CoveredStep
<1>5. OnLoan(a)' = OnLoan(a) /\ OnLoan(a) \in Int
  BY DEF OnLoan, FlashDepositInv, FlashIncomeInv, FlashInv, FlashTypeOK, LoanType
<1>6. /\ Shortfall(a) = Deposits(a) - (Cover(a) + OnLoan(a))
      /\ Shortfall(a)' = Deposits(a)' - (Cover(a)' + OnLoan(a))
  BY <1>5 DEF Shortfall, Cover
<1> QED BY <1>2, <1>3, <1>4, <1>5, <1>6 DEF m

FlashQuiet == FlashDepositInv /\ NothingAccrued

(* Nothing is accrued by a flash loan either, where no interest is due.    *)
LEMMA FlashAccruesNothing ==
  ASSUME FlashQuiet, NothingDue, [FlashNext]_flashVars
  PROVE  NothingAccrued'
<1>1. FlashTypeOK /\ TypeOK /\ NothingAccrued
  BY DEF FlashQuiet, FlashDepositInv, FlashIncomeInv, FlashInv, FlashTypeOK
<1>2. ASSUME [Next]_vars PROVE NothingAccrued'
  BY <1>1, <1>2, AccruesNothing
<1>3. ASSUME NEW b \in FlashCaller, NEW a \in Asset, NEW n \in FlashAmount, StepOne(b, a, n)
      PROVE  NothingAccrued'
  BY <1>1, <1>3 DEF StepOne, reserveVars, NothingAccrued
<1>4. ASSUME NEW p \in Proceeds, StepTwo(p)
      PROVE  NothingAccrued'
  <2>1. loan.asset \in Asset /\ UpdateStateOnFlashLoan(loan.asset, loan.amount)
    BY <1>1, <1>4, StepTwoSettles DEF Settles
  <2>2. totalBorrows[loan.asset] \in Nat /\ accrued \in [Asset -> Nat]
    BY <1>1, <2>1 DEF TypeOK, ReserveTypeOK
  <2>3. TreasuryShare(loan.asset, totalBorrows[loan.asset]) = 0
    BY <1>1, <2>1, <2>2, NoShare
  <2> QED BY <1>1, <2>1, <2>2, <2>3 DEF UpdateStateOnFlashLoan, NothingAccrued
<1> QED BY <1>1, <1>2, <1>3, <1>4, FlashCases

(* Where no interest is due, what the vault, the borrowers and a flash     *)
(* loan hold covers the deposits as well after a transaction as before it, *)
(* a liquidation with borrowed tokens included; only the end of a flash    *)
(* loan may uncover deposits, by its credit less the fee it is paid.       *)
THEOREM FlashLoansUncover ==
  ASSUME NoBaseSupply
  PROVE  FlashSpec /\ []NothingDue => [][OnlyLoansUncover]_flashVars
<1>1. FlashInit => NothingAccrued
  BY CoveredInit DEF FlashInit
<1>2. FlashQuiet /\ NothingDue /\ [FlashNext]_flashVars => NothingAccrued'
  BY FlashAccruesNothing
<1>3. FlashDepositInv => Positions
  BY PositionsNat DEF FlashDepositInv, FlashIncomeInv, FlashInv, FlashTypeOK, Positions
<1>4. FlashDepositInv /\ NothingDue => IncomeStored
  BY NothingDueIndices
     DEF FlashDepositInv, FlashIncomeInv, FlashInv, FlashTypeOK, IncomeStored
<1>5. ASSUME FlashQuiet, FlashDepositInv', Positions, Positions', IncomeStored, IncomeStored',
             [FlashNext]_flashVars
      PROVE  OnlyLoansUncover
  <2>1. FlashTypeOK /\ TypeOK' /\ FlashDepositInv /\ NothingAccrued
    BY <1>5 DEF FlashQuiet, FlashDepositInv, FlashIncomeInv, FlashInv, FlashTypeOK
  <2> QED BY <1>5, <2>1, FlashCases, StepOneUncovers, StepTwoUncovers, PoolUncovers
<1> QED BY <1>1, <1>2, <1>3, <1>4, <1>5, FlashDepositInvariant, PTL DEF FlashSpec, FlashQuiet
=============================================================================
