------------------------------ MODULE ZestPool ------------------------------
(***************************************************************************)
(* The lending pool: pool/pool-borrow.clar, pool/liquidation-manager.clar, *)
(* vaults/pool-0-reserve-v2-0.clar and the z-token ledger of               *)
(* ztoken/z*.clar, with the maps of reserve-data/*.clar as the variables.  *)
(*                                                                         *)
(* A public function of the contracts is one transaction: it runs alone    *)
(* and is undone as a whole when any check fails or any unsigned           *)
(* subtraction underflows.  So each public function is one action, its     *)
(* checks are conjuncts of the guard, and a failing call is no step.       *)
(*                                                                         *)
(* Abstractions: all tokens have the decimals of a fixed-point number (the *)
(* conversions are the subject of ZestMath); the lists assets-supplied and *)
(* assets-borrowed, kept free of duplicates by the code, are sets; the     *)
(* list of assets a caller passes is the one validate-assets accepts; the  *)
(* contracts are wired to each other as deployed, so a call between them   *)
(* is never unauthorized.                                                  *)
(***************************************************************************)
EXTENDS ZestMath, FiniteSets, Functions

CONSTANTS
  User,        \* principals that call the pool
  Treasury,    \* the collection address
  Asset,       \* the assets of the pool
  EMode,       \* the e-mode types other than the disabled one
  NoMode,      \* the disabled e-mode type, 0x00
  NoAsset,     \* "no isolated asset"
  Param,       \* per asset: caps, rates and initial risk parameters
  EModeParam,  \* per e-mode type: ltv and liquidation threshold
  HealthThreshold, \* health-factor-liquidation-treshold
  Caller,      \* per kind of transaction: the users who send it
  Amount,      \* the amounts callers pass
  MaxValue,    \* the amount that stands for "everything"
  Price,       \* per asset: the prices its oracle may report
  Deposit,     \* per account and asset: its initial tokens
  MaxBurn,     \* bound on the Bitcoin block height
  (* what the configurator changes: the assets whose status, borrowing,     *)
  (* usage as collateral, isolation, isolated borrowing, grace period and   *)
  (* e-mode type it sets, and the e-mode types it enables and disables      *)
  StatusOf, BorrowingOf, UsageOf, IsolationOf, IsoBorrowOf, GraceOf, TypeOf,
  Switched,
  Risk,        \* the risk parameters it sets with the usage as collateral
  Ceiling,     \* the debt ceilings it sets with the isolation
  (* what it has set before the first transaction *)
  Borrowable0, Collateral0, Isolated0, BorrowableIso0, AssetEMode0

Account == User \cup {Treasury}

BasisPoints == 10000

ParamType ==
  [ltv: Nat, threshold: Nat, bonus: Nat, eModeBonus: Nat,
   supplyCap: Nat, borrowCap: Nat, debtCeiling: Nat,
   reserveFactor: 0 .. One, optimal: 1 .. (One - 1),
   baseBorrow: Nat, slope1: Nat, slope2: Nat, baseSupply: Nat,
   closeFactor: Nat, originationFee: 0 .. BasisPoints, gracePeriod: Nat]

RiskType == [ltv: Nat, threshold: Nat, bonus: Nat]

ASSUME PoolAssumption ==
  /\ IsFiniteSet(User) /\ IsFiniteSet(Asset)
  /\ Treasury \notin User /\ NoAsset \notin Asset /\ NoMode \notin EMode
  /\ Param \in [Asset -> ParamType]
  /\ EModeParam \in [EMode -> [ltv: Nat, threshold: Nat]]
  /\ HealthThreshold \in Nat
  /\ Caller \in [{"supply", "withdraw", "borrow", "repay", "liquidate", "mode", "use"}
                  -> SUBSET User]
  /\ Amount \subseteq Nat /\ MaxValue \in Nat
  /\ Price \in [Asset -> SUBSET (Nat \ {0})]
  /\ Deposit \in [Account -> [Asset -> Nat]]
  /\ StatusOf \cup BorrowingOf \cup UsageOf \cup IsolationOf \cup IsoBorrowOf
       \cup GraceOf \cup TypeOf \subseteq Asset
  /\ Switched \subseteq EMode /\ Risk \subseteq RiskType /\ Ceiling \subseteq Nat
  /\ Borrowable0 \subseteq Asset /\ Collateral0 \subseteq Asset
  /\ Isolated0 \subseteq Asset /\ BorrowableIso0 \subseteq Asset
  /\ AssetEMode0 \in [Asset -> EMode \cup {NoMode}]

VARIABLES
  (* reserve-state, per asset *)
  liqIndex,      \* last-liquidity-cumulative-index
  liqRate,       \* current-liquidity-rate
  borIndex,      \* last-variable-borrow-cumulative-index
  borRate,       \* current-variable-borrow-rate
  totalBorrows,  \* total-borrows-variable
  updated,       \* last-updated-block
  accrued,       \* accrued-to-treasury
  (* user-reserve-data and user-assets, per user and asset *)
  principal,     \* principal-borrow-balance
  debtIndex,     \* last-variable-borrow-cumulative-index of the user
  debtUpdated,   \* last-updated-block of the user
  borrowed,      \* assets-borrowed
  (* the z-token ledger and the supply side, per account and asset *)
  zBalance,      \* balance in the z-token contract, without interest
  zIndex,        \* user-index, 0 where the map has no entry
  supplied,      \* assets-supplied
  collateral,    \* use-as-collateral
  (* modes *)
  eMode,         \* user-e-mode
  isoDebt,       \* asset-isolation-mode-debt: isolated asset, borrowed asset
  (* underlying tokens *)
  vault,         \* balance of pool-vault
  wallet,        \* balances of the accounts
  registered,    \* the principals users-id maps some id to
  (* what the configurator sets *)
  active,        \* is-active
  frozen,        \* is-frozen
  borrowingOn,   \* borrowing-enabled
  collateralOn,  \* usage-as-collateral-enabled
  risk,          \* base-ltv-as-collateral, liquidation-threshold and -bonus
  debtCeiling,   \* debt-ceiling
  isolated,      \* isolated-assets
  borrowableIso, \* borroweable-isolated
  graceOn,       \* grace-period-enabled
  freezeEnd,     \* freeze-end-block
  eModeOn,       \* the e-mode types that are enabled
  assetEMode,    \* asset-e-mode-type
  (* the environment *)
  price,         \* what the oracles report
  height,        \* stacks-block-height
  burnHeight     \* burn-block-height

reserveVars == <<liqIndex, liqRate, borIndex, borRate, totalBorrows, updated, accrued>>
debtVars    == <<principal, debtIndex, debtUpdated, borrowed>>
zVars       == <<zBalance, zIndex, supplied>>
supplyVars  == <<zVars, collateral>>
tokenVars   == <<vault, wallet>>
configVars  == <<active, frozen, borrowingOn, collateralOn, risk,
                 debtCeiling, isolated, borrowableIso, graceOn, freezeEnd, eModeOn, assetEMode>>
envVars     == <<price, height, burnHeight>>
vars        == <<reserveVars, debtVars, supplyVars, eMode, isoDebt, tokenVars,
                 registered, configVars, envVars>>

-----------------------------------------------------------------------------
(* Interest.  The reserve's indices are brought up to the current block    *)
(* only while something is borrowed; between updates, views extrapolate.   *)

(* get-normalized-income: the supply index as of now. *)
NormalizedIncome(a) ==
  Mul(CalculateLinearInterest(liqRate[a], updated[a], height), liqIndex[a])

(* The borrow index as of now. *)
NormalizedDebt(a) ==
  Mul(CalculateCompoundedInterest(borRate[a], updated[a], height), borIndex[a])

(* update-cumulative-indexes. *)
NextLiqIndexStale(a) == liqIndex[a]

NextLiqIndex(a) == IF totalBorrows[a] > 0 THEN NormalizedIncome(a) ELSE liqIndex[a]

NextBorIndexStale(a) == borIndex[a]

NextBorIndex(a) == IF totalBorrows[a] > 0 THEN NormalizedDebt(a) ELSE borIndex[a]

TreasuryShareReversed(a, total) ==
  Mul(Mul(total, borIndex[a]) - Mul(total, NextBorIndex(a)),
      Div(Param[a].reserveFactor, NextLiqIndex(a)))

(* accrue-to-treasury: what a reserve that holds `total` principal accrues *)
(* when its indices move to their next values.                             *)
TreasuryShare(a, total) ==
  Mul(Mul(total, NextBorIndex(a)) - Mul(total, borIndex[a]),
      Div(Param[a].reserveFactor, NextLiqIndex(a)))

Utilization(total, cash) ==
  IF total = 0 THEN 0 ELSE (total * One) \div (total + cash)

(* calculate-interest-rates. *)
BorrowRate(a, util) ==
  LET p == Param[a]
  IN IF util > p.optimal
     THEN p.baseBorrow + p.slope1
            + Mul(p.slope2, Div(util - p.optimal, One - p.optimal))
     ELSE p.baseBorrow + Mul(Div(util, p.optimal), p.slope1)

LiquidityRate(a, util) ==
  LET paid == Mul(BorrowRate(a, util), util)
  IN Param[a].baseSupply +
       (IF util > Param[a].optimal
        THEN paid
        ELSE Mul(paid, One - Param[a].reserveFactor))

(* The reserves in S after an update: indices to now, then `total` as the  *)
(* new totals, `share` accrued to the treasury, and rates for the cash the *)
(* vault will hold once the transfers of the transaction are done.         *)
UpdateReserves(S, total, share, cash) ==
  /\ liqIndex' = [a \in Asset |-> IF a \in S THEN NextLiqIndex(a) ELSE liqIndex[a]]
  /\ borIndex' = [a \in Asset |-> IF a \in S THEN NextBorIndex(a) ELSE borIndex[a]]
  /\ totalBorrows' = total
  /\ accrued' = [a \in Asset |-> accrued[a] + share[a]]
  /\ liqRate' = [a \in Asset |->
       IF a \in S THEN LiquidityRate(a, Utilization(total[a], cash[a])) ELSE liqRate[a]]
  /\ borRate' = [a \in Asset |->
       IF a \in S THEN BorrowRate(a, Utilization(total[a], cash[a])) ELSE borRate[a]]
  /\ updated' = [a \in Asset |-> IF a \in S THEN height ELSE updated[a]]

UpdateReserveBeforeTransfer(a, total, cash) ==
  UpdateReserves({a}, [totalBorrows EXCEPT ![a] = total],
                 [x \in Asset |-> IF x = a THEN TreasuryShare(a, totalBorrows[a]) ELSE 0],
                 vault)

(* One reserve, with its treasury share. *)
UpdateReserve(a, total, cash) ==
  UpdateReserves({a}, [totalBorrows EXCEPT ![a] = total],
                 [x \in Asset |-> IF x = a THEN TreasuryShare(a, totalBorrows[a]) ELSE 0],
                 [vault EXCEPT ![a] = cash])

-----------------------------------------------------------------------------
(* Balances with interest. *)

(* get-balance of the z-token, at a given normalized income. *)
BalanceAt(x, a, income) ==
  LET index == IF zIndex[x][a] = 0 THEN liqIndex[a] ELSE zIndex[x][a]
  IN IF zBalance[x][a] = 0 THEN 0 ELSE Mul(zBalance[x][a], Div(income, index))

Balance(x, a) == BalanceAt(x, a, NormalizedIncome(a))

(* get-compounded-borrow-balance: never less than one unit over the        *)
(* principal once a block has passed.                                      *)
Compounded(u, a) ==
  LET index == IF debtIndex[u][a] = 0 THEN borIndex[a] ELSE debtIndex[u][a]
      due   == Mul(principal[u][a], Div(NormalizedDebt(a), index))
  IN IF principal[u][a] = 0 THEN 0
     ELSE IF due = principal[u][a] /\ debtUpdated[u][a] # height THEN due + 1
     ELSE due

(* The principal of the reserve once u, who owes `due`, has paid part of    *)
(* it: the interest of u joins the principal first.                        *)
TotalAfterWithoutInterest(u, a, due, paid) == totalBorrows[a] - paid

TotalAfter(u, a, due, paid) == totalBorrows[a] + (due - principal[u][a]) - paid

BorrowedAfterAny(u, a, left) == [borrowed EXCEPT ![u] = @ \ {a}]

(* remove-borrowed-asset, when nothing is left of the debt. *)
BorrowedAfter(u, a, left) ==
  IF left = 0 THEN [borrowed EXCEPT ![u] = @ \ {a}] ELSE borrowed

CollateralAfterUnreset(u, a, gone) == collateral

(* set-user-reserve-as-collateral to false, when the deposit is gone. *)
CollateralAfter(u, a, gone) == [collateral EXCEPT ![u][a] = @ /\ ~ gone]

-----------------------------------------------------------------------------
(* Positions in base currency. *)

Value(a, n) == Mul(n, price[a])

InEMode(m, a) == m # NoMode /\ assetEMode[a] = m

(* get-e-mode-config of a user in mode m. *)
Ltv(m, a) == IF InEMode(m, a) THEN EModeParam[m].ltv ELSE risk[a].ltv

Threshold(m, a) ==
  IF InEMode(m, a) THEN EModeParam[m].threshold ELSE risk[a].threshold

CollateralIn(u, a) ==
  IF collateral[u][a] /\ collateralOn[a] THEN Value(a, Balance(u, a)) ELSE 0

CollateralValue(u) == SumFunction([a \in Asset |-> CollateralIn(u, a)])

DebtValue(u) == SumFunction([a \in Asset |-> Value(a, Compounded(u, a))])

(* The current-ltv and current-liquidation-threshold of the position:      *)
(* averages weighted by the collateral.                                    *)
Weighted(u, W(_)) ==
  IF CollateralValue(u) = 0 THEN 0
  ELSE Div(SumFunction([a \in Asset |-> Mul(CollateralIn(u, a), W(a))]),
           CollateralValue(u))

CurrentLtv(u) == Weighted(u, LAMBDA a : Ltv(eMode[u], a))

CurrentThreshold(u, m) == Weighted(u, LAMBDA a : Threshold(m, a))

(* is-health-factor-below-treshold, were the user in mode m. *)
HealthBelow(u, m) ==
  /\ DebtValue(u) > 0
  /\ Div(Mul(CollateralValue(u), CurrentThreshold(u, m)), DebtValue(u))
       < HealthThreshold

Liquidatable(u) == HealthBelow(u, eMode[u])

DecreaseAllowedNow(u, a, n) == collateral[u][a] => ~ Liquidatable(u)

(* check-balance-decrease-allowed. *)
DecreaseAllowed(u, a, n) ==
  LET have  == CollateralValue(u)
      less  == Value(a, n)
      after == have - less
      total == Mul(have, CurrentThreshold(u, eMode[u]))
      gone  == Mul(less, Threshold(eMode[u], a))
  IN collateral[u][a] /\ DebtValue(u) > 0 =>
       /\ after > 0
       /\ total >= gone
       /\ Div(Mul(after, Div(total - gone, after)), DebtValue(u)) > HealthThreshold

Enabled(listed, flags) == {a \in listed : flags[a]}

(* is-in-isolation-mode: the isolated asset, if it is the only collateral. *)
IsolatedAsset(listed, flags) ==
  LET on == Enabled(listed, flags)
  IN IF Cardinality(on) = 1 /\ on \subseteq isolated
     THEN CHOOSE a \in on : TRUE
     ELSE NoAsset

IsolationOfUser(u) == IsolatedAsset(supplied[u], collateral[u])

MayUseAsCollateralAlways(u, a) == risk[a].ltv # 0

(* validate-use-as-collateral. *)
MayUseAsCollateral(u, a) ==
  /\ risk[a].ltv # 0
  /\ \/ Enabled(supplied[u], collateral[u]) = {}
     \/ IsolationOfUser(u) = NoAsset /\ a \notin isolated

ReduceIsolatedDebtIfCovered(i, a, n) ==
  IF i = NoAsset THEN isoDebt
  ELSE [isoDebt EXCEPT ![i][a] = IF n > @ THEN @ ELSE @ - n]

(* reduce-isolated-mode-debt, for the isolated asset i if there is one. *)
ReduceIsolatedDebt(i, a, n) ==
  IF i = NoAsset THEN isoDebt
  ELSE [isoDebt EXCEPT ![i][a] = IF n > @ THEN 0 ELSE @ - n]

OpenUnlessInactive(a) == active[a]

(* is-frozen stops every transaction of a user on the reserve. *)
Open(a) == ~ frozen[a]

-----------------------------------------------------------------------------
(* Transactions of the users. *)

(* supply *)
Supply(u, a, n) ==
  LET have  == Balance(u, a)
      first == have = 0
      use   == /\ first /\ collateralOn[a] /\ MayUseAsCollateral(u, a)
               /\ eMode[u] = NoMode \/ assetEMode[a] = eMode[u]
  IN /\ n > 0 /\ active[a] /\ Open(a)
     /\ n + vault[a] + totalBorrows[a] <= Param[a].supplyCap
     /\ have >= zBalance[u][a]
     /\ n <= wallet[u][a]
     /\ registered' = registered \cup {u}
     /\ collateral' = [collateral EXCEPT ![u][a] = @ \/ use]
     /\ zBalance' = [zBalance EXCEPT ![u][a] = have + n]
     /\ zIndex' = [zIndex EXCEPT ![u][a] = NormalizedIncome(a)]
     /\ supplied' = IF first THEN [supplied EXCEPT ![u] = @ \cup {a}] ELSE supplied
     /\ UpdateReserve(a, totalBorrows[a], vault[a] + n)
     /\ vault' = [vault EXCEPT ![a] = @ + n]
     /\ wallet' = [wallet EXCEPT ![u][a] = @ - n]
     /\ UNCHANGED <<debtVars, eMode, isoDebt, configVars, envVars>>

(* withdraw *)
Withdraw(u, a, n) ==
  LET have == Balance(u, a)
      out  == IF n = MaxValue THEN have ELSE n
      all  == out = have
  IN /\ have >= zBalance[u][a]
     /\ out > 0 /\ out <= have
     /\ Open(a)
     /\ out <= vault[a]
     /\ DecreaseAllowed(u, a, out)
     /\ zBalance' = [zBalance EXCEPT ![u][a] = have - out]
     /\ zIndex' = [zIndex EXCEPT ![u][a] = IF all THEN 0 ELSE NormalizedIncome(a)]
     /\ supplied' = IF all THEN [supplied EXCEPT ![u] = @ \ {a}] ELSE supplied
     /\ collateral' = CollateralAfter(u, a, all)
     /\ UpdateReserve(a, totalBorrows[a], vault[a] - out)
     /\ vault' = [vault EXCEPT ![a] = @ - out]
     /\ wallet' = [wallet EXCEPT ![u][a] = @ + out]
     /\ UNCHANGED <<debtVars, eMode, isoDebt, registered, configVars, envVars>>

(* validate-borrow-in-isolated-mode, for the isolated asset i *)
IsolatedBorrowAllowed(i, a, n) ==
  LET owed == SumFunction([d \in Asset |-> Value(d, isoDebt[i][d])])
  IN /\ a \in borrowableIso
     /\ debtCeiling[i] > 0 => Value(a, n) + owed <= debtCeiling[i]

(* borrow *)
Borrow(u, a, n) ==
  LET i   == IsolationOfUser(u)
      due == Compounded(u, a)
      ltv == CurrentLtv(u)
  IN /\ borrowingOn[a] /\ active[a] /\ Open(a)
     /\ n > 0 /\ n <= vault[a]
     /\ i # NoAsset => IsolatedBorrowAllowed(i, a, n)
     /\ eMode[u] # NoMode => assetEMode[a] = eMode[u]
     /\ ltv > 0
     /\ CollateralValue(u) > 0
     /\ Div(DebtValue(u) + Value(a, n), ltv) <= CollateralValue(u)
     /\ totalBorrows[a] + n <= Param[a].borrowCap
     /\ due >= principal[u][a]
     /\ principal' = [principal EXCEPT ![u][a] = due + n]
     /\ debtIndex' = [debtIndex EXCEPT ![u][a] = NextBorIndex(a)]
     /\ debtUpdated' = [debtUpdated EXCEPT ![u][a] = height]
     /\ borrowed' = [borrowed EXCEPT ![u] = @ \cup {a}]
     /\ UpdateReserves({a},
          [totalBorrows EXCEPT ![a] = @ + (due - principal[u][a]) + n],
          [x \in Asset |-> 0],
          [vault EXCEPT ![a] = @ - n])
     /\ isoDebt' = IF i = NoAsset THEN isoDebt ELSE [isoDebt EXCEPT ![i][a] = @ + n]
     /\ vault' = [vault EXCEPT ![a] = @ - n]
     /\ wallet' = [wallet EXCEPT ![u][a] = @ + n]
     /\ UNCHANGED <<supplyVars, eMode, registered, configVars, envVars>>

(* repay: p pays n of what u owes *)
Repay(p, u, a, n) ==
  LET due   == Compounded(u, a)
      paid  == IF n = MaxValue \/ n > due THEN due ELSE n
      whole == paid = due
  IN /\ due > 0 /\ n > 0
     /\ Open(a)
     /\ due >= principal[u][a]
     /\ TotalAfter(u, a, due, paid) >= 0
     /\ paid <= wallet[p][a]
     /\ isoDebt' = ReduceIsolatedDebt(IsolationOfUser(u), a, paid)
     /\ principal' = [principal EXCEPT ![u][a] = due - paid]
     /\ debtIndex' = [debtIndex EXCEPT ![u][a] = IF whole THEN 0 ELSE NextBorIndex(a)]
     /\ debtUpdated' = [debtUpdated EXCEPT ![u][a] = height]
     /\ borrowed' = BorrowedAfter(u, a, due - paid)
     /\ UpdateReserve(a, TotalAfter(u, a, due, paid), vault[a] + paid)
     /\ vault' = [vault EXCEPT ![a] = @ + paid]
     /\ wallet' = [wallet EXCEPT ![p][a] = @ - paid]
     /\ UNCHANGED <<supplyVars, eMode, registered, configVars, envVars>>

CanEnableEModeAnyDebt(u, m) == supplied[u] \cup borrowed[u] # {} => m \in eModeOn

(* can-enable-e-mode: the type must be enabled, and what is borrowed of    *)
(* it, only for a user with a position.                                    *)
CanEnableEMode(u, m) ==
  supplied[u] \cup borrowed[u] # {} =>
    m \in eModeOn /\ \A a \in borrowed[u] : assetEMode[a] = m

(* set-e-mode *)
SetEMode(u, m) ==
  /\ m # NoMode =>
       /\ CanEnableEMode(u, m)
       /\ \A a \in Asset : collateral[u][a] => assetEMode[a] = m
  /\ ~ HealthBelow(u, m)
  /\ eMode' = [eMode EXCEPT ![u] = m]
  /\ UNCHANGED <<reserveVars, debtVars, supplyVars, isoDebt, tokenVars, registered,
                 configVars, envVars>>

(* set-user-use-reserve-as-collateral.  In isolation mode the call can     *)
(* only end that mode, whatever it asked for.                              *)
SetUseAsCollateral(u, a, on) ==
  LET i == IsolationOfUser(u)
  IN /\ active[a] /\ Open(a) /\ collateralOn[a]
     /\ on /\ eMode[u] # NoMode => assetEMode[a] = eMode[u]
     /\ Balance(u, a) > 0
     /\ \/ /\ i # NoAsset
           /\ DebtValue(u) = 0 /\ i = a
           /\ collateral' = [collateral EXCEPT ![u][a] = FALSE]
        \/ /\ i = NoAsset
           /\ on /\ CollateralValue(u) > 0 => a \notin isolated
           /\ ~ on => DecreaseAllowed(u, a, Balance(u, a))
           /\ collateral' = [collateral EXCEPT ![u][a] = on]
     /\ UNCHANGED <<reserveVars, debtVars, zVars, eMode, isoDebt, tokenVars,
                    registered, configVars, envVars>>

(* get-liquidation-bonus *)
Bonus(u, c) ==
  IF InEMode(eMode[u], c) THEN Param[c].eModeBonus ELSE risk[c].bonus

SeizureBonusTwice(u, c, d, n) ==
  LET have  == Balance(u, c)
      rate  == One + Bonus(u, c)
      power == Mul(Div(Mul(n, price[d]), price[c]), rate)
      most  == Mul(power, rate)
  IN IF most > have
     THEN [collateral |-> have,
           debt  |-> Mul(Div(Mul(have, price[c]), price[d]), Div(One, rate)),
           bonus |-> Mul(have, One - Div(One, rate))]
     ELSE [collateral |-> most, debt |-> n, bonus |-> most - power]

(* calculate-available-collateral-to-liquidate: what n units of the debt   *)
(* in asset d buy of the collateral c, and what all of the collateral      *)
(* costs when the user has less than that.                                 *)
Seizure(u, c, d, n) ==
  LET have  == Balance(u, c)
      rate  == One + Bonus(u, c)
      power == Div(Mul(n, price[d]), price[c])
      most  == Mul(power, rate)
  IN IF most > have
     THEN [collateral |-> have,
           debt  |-> Mul(Div(Mul(have, price[c]), price[d]), Div(One, rate)),
           bonus |-> Mul(have, One - Div(One, rate))]
     ELSE [collateral |-> most, debt |-> n, bonus |-> most - power]

(* The grace period after a freeze; bad debt does not wait for it. *)
GracePassed(u, c) ==
  graceOn[c] /\ DebtValue(u) <= CollateralValue(u) =>
    burnHeight >= freezeEnd[c] /\ burnHeight - freezeEnd[c] > Param[c].gracePeriod

LiquidatedReservesTwice(c, d, total, paid, taken, asZToken) ==
  /\ borIndex' = [borIndex EXCEPT ![d] =
       Mul(CalculateCompoundedInterest(borRate[d], updated[d], height),
           NextBorIndex(d))]
  /\ totalBorrows' = [totalBorrows EXCEPT ![d] = total]
  /\ updated' = [updated EXCEPT ![d] = height]
  /\ UNCHANGED <<liqIndex, liqRate, borRate, accrued>>

(* update-state-on-liquidation: the debt reserve, and the collateral one   *)
(* when its tokens leave the pool.  The indices of the debt reserve are    *)
(* updated twice, but the reserve read between the two is what is stored.  *)
LiquidatedReserves(c, d, total, paid, taken, asZToken) ==
  UpdateReserves(
    IF asZToken THEN {d} ELSE {c, d},
    [totalBorrows EXCEPT ![d] = total],
    [x \in Asset |-> IF x = d THEN TreasuryShare(d, total)
                     ELSE IF x = c /\ ~ asZToken THEN TreasuryShare(c, totalBorrows[c])
                     ELSE 0],
    [x \in Asset |-> IF x = c /\ ~ asZToken THEN vault[c] - taken
                     ELSE IF x = d THEN vault[d] + paid
                     ELSE vault[x]])

KeptWithoutFee(l, u, c, gain, fee, income, asZToken) ==
  BalanceAt(u, c, income) - (IF asZToken /\ l = u THEN 0 ELSE gain)

(* What u keeps of the collateral. *)
Kept(l, u, c, gain, fee, income, asZToken) ==
  BalanceAt(u, c, income) - fee - (IF asZToken /\ l = u THEN 0 ELSE gain)

(* transfer-on-liquidation or burn-on-liquidation of `gain` for the        *)
(* liquidator l, then burn-on-liquidation of the protocol fee.  Both       *)
(* cumulate first, at the income the reserve update left.  A liquidator    *)
(* who takes the z-tokens of a position of their own keeps them.           *)
SeizedBalances(l, u, c, gain, fee, income, asZToken) ==
  LET kept == Kept(l, u, c, gain, fee, income, asZToken)
      gone == kept = 0
      got  == asZToken /\ l # u
  IN /\ BalanceAt(u, c, income) >= zBalance[u][c]
     /\ kept >= 0
     /\ got => BalanceAt(l, c, income) >= zBalance[l][c]
     /\ zBalance' = [x \in Account |->
          IF x = u THEN [zBalance[u] EXCEPT ![c] = kept]
          ELSE IF x = l /\ got
               THEN [zBalance[l] EXCEPT ![c] = BalanceAt(l, c, income) + gain]
          ELSE zBalance[x]]
     /\ zIndex' = [x \in Account |->
          IF x = u THEN [zIndex[u] EXCEPT ![c] = IF gone THEN 0 ELSE income]
          ELSE IF x = l /\ got THEN [zIndex[l] EXCEPT ![c] = income]
          ELSE zIndex[x]]
     /\ supplied' = [x \in Account |->
          IF x = u /\ gone THEN supplied[u] \ {c}
          ELSE IF x = l /\ asZToken THEN supplied[l] \cup {c}
          ELSE supplied[x]]
     /\ collateral' = CollateralAfter(u, c, gone)

(* liquidation-call: l pays n of the debt of u in d for collateral c.  The *)
(* isolated debt is reduced in the state the seizure leaves.               *)
Liquidate(l, u, c, d, n, asZToken) ==
  LET due    == Compounded(u, d)
      most   == Mul(due, Param[d].closeFactor)
      seize  == Seizure(u, c, d, IF n > most THEN most ELSE n)
      paid   == seize.debt
      fee    == (Param[c].originationFee * seize.bonus) \div BasisPoints
      gain   == seize.collateral - fee
      cash   == IF asZToken THEN 0 ELSE gain
      total  == TotalAfter(u, d, due, paid)
      income == IF asZToken /\ c # d THEN NormalizedIncome(c) ELSE NextLiqIndex(c)
  IN /\ Open(c) /\ Open(d)
     /\ Balance(u, c) > 0 /\ collateral[u][c]
     /\ Liquidatable(u)
     /\ GracePassed(u, c)
     /\ due > 0 /\ due >= principal[u][d]
     /\ fee <= seize.collateral
     /\ asZToken \/ seize.collateral <= vault[c]
     /\ paid > 0 /\ paid <= due /\ total >= 0
     /\ gain > 0 \/ (asZToken /\ l = u)
     /\ paid <= wallet[l][d] + (IF c = d THEN cash ELSE 0)
     /\ cash + fee <= vault[c] + (IF c = d THEN paid ELSE 0)
     /\ principal' = [principal EXCEPT ![u][d] = due - paid]
     /\ debtIndex' = [debtIndex EXCEPT ![u][d] = NextBorIndex(d)]
     /\ debtUpdated' = [debtUpdated EXCEPT ![u][d] = height]
     /\ borrowed' = BorrowedAfter(u, d, due - paid)
     /\ LiquidatedReserves(c, d, total, paid, seize.collateral, asZToken)
     /\ SeizedBalances(l, u, c, gain, fee, income, asZToken)
     /\ isoDebt' = ReduceIsolatedDebt(IsolatedAsset(supplied'[u], collateral'[u]), d, paid)
     /\ vault' = [x \in Asset |->
          vault[x] + (IF x = d THEN paid ELSE 0) - (IF x = c THEN cash + fee ELSE 0)]
     /\ wallet' = [x \in Account |-> [a \in Asset |->
          wallet[x][a] + (IF x = l /\ a = c THEN cash ELSE 0)
                       - (IF x = l /\ a = d THEN paid ELSE 0)
                       + (IF x = Treasury /\ a = c THEN fee ELSE 0)]]
     /\ UNCHANGED <<eMode, registered, configVars, envVars>>

-----------------------------------------------------------------------------
(* Transactions of the configurator. *)

(* mint-to-treasury *)
MintToTreasury(a) ==
  LET minted == Mul(accrued[a], NormalizedIncome(a))
  IN /\ minted > 0
     /\ Balance(Treasury, a) >= zBalance[Treasury][a]
     /\ zBalance' = [zBalance EXCEPT ![Treasury][a] = Balance(Treasury, a) + minted]
     /\ zIndex' = [zIndex EXCEPT ![Treasury][a] = NormalizedIncome(a)]
     /\ accrued' = [accrued EXCEPT ![a] = 0]
     /\ UNCHANGED <<liqIndex, liqRate, borIndex, borRate, totalBorrows, updated,
                    debtVars, supplied, collateral, eMode, isoDebt, tokenVars,
                    registered, configVars, envVars>>

stateButConfig == <<reserveVars, debtVars, supplyVars, eMode, isoDebt, tokenVars,
                    registered, envVars>>

(* set-reserve with the status fields changed: the freeze of an emergency  *)
SetStatus(a, on, frz) ==
  /\ active' = [active EXCEPT ![a] = on]
  /\ frozen' = [frozen EXCEPT ![a] = frz]
  /\ UNCHANGED <<stateButConfig, borrowingOn, collateralOn, risk,
                 debtCeiling, isolated, borrowableIso, graceOn, freezeEnd, eModeOn, assetEMode>>

(* set-borrowing-enabled *)
SetBorrowingEnabled(a, on) ==
  /\ borrowingOn' = [borrowingOn EXCEPT ![a] = on]
  /\ UNCHANGED <<stateButConfig, active, frozen, collateralOn, risk,
                 debtCeiling, isolated, borrowableIso, graceOn, freezeEnd, eModeOn, assetEMode>>

(* set-usage-as-collateral-enabled, which sets the risk parameters too     *)
SetUsageAsCollateralEnabled(a, on, r) ==
  /\ collateralOn' = [collateralOn EXCEPT ![a] = on]
  /\ risk' = [risk EXCEPT ![a] = r]
  /\ UNCHANGED <<stateButConfig, active, frozen, borrowingOn, debtCeiling, isolated,
                 borrowableIso, graceOn, freezeEnd, eModeOn, assetEMode>>

(* add-isolated-asset *)
AddIsolatedAsset(a, ceiling) ==
  /\ isolated' = isolated \cup {a}
  /\ debtCeiling' = [debtCeiling EXCEPT ![a] = ceiling]
  /\ UNCHANGED <<stateButConfig, active, frozen, borrowingOn, collateralOn, risk,
                 borrowableIso, graceOn, freezeEnd, eModeOn, assetEMode>>

(* remove-isolated-asset; the ceiling stays *)
RemoveIsolatedAsset(a) ==
  /\ isolated' = isolated \ {a}
  /\ UNCHANGED <<stateButConfig, active, frozen, borrowingOn, collateralOn, risk,
                 debtCeiling, borrowableIso, graceOn, freezeEnd, eModeOn, assetEMode>>

(* set-borroweable-isolated, remove-borroweable-isolated *)
SetBorrowableIsolated(a, on) ==
  /\ borrowableIso' = IF on THEN borrowableIso \cup {a} ELSE borrowableIso \ {a}
  /\ UNCHANGED <<stateButConfig, active, frozen, borrowingOn, collateralOn, risk,
                 debtCeiling, isolated, graceOn, freezeEnd, eModeOn, assetEMode>>

(* set-freeze-end-block *)
SetFreezeEndBlock(a, end) ==
  /\ freezeEnd' = [freezeEnd EXCEPT ![a] = end]
  /\ UNCHANGED <<stateButConfig, active, frozen, borrowingOn, collateralOn, risk,
                 debtCeiling, isolated, borrowableIso, graceOn, eModeOn, assetEMode>>

(* set-grace-period-enabled *)
SetGracePeriodEnabled(a, on) ==
  /\ graceOn' = [graceOn EXCEPT ![a] = on]
  /\ UNCHANGED <<stateButConfig, active, frozen, borrowingOn, collateralOn, risk,
                 debtCeiling, isolated, borrowableIso, freezeEnd, eModeOn, assetEMode>>

(* set-e-mode-type-enabled *)
SetEModeEnabled(m, on) ==
  /\ eModeOn' = IF on THEN eModeOn \cup {m} ELSE eModeOn \ {m}
  /\ UNCHANGED <<stateButConfig, active, frozen, borrowingOn, collateralOn, risk,
                 debtCeiling, isolated, borrowableIso, graceOn, freezeEnd, assetEMode>>

(* set-asset-e-mode-type *)
SetAssetEMode(a, m) ==
  /\ assetEMode' = [assetEMode EXCEPT ![a] = m]
  /\ UNCHANGED <<stateButConfig, active, frozen, borrowingOn, collateralOn, risk,
                 debtCeiling, isolated, borrowableIso, graceOn, freezeEnd, eModeOn>>

-----------------------------------------------------------------------------
(* The environment: the two chains and the oracles. *)

stateButEnv == <<reserveVars, debtVars, supplyVars, eMode, isoDebt, tokenVars,
                 registered, configVars>>

NextBlock ==
  /\ height < MaxHeight
  /\ height' = height + 1
  /\ UNCHANGED <<stateButEnv, price, burnHeight>>

NextBurnBlock ==
  /\ burnHeight < MaxBurn
  /\ burnHeight' = burnHeight + 1
  /\ UNCHANGED <<stateButEnv, price, height>>

ReportPrice(a, p) ==
  /\ price' = [price EXCEPT ![a] = p]
  /\ UNCHANGED <<stateButEnv, height, burnHeight>>

-----------------------------------------------------------------------------
Zero == [x \in Account |-> [a \in Asset |-> 0]]

UserZero == [u \in User |-> [a \in Asset |-> 0]]

(* The pool as init and the configurator leave it: every reserve open, no  *)
(* position, and the configuration the constants give.                     *)
Init ==
  /\ liqIndex = [a \in Asset |-> One] /\ liqRate = [a \in Asset |-> 0]
  /\ borIndex = [a \in Asset |-> One] /\ borRate = [a \in Asset |-> 0]
  /\ totalBorrows = [a \in Asset |-> 0]
  /\ updated = [a \in Asset |-> 0] /\ accrued = [a \in Asset |-> 0]
  /\ principal = UserZero /\ debtIndex = UserZero /\ debtUpdated = UserZero
  /\ borrowed = [u \in User |-> {}]
  /\ zBalance = Zero /\ zIndex = Zero
  /\ supplied = [x \in Account |-> {}]
  /\ collateral = [u \in User |-> [a \in Asset |-> FALSE]]
  /\ eMode = [u \in User |-> NoMode]
  /\ isoDebt = [i \in Asset |-> [a \in Asset |-> 0]]
  /\ vault = [a \in Asset |-> 0] /\ wallet = Deposit
  /\ registered = {}
  /\ active = [a \in Asset |-> TRUE] /\ frozen = [a \in Asset |-> FALSE]
  /\ borrowingOn = [a \in Asset |-> a \in Borrowable0]
  /\ collateralOn = [a \in Asset |-> a \in Collateral0]
  /\ risk = [a \in Asset |-> [ltv |-> Param[a].ltv, threshold |-> Param[a].threshold,
                              bonus |-> Param[a].bonus]]
  /\ debtCeiling = [a \in Asset |-> Param[a].debtCeiling]
  /\ isolated = Isolated0 /\ borrowableIso = BorrowableIso0
  /\ graceOn = [a \in Asset |-> FALSE] /\ freezeEnd = [a \in Asset |-> 0]
  /\ eModeOn = EMode /\ assetEMode = AssetEMode0
  /\ price \in [Asset -> UNION {Price[a] : a \in Asset}]
  /\ \A a \in Asset : price[a] \in Price[a]
  /\ height = 0 /\ burnHeight = 0

UserStep ==
  \/ \E a \in Asset, n \in Amount :
       \/ \E u \in Caller.supply : Supply(u, a, n)
       \/ \E u \in Caller.withdraw : Withdraw(u, a, n)
       \/ \E u \in Caller.borrow : Borrow(u, a, n)
       \/ \E p \in Caller.repay, u \in User : Repay(p, u, a, n)
       \/ \E l \in Caller.liquidate, u \in User, d \in Asset, asZToken \in BOOLEAN :
            Liquidate(l, u, a, d, n, asZToken)
  \/ \E u \in Caller.mode, m \in EMode \cup {NoMode} : SetEMode(u, m)
  \/ \E u \in Caller.use, a \in Asset, on \in BOOLEAN : SetUseAsCollateral(u, a, on)

ConfigStep ==
  \/ \E a \in Asset : MintToTreasury(a)
  \/ \E a \in StatusOf, on, frz \in BOOLEAN : SetStatus(a, on, frz)
  \/ \E a \in BorrowingOf, on \in BOOLEAN : SetBorrowingEnabled(a, on)
  \/ \E a \in UsageOf, on \in BOOLEAN, r \in Risk :
       SetUsageAsCollateralEnabled(a, on, r)
  \/ \E a \in IsolationOf, ceiling \in Ceiling : AddIsolatedAsset(a, ceiling)
  \/ \E a \in IsolationOf : RemoveIsolatedAsset(a)
  \/ \E a \in IsoBorrowOf, on \in BOOLEAN : SetBorrowableIsolated(a, on)
  \/ \E a \in GraceOf, end \in 0 .. MaxBurn : SetFreezeEndBlock(a, end)
  \/ \E a \in GraceOf, on \in BOOLEAN : SetGracePeriodEnabled(a, on)
  \/ \E m \in Switched, on \in BOOLEAN : SetEModeEnabled(m, on)
  \/ \E a \in TypeOf, m \in EMode \cup {NoMode} : SetAssetEMode(a, m)

EnvStep ==
  \/ NextBlock
  \/ NextBurnBlock
  \/ \E a \in Asset : \E p \in Price[a] : ReportPrice(a, p)

Next == UserStep \/ ConfigStep \/ EnvStep

(* No transaction is ever certain to be sent: no fairness.                 *)
Spec == Init /\ [][Next]_vars

-----------------------------------------------------------------------------
(* Properties. *)

(* Every variable stays in the range of the contracts' data maps: unsigned *)
(* integers, flags, lists of known assets; no index falls below one and no *)
(* reserve is ahead of the chain.                                          *)
ReserveTypeOK ==
  /\ liqIndex \in [Asset -> Nat] /\ borIndex \in [Asset -> Nat]
  /\ \A a \in Asset : liqIndex[a] >= One /\ borIndex[a] >= One
  /\ liqRate \in [Asset -> Nat] /\ borRate \in [Asset -> Nat]
  /\ totalBorrows \in [Asset -> Nat]
  /\ updated \in [Asset -> 0 .. height] /\ accrued \in [Asset -> Nat]

DebtTypeOK ==
  /\ principal \in [User -> [Asset -> Nat]]
  /\ debtIndex \in [User -> [Asset -> Nat]]
  /\ debtUpdated \in [User -> [Asset -> Nat]]
  /\ borrowed \in [User -> SUBSET Asset]

SupplyTypeOK ==
  /\ zBalance \in [Account -> [Asset -> Nat]]
  /\ zIndex \in [Account -> [Asset -> Nat]]
  /\ supplied \in [Account -> SUBSET Asset]
  /\ collateral \in [User -> [Asset -> BOOLEAN]]

ModeTypeOK ==
  /\ eMode \in [User -> EMode \cup {NoMode}]
  /\ isoDebt \in [Asset -> [Asset -> Nat]]

TokenTypeOK ==
  /\ vault \in [Asset -> Nat]
  /\ wallet \in [Account -> [Asset -> Nat]]
  /\ registered \subseteq User

ConfigTypeOK ==
  /\ active \in [Asset -> BOOLEAN] /\ frozen \in [Asset -> BOOLEAN]
  /\ borrowingOn \in [Asset -> BOOLEAN] /\ collateralOn \in [Asset -> BOOLEAN]
  /\ risk \in [Asset -> RiskType] /\ debtCeiling \in [Asset -> Nat]
  /\ isolated \subseteq Asset /\ borrowableIso \subseteq Asset
  /\ graceOn \in [Asset -> BOOLEAN] /\ freezeEnd \in [Asset -> Nat]
  /\ eModeOn \subseteq EMode /\ assetEMode \in [Asset -> EMode \cup {NoMode}]

EnvTypeOK ==
  /\ price \in [Asset -> Nat \ {0}]
  /\ height \in 0 .. MaxHeight /\ burnHeight \in Nat

TypeOK ==
  /\ ReserveTypeOK /\ DebtTypeOK /\ SupplyTypeOK /\ ModeTypeOK
  /\ TokenTypeOK /\ ConfigTypeOK /\ EnvTypeOK

(* total-borrows-variable of a reserve is the sum of the principal of its  *)
(* borrowers, through every borrow, repayment and liquidation, although    *)
(* the reserve and the user are updated by separate functions.             *)
DebtLedger ==
  \A a \in Asset : totalBorrows[a] = SumFunction([u \in User |-> principal[u][a]])

(* A reserve is on the list of a user's borrowed assets, which set-e-mode  *)
(* relies on, exactly while the user owes something to it.                 *)
BorrowListsExact ==
  \A u \in User, a \in Asset : a \in borrowed[u] <=> principal[u][a] > 0

(* An asset is on the list of a user's supplied assets, which isolation    *)
(* mode relies on, exactly while the user holds z-tokens of it, and only   *)
(* then can it serve as collateral.                                        *)
SupplyListsExact ==
  \A u \in User, a \in Asset :
    /\ a \in supplied[u] <=> zBalance[u][a] > 0
    /\ collateral[u][a] => a \in supplied[u]

(* Neither repay nor a liquidation can be blocked by an underflow: what is *)
(* due covers the principal it is split into, and the reserve's total      *)
(* covers what is due after the interest has joined it.                    *)
DebtPayable ==
  \A u \in User, a \in Asset :
    LET due == Compounded(u, a)
    IN due >= principal[u][a] /\ TotalAfter(u, a, due, due) >= 0

(* The index a depositor was last cumulated at is never ahead of the       *)
(* income, or cumulate-balance would underflow and lock the deposit.       *)
DepositsCumulate ==
  \A x \in Account, a \in Asset : zIndex[x][a] <= NormalizedIncome(a)

(* The rates in force are those of the reserve's present utilization, even *)
(* though each transaction sets them before it moves the tokens.           *)
RatesFollowUtilization ==
  \A a \in Asset :
    vault[a] + totalBorrows[a] > 0 =>
      LET util == Utilization(totalBorrows[a], vault[a])
      IN borRate[a] = BorrowRate(a, util) /\ liqRate[a] = LiquidityRate(a, util)

(* A user whose collateral includes an isolated asset uses no other.       *)
IsolationExclusive ==
  \A u \in User :
    LET on == Enabled(supplied[u], collateral[u])
    IN on \cap isolated # {} => Cardinality(on) = 1

(* A user in an e-mode borrows, and uses as collateral, assets of its type *)
(* only.                                                                   *)
EModeCoherent ==
  \A u \in User, a \in Asset :
    eMode[u] # NoMode /\ (a \in borrowed[u] \/ collateral[u][a])
      => assetEMode[a] = eMode[u]

(* No transaction makes a healthy position liquidatable, neither the one   *)
(* of its owner nor another's: only a price, the interest of a block or    *)
(* the configurator can.                                                   *)
StaysHealthy ==
  [][UNCHANGED <<configVars, price, height>> =>
       \A u \in User : Liquidatable(u)' => Liquidatable(u)]_vars

(* What the accounts are owed in an asset, and what the users owe.         *)
Deposits(a) == SumFunction([x \in Account |-> Balance(x, a)])
Debts(a) == SumFunction([u \in User |-> Compounded(u, a)])

(* No unit is made or lost within a block: what the pool is owed and holds *)
(* of an asset moves with what it owes, through every rounding and fee,    *)
(* but for what mint-to-treasury credits.                                  *)
NothingMadeOrLost ==
  [][\A a \in Asset : height' = height =>
       Deposits(a)' - Debts(a)' - vault[a]'
         = Deposits(a) - Debts(a) - vault[a] + Balance(Treasury, a)' - Balance(Treasury, a)]_vars

(* Within a block, the count of the debt in d against an isolated asset i  *)
(* moves by exactly what is owed in d by those whom the transaction leaves *)
(* in the isolation mode of i, interest included, and stops at zero.  So   *)
(* interest is taken off the count when it is paid, though it was never    *)
(* added, and entering or leaving the mode with a debt counts for nothing. *)
IsolatedDebtTracked ==
  [][\A i \in Asset, d \in Asset : height' = height =>
       LET moved == SumFunction([u \in User |->
             IF IsolationOfUser(u)' = i THEN Compounded(u, d)' - Compounded(u, d) ELSE 0])
       IN isoDebt'[i][d] = IF isoDebt[i][d] + moved < 0 THEN 0 ELSE isoDebt[i][d] + moved]_vars

(* Interest is charged once: within a block no transaction, on whatever    *)
(* path it updates the indices, moves the income of a reserve or, while    *)
(* something stays borrowed, what one unit of its debt has grown to.       *)
InterestAccruesOnce ==
  [][\A a \in Asset : height' = height =>
       /\ NormalizedIncome(a)' = NormalizedIncome(a)
       /\ totalBorrows[a] > 0 /\ totalBorrows'[a] > 0 =>
            NormalizedDebt(a)' = NormalizedDebt(a)]_vars

(* What the roundings of Seizure and of Value can add up to where `worth`  *)
(* changes hands: about a unit of each asset, a unit of value, and the     *)
(* share of the worth that the rounding of one over the rate makes.        *)
SeizureRounding(u, c, d, worth) ==
  LET rate == One + Bonus(u, c)
  IN 1 + (rate * (One + worth) + (price[c] + price[d]) * (One + rate)) \div (2 * One * One)

(* A liquidation takes collateral worth no more than the debt it pays and  *)
(* the bonus on that, and pays debt worth no more than the close factor    *)
(* allows, both up to the roundings.                                       *)
LiquidationBounded ==
  [][\A u \in User, c \in Asset, d \in Asset :
       LET taken   == Value(c, Balance(u, c) - Balance(u, c)')
           paid    == Value(d, Compounded(u, d) - Compounded(u, d)')
           allowed == Value(d, Mul(Compounded(u, d), Param[d].closeFactor))
       IN Balance(u, c)' < Balance(u, c) /\ Compounded(u, d)' < Compounded(u, d) =>
            /\ taken <= Mul(paid, One + Bonus(u, c)) + SeizureRounding(u, c, d, taken)
            /\ paid <= allowed + SeizureRounding(u, c, d, allowed)]_vars

(* While a reserve is frozen, no balance, debt or collateral flag of a     *)
(* user and no token of the vault moves in it.                             *)
FrozenUntouched ==
  [][\A a \in Asset : frozen[a] =>
       /\ vault[a]' = vault[a]
       /\ \A u \in User :
            /\ principal[u][a]' = principal[u][a]
            /\ zBalance[u][a]' = zBalance[u][a]
            /\ collateral[u][a]' = collateral[u][a]]_vars

=============================================================================
